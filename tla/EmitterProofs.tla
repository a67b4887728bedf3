---------------------------- MODULE EmitterProofs ----------------------------
(***************************************************************************)
(* Safety of Emitter for every set of events and workers and every buffer  *)
(* size, the refinement of Handoff, and safety of its composition with the *)
(* delivery of webhooks for every number of attempts.                      *)
(***************************************************************************)
EXTENDS Delivery, FiniteSetTheorems, TLAPS

-----------------------------------------------------------------------------
(* Sequences seen as the set of their elements.                            *)

\* Appending to the channel adds one element.
LEMMA RangeAppend ==
    ASSUME NEW S, NEW s \in Seq(S), NEW e \in S
    PROVE  Range(Append(s, e)) = Range(s) \cup {e}
<1>1. /\ Len(Append(s, e)) = Len(s) + 1
      /\ \A i \in 1..Len(s) : Append(s, e)[i] = s[i]
      /\ Append(s, e)[Len(s) + 1] = e
      /\ DOMAIN s = 1..Len(s)
      /\ DOMAIN Append(s, e) = 1..(Len(s) + 1)
      /\ Len(s) \in Nat
    OBVIOUS
<1>2. ASSUME NEW i \in 1..(Len(s) + 1)
      PROVE  i \in 1..Len(s) \/ i = Len(s) + 1
    BY <1>1
<1> QED BY <1>1, <1>2 DEF Range

\* A sequence without repetitions stays so when a new element is appended.
LEMMA InjectiveAppend ==
    ASSUME NEW S, NEW s \in Seq(S), NEW e \in S, IsInjective(s), e \notin Range(s)
    PROVE  IsInjective(Append(s, e))
<1>1. /\ \A i \in 1..Len(s) : Append(s, e)[i] = s[i] /\ s[i] # e
      /\ Append(s, e)[Len(s) + 1] = e
      /\ DOMAIN s = 1..Len(s)
      /\ DOMAIN Append(s, e) = 1..(Len(s) + 1)
      /\ Len(s) \in Nat
    BY DEF Range
<1>2. \A i \in 1..(Len(s) + 1) : i \in 1..Len(s) \/ i = Len(s) + 1
    BY <1>1
<1> QED BY <1>1, <1>2 DEF IsInjective

\* Receiving from a channel without repetitions removes exactly its head.
LEMMA TailOfInjective ==
    ASSUME NEW S, NEW s \in Seq(S), s # <<>>, IsInjective(s)
    PROVE  /\ Head(s) \in Range(s)
           /\ Tail(s) \in Seq(S)
           /\ Len(Tail(s)) = Len(s) - 1
           /\ IsInjective(Tail(s))
           /\ Range(Tail(s)) = Range(s) \ {Head(s)}
<1>1. /\ Head(s) = s[1]
      /\ Tail(s) \in Seq(S)
      /\ Len(s) \in Nat \ {0}
      /\ Len(Tail(s)) = Len(s) - 1
      /\ \A i \in 1..(Len(s) - 1) : Tail(s)[i] = s[i + 1]
      /\ DOMAIN s = 1..Len(s)
      /\ DOMAIN Tail(s) = 1..(Len(s) - 1)
    OBVIOUS
<1>2. \A i, j \in 1..Len(s) : s[i] = s[j] => i = j
    BY <1>1 DEF IsInjective
<1>3. Head(s) \in Range(s)
    BY <1>1 DEF Range
<1>4. IsInjective(Tail(s))
  <2> SUFFICES ASSUME NEW i \in 1..(Len(s) - 1), NEW j \in 1..(Len(s) - 1),
                      s[i + 1] = s[j + 1]
               PROVE  i = j
      BY <1>1 DEF IsInjective
  <2>1. i + 1 \in 1..Len(s) /\ j + 1 \in 1..Len(s) /\ i \in Nat /\ j \in Nat
      BY <1>1
  <2> QED BY <2>1, <1>2
<1>5. Range(Tail(s)) \subseteq Range(s) \ {Head(s)}
  <2> SUFFICES ASSUME NEW i \in 1..(Len(s) - 1)
               PROVE  s[i + 1] \in Range(s) /\ s[i + 1] # s[1]
      BY <1>1 DEF Range
  <2>1. i + 1 \in 1..Len(s) /\ 1 \in 1..Len(s) /\ i + 1 # 1
      BY <1>1
  <2> QED BY <2>1, <1>1, <1>2 DEF Range
<1>6. Range(s) \ {Head(s)} \subseteq Range(Tail(s))
  <2> SUFFICES ASSUME NEW i \in 1..Len(s), i # 1
               PROVE  s[i] \in Range(Tail(s))
      BY <1>1 DEF Range
  <2>1. i - 1 \in 1..(Len(s) - 1) /\ (i - 1) + 1 = i
      BY <1>1
  <2>2. Tail(s)[i - 1] = s[i]
      BY <2>1, <1>1
  <2> QED BY <2>1, <2>2, <1>1 DEF Range
<1> QED BY <1>1, <1>3, <1>4, <1>5, <1>6

-----------------------------------------------------------------------------
(* The inductive invariant.                                                *)

\* A worker has an event exactly while its process function runs.
PcInv == \A w \in Workers : cur[w] # None <=> pc[w] \in {"process", "drainProcess"}

\* The context is cancelled at one point of main's sequence, and no worker
\* leaves its main loop before that.
CancelInv ==
    /\ ctxDone <=> main \notin {"serving", "shutdown", "cancel"}
    /\ \A w \in Workers : pc[w] \in {"drain", "drainProcess", "exited"} => ctxDone
    /\ ~ctxDone => atCancel = {}

\* Late events stay in the channel, for good.
LateInv ==
    /\ late # {} => AllExited
    /\ late \subseteq Buffered
    /\ AllExited => Buffered \subseteq late

\* What the clean verdict relies on: an event buffered at the cancellation can
\* only move on to a worker and then to handled.
StopInv ==
    /\ verdict = "clean" => AllExited
    /\ atCancel \subseteq Buffered \cup Held \cup handled
    /\ atCancel \cap late = {}

IInv == TypeOK /\ ExactlyOnePlace /\ PcInv /\ CancelInv /\ LateInv /\ StopInv

\* The invariant holds when main starts the pool.
LEMMA InitIInv == Init => IInv
<1> SUFFICES ASSUME Init PROVE IInv
    OBVIOUS
<1> USE EmitterAssumption DEF EmitterAssumption
<1>1. ch = <<>> /\ <<>> \in Seq(Events) /\ Len(<<>>) = 0 /\ DOMAIN <<>> = {}
    BY DEF Init
<1>2. Buffered = {} /\ IsInjective(ch)
    BY <1>1 DEF Buffered, Range, IsInjective
<1>3. Held = {}
    BY DEF Init, Held
<1>4. Given = {}
    BY DEF Init, Given
<1>5. ~AllExited
    BY DEF Init, AllExited
<1>6. TypeOK
  <2>1. ch \in Seq(Events) /\ Len(ch) <= BufferSize
      BY <1>1
  <2>2. req \in [Events -> ReqState] /\ pc \in [Workers -> PcState] /\ main \in MainState
      BY DEF Init, ReqState, PcState, MainState
  <2>3. cur \in [Workers -> Events \cup {None}]
      BY DEF Init
  <2> QED BY <2>1, <2>2, <2>3 DEF Init, TypeOK
<1>7. ExactlyOnePlace
    BY <1>2, <1>3, <1>4 DEF Init, ExactlyOnePlace
<1> QED
    BY <1>2, <1>3, <1>5, <1>6, <1>7 DEF Init, IInv, PcInv, CancelInv, LateInv, StopInv

\* A step that leaves the channel, the workers and the records of events alone
\* keeps them where they are.
LEMMA SameSets ==
    ASSUME UNCHANGED <<ch, pc, cur>>
    PROVE  /\ Buffered' = Buffered
           /\ Held' = Held
           /\ AllExited' = AllExited
           /\ IsInjective(ch)' = IsInjective(ch)
BY DEF Buffered, Held, AllExited, Range, IsInjective

-----------------------------------------------------------------------------
(* One lemma per kind of step.                                             *)

\* Arrive and SpawnEmit move a request towards its Emit and nothing else.
LEMMA RequestStep ==
    ASSUME IInv, NEW e \in Events, Arrive(e) \/ SpawnEmit(e)
    PROVE  IInv'
<1> USE DEF IInv
<1>1. /\ UNCHANGED <<ch, pc, cur, handled, aborted, dropped, main, ctxDone, verdict, hist>>
      /\ req[e] # "given"
      /\ \E v \in {"handler", "emitting"} : req' = [req EXCEPT ![e] = v]
    BY DEF Arrive, SpawnEmit
<1>2. /\ Buffered' = Buffered /\ Held' = Held /\ AllExited' = AllExited
      /\ IsInjective(ch)' = IsInjective(ch)
    BY <1>1, SameSets
<1>3. req' \in [Events -> ReqState]
    BY <1>1 DEF TypeOK, ReqState
<1>4. Given' = Given
    BY <1>1 DEF Given, TypeOK
<1>5. TypeOK'
    BY <1>1, <1>3 DEF TypeOK, hist
<1>6. ExactlyOnePlace'
    BY <1>1, <1>2, <1>4 DEF ExactlyOnePlace
<1>7. PcInv' /\ CancelInv'
    BY <1>1 DEF PcInv, CancelInv, hist
<1>8. LateInv' /\ StopInv'
    BY <1>1, <1>2 DEF LateInv, StopInv, hist
<1> QED BY <1>5, <1>6, <1>7, <1>8

\* Emit puts a fresh event into the channel, or among the dropped.
LEMMA EmitStep ==
    ASSUME IInv, NEW e \in Events, Emit(e)
    PROVE  IInv'
<1> USE EmitterAssumption DEF IInv, EmitterAssumption
<1>1. e \notin Buffered \cup Held \cup handled \cup dropped
    BY DEF Emit, ExactlyOnePlace, Given
<1>2. /\ UNCHANGED <<pc, cur, handled, aborted, main, ctxDone, verdict, atCancel>>
      /\ req' = [req EXCEPT ![e] = "given"]
    BY DEF Emit
<1>3. Held' = Held /\ AllExited' = AllExited
    BY <1>2 DEF Held, AllExited
<1>4. Given' = Given \cup {e} /\ req' \in [Events -> ReqState]
    BY <1>2 DEF Given, TypeOK, ReqState
<1>5. PcInv' /\ CancelInv'
    BY <1>2 DEF PcInv, CancelInv
<1>6. CASE /\ Len(ch) < BufferSize
           /\ ch' = Append(ch, e)
           /\ late' = IF AllExited THEN late \cup {e} ELSE late
           /\ UNCHANGED dropped
  <2>1. Buffered' = Buffered \cup {e}
      BY <1>6, RangeAppend DEF TypeOK, Buffered
  <2>2. IsInjective(ch')
      BY <1>1, <1>6, InjectiveAppend DEF TypeOK, ExactlyOnePlace, Buffered
  <2>3. ch' \in Seq(Events) /\ Len(ch') <= BufferSize
      BY <1>6 DEF TypeOK
  <2>4. TypeOK'
      BY <1>2, <1>4, <1>6, <2>3 DEF TypeOK
  <2>5. ExactlyOnePlace'
    <3>1. \A w, v \in Workers : cur'[w] = cur'[v] /\ cur'[w] # None => w = v
        BY <1>2 DEF ExactlyOnePlace
    <3> QED BY <3>1, <1>1, <1>2, <1>3, <1>4, <1>6, <2>1, <2>2 DEF ExactlyOnePlace
  <2>6. LateInv'
      BY <1>3, <1>6, <2>1 DEF LateInv
  <2>7. StopInv'
      BY <1>1, <1>2, <1>3, <1>6, <2>1 DEF StopInv, LateInv
  <2> QED BY <1>5, <2>4, <2>5, <2>6, <2>7
<1>7. CASE /\ Len(ch) = BufferSize
           /\ dropped' = dropped \cup {e}
           /\ UNCHANGED <<ch, late>>
  <2>1. Buffered' = Buffered /\ IsInjective(ch)' = IsInjective(ch)
      BY <1>7 DEF Buffered
  <2>2. TypeOK'
      BY <1>2, <1>4, <1>7 DEF TypeOK
  <2>3. ExactlyOnePlace'
    <3>1. \A w, v \in Workers : cur'[w] = cur'[v] /\ cur'[w] # None => w = v
        BY <1>2 DEF ExactlyOnePlace
    <3> QED BY <3>1, <1>1, <1>2, <1>3, <1>4, <1>7, <2>1 DEF ExactlyOnePlace
  <2>4. LateInv' /\ StopInv'
      BY <1>2, <1>3, <1>7, <2>1 DEF LateInv, StopInv
  <2> QED BY <1>5, <2>2, <2>3, <2>4
<1> QED BY <1>6, <1>7 DEF Emit

\* A receive moves the head of the channel into the worker's hands; no worker
\* that can still receive has exited.
LEMMA TakeStep ==
    ASSUME IInv, NEW w \in Workers,
           \/ Take(w, "select", "process")
           \/ Take(w, "drain", "drainProcess")
    PROVE  IInv'
<1> USE EmitterAssumption DEF IInv, EmitterAssumption
<1>1. /\ ch # <<>> /\ ch' = Tail(ch)
      /\ cur' = [cur EXCEPT ![w] = Head(ch)]
      /\ UNCHANGED <<req, handled, aborted, dropped, main, ctxDone, verdict, hist>>
    BY DEF Take
<1>2. \/ pc[w] = "select" /\ pc' = [pc EXCEPT ![w] = "process"]
      \/ pc[w] = "drain" /\ pc' = [pc EXCEPT ![w] = "drainProcess"]
    BY DEF Take
<1>3. /\ Head(ch) \in Buffered
      /\ ch' \in Seq(Events)
      /\ Len(ch') = Len(ch) - 1
      /\ IsInjective(ch')
      /\ Buffered' = Buffered \ {Head(ch)}
    BY <1>1, TailOfInjective DEF TypeOK, ExactlyOnePlace, Buffered
<1>4. Buffered \subseteq Events
    BY DEF Buffered, Range, TypeOK
<1>5. cur[w] = None /\ Head(ch) \in Events /\ Head(ch) # None
    BY <1>2, <1>3, <1>4 DEF PcInv
<1>6. Held' = Held \cup {Head(ch)}
    BY <1>1, <1>5 DEF Held, TypeOK
<1>7. ~AllExited /\ ~AllExited'
    BY <1>2 DEF AllExited, TypeOK
<1>8. TypeOK'
  <2>1. cur' \in [Workers -> Events \cup {None}] /\ pc' \in [Workers -> PcState]
      BY <1>1, <1>2, <1>5 DEF TypeOK, PcState
  <2>2. Len(ch') <= BufferSize
      BY <1>3 DEF TypeOK
  <2> QED BY <1>1, <1>3, <2>1, <2>2 DEF TypeOK, hist
<1>9. ExactlyOnePlace'
  <2>1. \A u, v \in Workers : cur'[u] = cur'[v] /\ cur'[u] # None => u = v
    <3> SUFFICES ASSUME NEW u \in Workers, NEW v \in Workers,
                        cur'[u] = cur'[v], cur'[u] # None
                 PROVE  u = v
        OBVIOUS
    <3>1. \A x \in Workers : x # w => cur'[x] = cur[x] /\ cur[x] # Head(ch)
        BY <1>1, <1>3, <1>5 DEF TypeOK, ExactlyOnePlace, Held
    <3>2. cur'[w] = Head(ch)
        BY <1>1 DEF TypeOK
    <3> QED BY <3>1, <3>2 DEF ExactlyOnePlace
  <2>2. Given' = Given
      BY <1>1 DEF Given
  <2> QED BY <2>1, <2>2, <1>1, <1>3, <1>6 DEF ExactlyOnePlace
<1>10. PcInv'
    BY <1>1, <1>2, <1>5 DEF PcInv, TypeOK
<1>11. CancelInv'
    BY <1>1, <1>2 DEF CancelInv, TypeOK, hist
<1>12. LateInv' /\ StopInv'
    BY <1>1, <1>3, <1>6, <1>7 DEF LateInv, StopInv, hist
<1> QED BY <1>8, <1>9, <1>10, <1>11, <1>12

\* When process returns, the worker's event is handled and its hands are empty.
LEMMA ReturnStep ==
    ASSUME IInv, NEW w \in Workers, Return(w)
    PROVE  IInv'
<1> USE EmitterAssumption DEF IInv, EmitterAssumption
<1>1. /\ pc[w] \in {"process", "drainProcess"}
      /\ handled' = handled \cup {cur[w]}
      /\ aborted' \in {aborted, aborted \cup {cur[w]}}
      /\ pc' = [pc EXCEPT ![w] = IF pc[w] = "process" THEN "select" ELSE "drain"]
      /\ cur' = [cur EXCEPT ![w] = None]
      /\ UNCHANGED <<req, ch, dropped, main, ctxDone, verdict, hist>>
    BY DEF Return
<1>2. cur[w] # None /\ cur[w] \in Events /\ cur[w] \in Held
    BY <1>1 DEF PcInv, TypeOK, Held
<1>3. Held' = Held \ {cur[w]}
  <2>1. \A v \in Workers : v # w => cur'[v] = cur[v] /\ (cur[v] = None \/ cur[v] # cur[w])
      BY <1>1, <1>2 DEF TypeOK, ExactlyOnePlace
  <2>2. cur'[w] = None
      BY <1>1 DEF TypeOK
  <2> QED BY <2>1, <2>2 DEF Held
<1>4. Buffered' = Buffered /\ IsInjective(ch)' = IsInjective(ch) /\ Given' = Given
    BY <1>1 DEF Buffered, Given
<1>5. ~AllExited /\ ~AllExited'
    BY <1>1 DEF AllExited, TypeOK
<1>6. TypeOK'
    BY <1>1, <1>2 DEF TypeOK, PcState, hist
<1>7. ExactlyOnePlace'
  <2>1. \A u, v \in Workers : cur'[u] = cur'[v] /\ cur'[u] # None => u = v
      BY <1>1 DEF ExactlyOnePlace, TypeOK
  <2> QED BY <2>1, <1>1, <1>2, <1>3, <1>4 DEF ExactlyOnePlace
<1>8. PcInv'
    BY <1>1 DEF PcInv, TypeOK
<1>9. CancelInv'
    BY <1>1 DEF CancelInv, TypeOK, hist
<1>10. LateInv' /\ StopInv'
    BY <1>1, <1>3, <1>4, <1>5 DEF LateInv, StopInv, hist
<1> QED BY <1>6, <1>7, <1>8, <1>9, <1>10

\* A worker notices the cancellation, or exits on an empty channel.
LEMMA LeaveStep ==
    ASSUME IInv, NEW w \in Workers, ObserveCancel(w) \/ DrainExit(w)
    PROVE  IInv'
<1> USE EmitterAssumption DEF IInv, EmitterAssumption
<1>1. UNCHANGED <<req, ch, cur, handled, aborted, dropped, main, ctxDone, verdict, hist>>
    BY DEF ObserveCancel, DrainExit
<1>2. \/ pc[w] = "select" /\ ctxDone /\ pc' = [pc EXCEPT ![w] = "drain"]
      \/ pc[w] = "drain" /\ ch = <<>> /\ pc' = [pc EXCEPT ![w] = "exited"]
    BY DEF ObserveCancel, DrainExit
<1>3. /\ Buffered' = Buffered /\ Held' = Held /\ Given' = Given
      /\ IsInjective(ch)' = IsInjective(ch)
    BY <1>1 DEF Buffered, Held, Given
<1>4. ~AllExited
    BY <1>2 DEF AllExited
<1>5. AllExited' => Buffered = {}
  <2>1. CASE pc[w] = "select" /\ pc' = [pc EXCEPT ![w] = "drain"]
      BY <2>1 DEF AllExited, TypeOK
  <2>2. CASE ch = <<>>
    <3>1. DOMAIN ch = {}
        BY <2>2
    <3> QED BY <3>1 DEF Buffered, Range
  <2> QED BY <1>2, <2>1, <2>2
<1>6. TypeOK'
    BY <1>1, <1>2 DEF TypeOK, PcState, hist
<1>7. ExactlyOnePlace'
    BY <1>1, <1>3 DEF ExactlyOnePlace
<1>8. PcInv'
    BY <1>1, <1>2 DEF PcInv, TypeOK
<1>9. CancelInv'
    BY <1>1, <1>2 DEF CancelInv, TypeOK, hist
<1>10. LateInv'
    BY <1>1, <1>3, <1>4, <1>5 DEF LateInv, hist
<1>11. StopInv'
    BY <1>1, <1>3, <1>4 DEF StopInv, hist
<1> QED BY <1>6, <1>7, <1>8, <1>9, <1>10, <1>11

\* main's own steps touch neither the channel nor the workers.
LEMMA MainStep ==
    ASSUME IInv, Shutdown \/ Signal \/ ServerFails
    PROVE  IInv'
<1> USE EmitterAssumption DEF IInv, EmitterAssumption
<1>1. UNCHANGED <<req, ch, pc, cur, handled, aborted, dropped, late>>
    BY DEF Shutdown, ShutdownReturns, CancelEmitter, Stop, Exit, Signal, ServerFails, hist
<1>2. /\ Buffered' = Buffered /\ Held' = Held /\ AllExited' = AllExited
      /\ Given' = Given /\ IsInjective(ch)' = IsInjective(ch)
    BY <1>1, SameSets DEF Given
<1>3. /\ ~ctxDone => late = {}
      /\ Buffered \subseteq Events
  <2>1. AllExited => ctxDone
      BY DEF AllExited, CancelInv
  <2> QED BY <2>1 DEF LateInv, Buffered, Range, TypeOK
<1>4. ExactlyOnePlace' /\ PcInv' /\ LateInv'
    BY <1>1, <1>2 DEF ExactlyOnePlace, PcInv, LateInv
<1>5. CASE CancelEmitter \/ ServerFails
  <2>1. /\ ctxDone' = TRUE /\ atCancel' = Buffered /\ UNCHANGED verdict
        /\ main' \in {"stopping", "returned"} /\ ~ctxDone
      BY <1>5 DEF CancelEmitter, ServerFails, CancelInv
  <2>2. TypeOK'
      BY <1>1, <1>3, <2>1 DEF TypeOK, MainState
  <2>3. CancelInv'
      BY <1>1, <2>1 DEF CancelInv
  <2>4. StopInv'
      BY <1>1, <1>2, <1>3, <2>1 DEF StopInv
  <2> QED BY <1>4, <2>2, <2>3, <2>4
<1>6. CASE ShutdownReturns \/ Stop \/ Exit \/ Signal
  <2>1. UNCHANGED <<ctxDone, atCancel>>
      BY <1>6 DEF ShutdownReturns, Stop, Exit, Signal, hist
  <2>2. /\ main' \in MainState /\ verdict' \in {"none", "clean", "timeout"}
        /\ verdict' = "clean" => AllExited
      BY <1>6 DEF ShutdownReturns, Stop, Exit, Signal, MainState, TypeOK, StopInv
  <2>3. main' \in {"serving", "shutdown", "cancel"} <=> main \in {"serving", "shutdown", "cancel"}
      BY <1>6 DEF ShutdownReturns, Stop, Exit, Signal
  <2>4. TypeOK'
      BY <1>1, <2>1, <2>2 DEF TypeOK
  <2>5. CancelInv'
      BY <1>1, <2>1, <2>3 DEF CancelInv
  <2>6. StopInv'
      BY <1>1, <1>2, <2>1, <2>2 DEF StopInv
  <2> QED BY <1>4, <2>4, <2>5, <2>6
<1> QED BY <1>5, <1>6 DEF Shutdown

\* A stuttering step changes nothing.
LEMMA StutterStep ==
    ASSUME IInv, UNCHANGED vars
    PROVE  IInv'
<1>1. UNCHANGED <<req, ch, pc, cur, handled, aborted, dropped, main, ctxDone, verdict,
                  atCancel, late>>
    BY DEF vars
<1>2. Buffered' = Buffered /\ Held' = Held /\ AllExited' = AllExited /\ Given' = Given
    BY <1>1, SameSets DEF Given
<1> QED BY <1>1, <1>2 DEF IInv, TypeOK, ExactlyOnePlace, PcInv, CancelInv, LateInv, StopInv

\* Every step of the specification preserves the invariant.
LEMMA NextIInv == IInv /\ [Next]_vars => IInv'
<1> SUFFICES ASSUME IInv, [Next]_vars PROVE IInv'
    OBVIOUS
<1>1. ASSUME NEW e \in Events, Request(e) PROVE IInv'
    BY <1>1, RequestStep, EmitStep DEF Request
<1>2. ASSUME NEW w \in Workers, Loop(w) PROVE IInv'
    BY <1>2, TakeStep, LeaveStep DEF Loop, Receive, DrainReceive
<1>3. ASSUME NEW w \in Workers, Return(w) PROVE IInv'
    BY <1>3, ReturnStep
<1>4. CASE Shutdown \/ Signal \/ ServerFails
    BY <1>4, MainStep
<1>5. CASE UNCHANGED vars
    BY <1>5, StutterStep
<1> QED BY <1>1, <1>2, <1>3, <1>4, <1>5 DEF Next

-----------------------------------------------------------------------------
(* The theorems.                                                           *)

\* The inductive invariant holds of every behaviour of the emitter.
THEOREM Invariance == Spec => []IInv
BY InitIInv, NextIInv, PTL DEF Spec

\* Type correctness: in particular the channel never exceeds its capacity.
THEOREM TypeCorrect == Spec => []TypeOK
<1>1. IInv => TypeOK
    BY DEF IInv
<1> QED BY <1>1, Invariance, PTL

\* No event handed to Emit is lost, duplicated or processed twice while the
\* process runs, for any number of events, workers and slots.
THEOREM EventsInOnePlace == Spec => []ExactlyOnePlace
<1>1. IInv => ExactlyOnePlace
    BY DEF IInv
<1> QED BY <1>1, Invariance, PTL

\* The shutdown drain leaves nothing behind but events that Emit sent after the
\* last worker's exit, and if Stop logs a clean stop, every event that was
\* buffered at the cancellation has been through the process function.
THEOREM DrainComplete == Spec => []DrainIsComplete
<1>1. IInv => OnlyLateEventsStranded
    BY DEF IInv, LateInv, OnlyLateEventsStranded
<1>2. IInv => CleanStopHandledAll
  <2> SUFFICES ASSUME IInv, verdict = "clean" PROVE atCancel \subseteq handled
      BY DEF CleanStopHandledAll
  <2>1. AllExited
      BY DEF IInv, StopInv
  <2>2. Held = {}
      BY <2>1 DEF IInv, PcInv, AllExited, Held, TypeOK
  <2> QED BY <2>1, <2>2 DEF IInv, LateInv, StopInv
<1>3. IInv => DrainIsComplete
    BY <1>1, <1>2 DEF DrainIsComplete
<1> QED BY <1>3, Invariance, PTL

-----------------------------------------------------------------------------
(* Refinement.                                                             *)

\* Before the pool starts nothing has been offered.
LEMMA InitRefines == Init => H!HInit
<1> SUFFICES ASSUME Init PROVE H!HInit
    OBVIOUS
<1>1. DOMAIN ch = {}
    BY DEF Init
<1>2. Buffered = {} /\ Held = {} /\ ~AllExited
    BY <1>1, EmitterAssumption DEF Init, Buffered, Range, Held, AllExited, EmitterAssumption
<1> QED BY <1>2 DEF Init, H!HInit

\* Each step of the emitter is a step of the hand-off or leaves it alone.
LEMMA NextRefines == IInv /\ IInv' /\ [Next]_vars => [H!HNext]_H!hvars
<1> SUFFICES ASSUME IInv, IInv', [Next]_vars PROVE [H!HNext]_H!hvars
    OBVIOUS
<1> USE EmitterAssumption DEF IInv, EmitterAssumption
<1>a. Buffered \subseteq Events
    BY DEF Buffered, Range, TypeOK
<1>1. ASSUME UNCHANGED <<ch, pc, cur, handled, dropped, late>> PROVE UNCHANGED H!hvars
    BY <1>1, SameSets DEF H!hvars
<1>2. ASSUME NEW e \in Events, Emit(e) PROVE H!HNext
  <2>1. e \notin Buffered \cup Held \cup handled \cup dropped
      BY <1>2 DEF Emit, ExactlyOnePlace, Given
  <2>2. e \in H!Fresh
      BY <2>1 DEF H!Fresh, LateInv
  <2>3. UNCHANGED <<pc, cur, handled>>
      BY <1>2 DEF Emit
  <2>4. Held' = Held /\ AllExited' = AllExited
      BY <2>3 DEF Held, AllExited
  <2>5. H!Offer(e)
    <3>1. CASE /\ ch' = Append(ch, e)
               /\ late' = IF AllExited THEN late \cup {e} ELSE late
               /\ UNCHANGED dropped
      <4>1. Buffered' = Buffered \cup {e}
          BY <3>1, RangeAppend DEF TypeOK, Buffered
      <4> QED BY <2>1, <2>2, <2>3, <2>4, <3>1, <4>1 DEF H!Offer, LateInv
    <3>2. CASE dropped' = dropped \cup {e} /\ UNCHANGED <<ch, late>>
      <4>1. Buffered' = Buffered
          BY <3>2 DEF Buffered
      <4> QED BY <2>2, <2>3, <2>4, <3>2, <4>1 DEF H!Offer
    <3> QED BY <1>2, <3>1, <3>2 DEF Emit
  <2> QED BY <2>5 DEF H!HNext
<1>3. ASSUME NEW w \in Workers, Receive(w) \/ DrainReceive(w) PROVE UNCHANGED H!hvars
  <2>1. /\ ch # <<>> /\ ch' = Tail(ch)
        /\ cur' = [cur EXCEPT ![w] = Head(ch)]
        /\ pc[w] \in {"select", "drain"}
        /\ UNCHANGED <<handled, dropped, late>>
      BY <1>3 DEF Receive, DrainReceive, Take, hist
  <2>2. /\ Head(ch) \in Buffered
        /\ Buffered' = Buffered \ {Head(ch)}
      BY <2>1, TailOfInjective DEF TypeOK, ExactlyOnePlace, Buffered
  <2>3. ~AllExited
      BY <2>1 DEF AllExited
  <2>4. cur[w] = None /\ Head(ch) # None
      BY <2>1, <2>2, <1>a DEF PcInv
  <2>5. Held' = Held \cup {Head(ch)}
      BY <2>1, <2>4 DEF Held, TypeOK
  <2>6. pc'[w] \in {"process", "drainProcess"}
      BY <1>3 DEF Receive, DrainReceive, Take, TypeOK
  <2>7. ~AllExited'
      BY <2>6 DEF AllExited
  <2>8. late = {} /\ late' = {}
      BY <2>1, <2>3 DEF LateInv
  <2>9. AllExited' = AllExited
      BY <2>3, <2>7 DEF AllExited
  <2>10. (Buffered' \ late') \cup Held' = (Buffered \ late) \cup Held
      BY <2>2, <2>5, <2>8
  <2> QED BY <2>1, <2>9, <2>10 DEF H!hvars
<1>4. ASSUME NEW w \in Workers, Return(w) PROVE H!HNext
  <2>1. /\ pc[w] \in {"process", "drainProcess"}
        /\ handled' = handled \cup {cur[w]}
        /\ cur' = [cur EXCEPT ![w] = None]
        /\ pc'[w] # "exited"
        /\ UNCHANGED <<ch, dropped, late>>
      BY <1>4 DEF Return, TypeOK, hist
  <2>2. cur[w] # None /\ cur[w] \in Events /\ cur[w] \in Held
      BY <2>1 DEF PcInv, TypeOK, Held
  <2>3. Held' = Held \ {cur[w]}
    <3>1. \A v \in Workers : v # w => cur'[v] = cur[v] /\ (cur[v] = None \/ cur[v] # cur[w])
        BY <2>1, <2>2 DEF TypeOK, ExactlyOnePlace
    <3>2. cur'[w] = None
        BY <2>1 DEF TypeOK
    <3> QED BY <3>1, <3>2 DEF Held
  <2>4. Buffered' = Buffered
      BY <2>1 DEF Buffered
  <2>5. ~AllExited /\ ~AllExited'
      BY <2>1 DEF AllExited
  <2>6. cur[w] \notin Buffered
      BY <2>2 DEF ExactlyOnePlace
  <2>7. AllExited' = AllExited /\ late = {} /\ late' = {}
      BY <2>1, <2>5 DEF AllExited, LateInv
  <2>8. H!Finish(cur[w])
      BY <2>1, <2>2, <2>3, <2>4, <2>6, <2>7 DEF H!Finish
  <2> QED BY <2>2, <2>8 DEF H!HNext
<1>5. ASSUME NEW w \in Workers, ObserveCancel(w) \/ DrainExit(w) PROVE [H!HNext]_H!hvars
  <2>1. UNCHANGED <<ch, cur, handled, dropped, late>>
      BY <1>5 DEF ObserveCancel, DrainExit, hist
  <2>2. Buffered' = Buffered /\ Held' = Held
      BY <2>1 DEF Buffered, Held
  <2>3. ~AllExited
      BY <1>5 DEF ObserveCancel, DrainExit, AllExited
  <2>4. CASE AllExited'
    <3>1. Buffered \subseteq late /\ late = {}
        BY <2>1, <2>2, <2>3, <2>4 DEF LateInv
    <3>2. Held = {}
        BY <2>1, <2>4 DEF AllExited, PcInv, Held, TypeOK
    <3>3. H!Close
        BY <2>1, <2>2, <2>4, <3>1, <3>2 DEF H!Close
    <3> QED BY <3>3 DEF H!HNext
  <2>5. CASE ~AllExited'
    <3>1. AllExited' = AllExited
        BY <2>3, <2>5 DEF AllExited
    <3> QED BY <2>1, <2>2, <3>1 DEF H!hvars
  <2> QED BY <2>4, <2>5
<1>6. ASSUME NEW e \in Events, Arrive(e) \/ SpawnEmit(e) PROVE UNCHANGED H!hvars
    BY <1>1, <1>6 DEF Arrive, SpawnEmit, hist
<1>7. CASE Shutdown \/ Signal \/ ServerFails
    BY <1>1, <1>7 DEF Shutdown, ShutdownReturns, CancelEmitter, Stop, Exit, Signal,
                      ServerFails, hist
<1>8. CASE UNCHANGED vars
    BY <1>1, <1>8 DEF vars
<1> QED BY <1>2, <1>3, <1>4, <1>5, <1>6, <1>7, <1>8 DEF Next, Request, Loop

\* The emitter with its shutdown implements the hand-off: each event is
\* accepted or dropped at once, finished at most once, and the pool closes
\* only with an empty backlog.
THEOREM EmitterImplementsHandoff == Spec => ImplementsHandoff
<1>1. Init => H!HInit
    BY InitRefines
<1>2. IInv /\ IInv' /\ [Next]_vars => [H!HNext]_H!hvars
    BY NextRefines
<1> QED BY <1>1, <1>2, Invariance, PTL DEF Spec, ImplementsHandoff, H!HSpec

-----------------------------------------------------------------------------
(* The delivery of webhooks.                                               *)

\* Deliveries neither help nor hinder the emitter: what holds of the emitter
\* alone holds of it in the composition.
THEOREM DeliveryKeepsEmitter == DSpec => Spec
<1>1. DInit => Init
    BY DEF DInit
<1>2. [DNext]_dvars => [Next]_vars
    BY DEF DNext, dvars, Notify, Courier, Post, GiveUpUnsent, Acknowledge, Refuse, Fail,
           Conclude, SendMail
<1> QED BY <1>1, <1>2, PTL DEF DSpec, Spec

DTypes ==
    /\ hook \in [Alerting -> HookState]
    /\ tries \in [Alerting -> 0..MaxAttempts]
    /\ got \in [Alerting -> SUBSET Attempts]
    /\ mail \in [Alerting -> {"none", "sending", "over"}]
    /\ failed \in [Alerting -> SUBSET Attempts]

\* The posts are made one by one, and each but the last has failed; the last has
\* unless it is under way, or was answered for good.
HookInv ==
    \A e \in Alerting :
        /\ got[e] \subseteq 1..tries[e]
        /\ hook[e] \in {"none", "due", "unsent"} => tries[e] < MaxAttempts /\ failed[e] = 1..tries[e]
        /\ hook[e] \in {"posted", "delivered", "refused"} =>
              tries[e] >= 1 /\ failed[e] = 1..(tries[e] - 1)
        /\ hook[e] = "delivered" => tries[e] \in got[e]
        /\ hook[e] = "exhausted" => tries[e] = MaxAttempts /\ failed[e] = 1..tries[e]

DInv == DTypes /\ HookInv

\* No webhook is under way when the process starts.
LEMMA InitDInv == DInit => DInv
BY DeliveryAssumption DEF DeliveryAssumption, DInit, DInv, DTypes, HookInv, HookState, Attempts

\* Every step of the composition preserves the invariant.
LEMMA NextDInv == TypeOK /\ DInv /\ [DNext]_dvars => DInv'
<1> SUFFICES ASSUME TypeOK, DInv, [DNext]_dvars PROVE DInv'
    OBVIOUS
<1> USE DeliveryAssumption DEF DeliveryAssumption, DInv, DTypes, HookState, Attempts
<1>1. CASE UNCHANGED delivery
    BY <1>1 DEF delivery, HookInv
<1>2. ASSUME NEW w \in Workers, Notify(w) PROVE DInv'
    BY <1>2 DEF Notify, HookInv
<1>3. ASSUME NEW e \in Alerting, Post(e) PROVE DInv'
  <2>1. tries[e] \in Nat /\ tries[e] + 1 \in 1..MaxAttempts
      BY <1>3 DEF Post, HookInv
  <2>2. DTypes'
      BY <1>3, <2>1 DEF Post
  <2>3. HookInv'
      BY <1>3, <2>1 DEF Post, HookInv
  <2> QED BY <2>2, <2>3
<1>4. ASSUME NEW e \in Alerting, Acknowledge(e) PROVE DInv'
    BY <1>4 DEF Acknowledge, Conclude, HookInv
<1>5. ASSUME NEW e \in Alerting, Refuse(e) PROVE DInv'
    BY <1>5 DEF Refuse, Conclude, HookInv
<1>6. ASSUME NEW e \in Alerting, Fail(e) PROVE DInv'
  <2>1. tries[e] \in 1..MaxAttempts /\ failed[e] \cup {tries[e]} = 1..tries[e]
      BY <1>6 DEF Fail, Conclude, HookInv
  <2>2. DTypes'
      BY <1>6, <2>1 DEF Fail, Conclude
  <2>3. HookInv'
    <3>1. /\ hook' = [hook EXCEPT ![e] = IF tries[e] < MaxAttempts THEN "due" ELSE "exhausted"]
          /\ failed' = [failed EXCEPT ![e] = 1..tries[e]]
          /\ UNCHANGED <<tries, got>>
        BY <1>6, <2>1 DEF Fail, Conclude
    <3>2. tries[e] < MaxAttempts \/ tries[e] = MaxAttempts
        BY <2>1
    <3> QED BY <2>1, <3>1, <3>2 DEF HookInv
  <2> QED BY <2>2, <2>3
<1>7. ASSUME NEW e \in Alerting, SendMail(e) PROVE DInv'
    BY <1>7 DEF SendMail, HookInv
<1>8. ASSUME NEW e \in Alerting, GiveUpUnsent(e) PROVE DInv'
    BY <1>8 DEF GiveUpUnsent, HookInv
<1> QED BY <1>1, <1>2, <1>3, <1>4, <1>5, <1>6, <1>7, <1>8 DEF DNext, dvars, Courier

\* The invariant of the delivery holds of the composition.
THEOREM DeliveryInvariance == DSpec => []DInv
<1>1. DSpec => []TypeOK
    BY DeliveryKeepsEmitter, TypeCorrect, PTL
<1> QED BY <1>1, InitDInv, NextDInv, PTL DEF DSpec

\* The composition is type correct: in particular sendWebhook never makes more
\* than MaxAttempts posts.
THEOREM DeliveryTypeCorrect == DSpec => []DeliveryTypeOK
<1>1. TypeOK /\ DInv => DeliveryTypeOK
    BY DEF DInv, DTypes, DeliveryTypeOK
<1>2. DSpec => []TypeOK
    BY DeliveryKeepsEmitter, TypeCorrect, PTL
<1> QED BY <1>1, <1>2, DeliveryInvariance, PTL

\* What sendWebhook reports of an alert is true of its receiver, and the receiver
\* gets an alert again only for posts that failed, for any number of attempts.
THEOREM OutcomesAreHonest == DSpec => []OutcomeIsHonest
<1>1. DInv => OutcomeIsHonest
  <2> SUFFICES ASSUME DInv, NEW e \in Alerting
               PROVE  /\ hook[e] = "delivered" => tries[e] \in got[e]
                      /\ hook[e] = "exhausted" => failed[e] = Attempts
                      /\ Cardinality(got[e]) <= Cardinality(failed[e]) + 1
      BY DEF OutcomeIsHonest
  <2> USE DeliveryAssumption DEF DeliveryAssumption, DInv, DTypes, HookState, Attempts
  <2>1. tries[e] \in Nat /\ got[e] \subseteq 1..tries[e]
      BY DEF HookInv
  <2>2. /\ IsFiniteSet(1..tries[e])
        /\ Cardinality(1..tries[e]) = tries[e]
      BY <2>1, FS_Interval
  <2>3. Cardinality(got[e]) \in Nat /\ Cardinality(got[e]) <= tries[e]
      BY <2>1, <2>2, FS_Subset, FS_CardinalityType
  <2>4. Cardinality(failed[e]) \in {tries[e], tries[e] - 1}
    <3>1. failed[e] = 1..tries[e] \/ (tries[e] >= 1 /\ failed[e] = 1..(tries[e] - 1))
        BY DEF HookInv
    <3>2. CASE failed[e] = 1..tries[e]
        BY <2>2, <3>2
    <3>3. CASE tries[e] >= 1 /\ failed[e] = 1..(tries[e] - 1)
        BY <2>1, <3>3, FS_Interval
    <3> QED BY <3>1, <3>2, <3>3
  <2> QED BY <2>1, <2>3, <2>4 DEF HookInv
<1> QED BY <1>1, DeliveryInvariance, PTL
=============================================================================
