----------------------------- MODULE ProxyProofs -----------------------------
(***************************************************************************)
(* Proofs about the request path, for any number of concurrent requests,   *)
(* any threshold and any pair of TTLs of which the cooldown is not the     *)
(* shorter one.                                                            *)
(***************************************************************************)
EXTENDS Proxy, TLAPS

\* Nobody is between the INCR that reached the threshold and the SET.
NoTrip == \A r \in Requests : pc[r] # "trip"
\* The counter is owed neither its TTL nor its SET.
Undisturbed == ~ttlLost /\ ~tripLost

\* A counter has a TTL.
CounterInv == failures > 0 /\ ~ttlLost => failTTL > 0

\* The mark outlives a counter at the threshold by the difference of the TTLs.
MarkInv ==
    failures = FailureThreshold /\ Undisturbed /\ NoTrip
    => degTTL >= failTTL + (Cooldown - FailureWindow)

\* Without a fallback provider no mark is ever set.
OffInv == ~fallbackOn => degTTL = 0 /\ NoTrip

IInv == TypeOK /\ CounterInv /\ MarkInv /\ OffInv

-----------------------------------------------------------------------------
\* The initial states satisfy the invariant.
LEMMA InitIInv == Init => IInv
<1> SUFFICES ASSUME Init PROVE IInv
    OBVIOUS
<1> USE ProxyAssumption DEF ProxyAssumption
<1>1. /\ pc \in [Requests -> PcState]
      /\ primary \in [Requests -> Statuses \cup {"none", "skipped", "netErr", "readErr"}]
      /\ backup \in [Requests -> Statuses \cup {"none", "err"}]
      /\ answer \in [Requests -> Answers]
    BY DEF Init, PcState, Statuses, Answers
<1>2. TypeOK
  <2>1. failures \in 0..FailureThreshold /\ failTTL \in 0..FailureWindow /\ degTTL \in 0..Cooldown
      BY DEF Init
  <2>2. faults \in 0..MaxFaults /\ blind \in 0..faults
      BY DEF Init
  <2>3. fallbackOn \in BOOLEAN /\ ttlLost \in BOOLEAN /\ tripLost \in BOOLEAN /\ cache \in {"none", "primary", "fallback"}
      BY DEF Init
  <2> QED BY <1>1, <2>1, <2>2, <2>3 DEF TypeOK
<1>3. NoTrip
    BY DEF Init, NoTrip
<1>4. CounterInv /\ MarkInv /\ OffInv
    BY <1>3 DEF Init, CounterInv, MarkInv, OffInv
<1> QED BY <1>2, <1>4 DEF IInv

\* A step that moves one request and leaves the health keys alone preserves the
\* invariant, as long as it does not put that request before the SET.
LEMMA QuietStep ==
    ASSUME IInv, NEW r \in Requests, NEW to \in PcState \ {"trip"},
           pc[r] # "trip", pc' = [pc EXCEPT ![r] = to],
           UNCHANGED <<fallbackOn, health, owed>>
    PROVE  CounterInv' /\ MarkInv' /\ OffInv'
<1> USE DEF IInv
<1>2. NoTrip' <=> NoTrip
    BY DEF NoTrip, TypeOK
<1>3. CounterInv'
    BY DEF CounterInv, health, owed
<1>4. MarkInv'
    BY <1>2 DEF MarkInv, Undisturbed, health, owed
<1>5. OffInv'
    BY <1>2 DEF OffInv, health
<1> QED BY <1>3, <1>4, <1>5

\* Steps of a request that do not touch the health keys.
LEMMA OtherStep ==
    ASSUME IInv, NEW r \in Requests,
           \/ Arrive(r) \/ Lookup(r) \/ Block(r) \/ Gate(r) \/ CallPrimary(r)
           \/ CallFallback(r) \/ Store(r) \/ Again(r)
    PROVE  IInv'
<1> USE ProxyAssumption DEF IInv, ProxyAssumption
<1>1. CASE Arrive(r) \/ Block(r) \/ Again(r)
  <2>1. TypeOK'
      BY <1>1 DEF Arrive, Block, Again, Go, Finish, health, owed, TypeOK, PcState, Answers
  <2>2. PICK to \in PcState \ {"trip"} : pc' = [pc EXCEPT ![r] = to]
      BY <1>1 DEF Arrive, Block, Again, Go, Finish, PcState
  <2>3. pc[r] # "trip" /\ UNCHANGED <<fallbackOn, health, owed>>
      BY <1>1 DEF Arrive, Block, Again, Go, Finish
  <2> QED BY <2>1, <2>2, <2>3, QuietStep
<1>2. CASE Lookup(r)
  <2>1. TypeOK'
      BY <1>2 DEF Lookup, Go, Finish, Fault, health, owed, TypeOK, PcState, Answers
  <2>2. PICK to \in PcState \ {"trip"} : pc' = [pc EXCEPT ![r] = to]
      BY <1>2 DEF Lookup, Go, Finish, PcState
  <2>3. pc[r] # "trip" /\ UNCHANGED <<fallbackOn, health, owed>>
      BY <1>2 DEF Lookup, Go, Finish, Fault
  <2> QED BY <2>1, <2>2, <2>3, QuietStep
<1>3. CASE Gate(r)
  <2>1. TypeOK'
      BY <1>3 DEF Gate, Go, Fault, health, owed, TypeOK, PcState, Answers
  <2>2. PICK to \in PcState \ {"trip"} : pc' = [pc EXCEPT ![r] = to]
      BY <1>3 DEF Gate, Go, PcState
  <2>3. pc[r] # "trip" /\ UNCHANGED <<fallbackOn, health, owed>>
      BY <1>3 DEF Gate, Go, Fault
  <2> QED BY <2>1, <2>2, <2>3, QuietStep
<1>4. CASE CallPrimary(r)
  <2>1. TypeOK'
      BY <1>4 DEF CallPrimary, Go, Finish, health, owed, TypeOK, PcState, Answers, Statuses
  <2>2. PICK to \in PcState \ {"trip"} : pc' = [pc EXCEPT ![r] = to]
      BY <1>4 DEF CallPrimary, Go, Finish, PcState
  <2>3. pc[r] # "trip" /\ UNCHANGED <<fallbackOn, health, owed>>
      BY <1>4 DEF CallPrimary, Go, Finish
  <2> QED BY <2>1, <2>2, <2>3, QuietStep
<1>5. CASE CallFallback(r)
  <2>1. TypeOK'
      BY <1>5 DEF CallFallback, Go, Finish, health, owed, TypeOK, PcState, Answers, Statuses
  <2>2. PICK to \in PcState \ {"trip"} : pc' = [pc EXCEPT ![r] = to]
      BY <1>5 DEF CallFallback, Go, Finish, PcState
  <2>3. pc[r] # "trip" /\ UNCHANGED <<fallbackOn, health, owed>>
      BY <1>5 DEF CallFallback, Go, Finish
  <2> QED BY <2>1, <2>2, <2>3, QuietStep
<1>6. CASE Store(r)
  <2>1. cache' \in {"none", "primary", "fallback"}
      BY <1>6 DEF Store, TypeOK, UsedFallback
  <2>2. TypeOK'
      BY <1>6, <2>1 DEF Store, Go, Fault, health, owed, TypeOK, PcState
  <2>3. pc' = [pc EXCEPT ![r] = "done"] /\ pc[r] # "trip" /\ "done" \in PcState \ {"trip"}
      BY <1>6 DEF Store, Go, PcState
  <2>4. UNCHANGED <<fallbackOn, health, owed>>
      BY <1>6 DEF Store, Fault
  <2> QED BY <2>2, <2>3, <2>4, QuietStep
<1> QED BY <1>1, <1>2, <1>3, <1>4, <1>5, <1>6

\* A call of RecordFailure that is not answered leaves the invariant true,
\* wherever its request goes.
LEMMA SwallowedStep ==
    ASSUME IInv, NEW r \in Requests, NEW to \in PcState \ {"trip"},
           fallbackOn, pc[r] = "count", pc' = [pc EXCEPT ![r] = to],
           Fault, Swallowed, failures' \in {failures, Incremented},
           failTTL' \in {failTTL, FailureWindow},
           answer' \in [Requests -> Answers],
           UNCHANGED <<fallbackOn, primary, backup, degTTL, cache, blind>>
    PROVE  IInv'
<1> USE ProxyAssumption DEF IInv, ProxyAssumption
<1>1. faults' = faults + 1 /\ faults' \in 1..MaxFaults /\ faults \in Nat
    BY DEF Fault, TypeOK
<1>2. /\ failures' \in 0..FailureThreshold /\ failTTL' \in 0..FailureWindow
      /\ blind' \in 0..faults' /\ faults' \in 0..MaxFaults
    BY <1>1 DEF Incremented, TypeOK
<1>3. ttlLost' \in BOOLEAN /\ (failures' > 0 /\ failTTL' = 0 => ttlLost')
    BY DEF Swallowed
<1>4. tripLost' \in BOOLEAN /\ (failures' = FailureThreshold => tripLost')
    BY DEF Swallowed, TypeOK
<1>5. TypeOK'
    BY <1>2, <1>3, <1>4 DEF TypeOK
<1>6. CounterInv'
    BY <1>2, <1>3 DEF CounterInv
<1>7. MarkInv'
    BY <1>4 DEF MarkInv, Undisturbed
<1>8. OffInv'
    BY DEF OffInv
<1> QED BY <1>5, <1>6, <1>7, <1>8

\* RecordFailure's pipeline.
LEMMA CountStep ==
    ASSUME IInv, NEW r \in Requests, Count(r)
    PROVE  IInv'
<1> USE ProxyAssumption DEF IInv, ProxyAssumption
<1>1. pc[r] = "count" /\ UNCHANGED <<fallbackOn, primary, backup, degTTL, cache, blind>>
    BY DEF Count, AfterFailure, Go, Finish
<1>2. /\ Incremented \in 1..FailureThreshold
      /\ Incremented = FailureThreshold \/ Incremented < FailureThreshold
    BY DEF Incremented, TypeOK
<1>3. PICK to \in PcState : pc' = [pc EXCEPT ![r] = to]
    BY DEF Count, AfterFailure, Go, Finish, PcState
<1>4. answer' \in [Requests -> Answers]
    BY DEF Count, AfterFailure, Go, Finish, TypeOK, Answers
<1>5. AfterFailure(r, "count") => to # "trip"
    BY <1>1, <1>3 DEF AfterFailure, Go, Finish, TypeOK
<1>6. CASE AfterFailure(r, "count") /\ UNCHANGED <<failures, failTTL, faults, owed>>
  <2>1. TypeOK'
      BY <1>1, <1>3, <1>4, <1>6 DEF TypeOK, owed
  <2>2. CounterInv' /\ MarkInv' /\ OffInv'
      BY <1>1, <1>3, <1>5, <1>6, QuietStep DEF health
  <2> QED BY <2>1, <2>2
<1>7. CASE /\ failures' = Incremented /\ failTTL' = FailureWindow
           /\ fallbackOn /\ ttlLost' = FALSE /\ UNCHANGED <<answer, faults, tripLost>>
           /\ pc' = [pc EXCEPT ![r] = IF Incremented >= FailureThreshold THEN "trip" ELSE "fallback"]
  <2>1. ttlLost' \in BOOLEAN /\ tripLost' \in BOOLEAN
      BY <1>7 DEF TypeOK
  <2>2. TypeOK'
      BY <1>1, <1>2, <1>3, <1>4, <1>7, <2>1 DEF TypeOK
  <2>3. CounterInv' /\ OffInv'
      BY <1>1, <1>7 DEF CounterInv, OffInv
  <2>4. ASSUME failures' = FailureThreshold PROVE ~NoTrip'
    <3>1. pc'[r] = "trip"
        BY <1>2, <1>7, <2>4 DEF TypeOK
    <3> QED BY <3>1 DEF NoTrip
  <2>5. MarkInv'
      BY <2>4 DEF MarkInv
  <2> QED BY <2>2, <2>3, <2>5
<1>8. CASE /\ fallbackOn /\ Fault /\ failures' \in {failures, Incremented}
           /\ UNCHANGED failTTL /\ Swallowed /\ AfterFailure(r, "count")
  <2>1. to \in PcState \ {"trip"}
      BY <1>5, <1>8
  <2> QED BY <1>1, <1>3, <1>4, <1>8, <2>1, SwallowedStep
<1> QED BY <1>6, <1>7, <1>8 DEF Count, Go

\* The pipeline is sent again.
LEMMA ResendStep ==
    ASSUME IInv, NEW r \in Requests, Resend(r)
    PROVE  IInv'
<1>1. pc' = [pc EXCEPT ![r] = "count"] /\ "count" \in PcState \ {"trip"}
    BY DEF Resend, IInv, TypeOK, PcState
<1>2. answer' \in [Requests -> Answers]
    BY DEF Resend, IInv, TypeOK
<1> QED BY <1>1, <1>2, SwallowedStep DEF Resend

\* RecordFailure's SET of the mark.
LEMMA TripStep ==
    ASSUME IInv, NEW r \in Requests, Trip(r)
    PROVE  IInv'
<1> USE ProxyAssumption DEF IInv, ProxyAssumption
<1>1. /\ pc[r] = "trip" /\ pc' = [pc EXCEPT ![r] = "fallback"]
      /\ UNCHANGED <<fallbackOn, primary, backup, answer, failures, failTTL, cache, blind, ttlLost>>
      /\ \/ degTTL' = Cooldown /\ tripLost' = FALSE /\ UNCHANGED faults
         \/ Fault /\ TripSkipped /\ UNCHANGED degTTL
    BY DEF Trip, Go
<1>2. faults' \in {faults, faults + 1} /\ faults' \in 0..MaxFaults /\ faults \in Nat
    BY <1>1 DEF Fault, TypeOK
<1>3. /\ blind' \in 0..faults' /\ degTTL' \in 0..Cooldown
      /\ tripLost' \in BOOLEAN
  <2>1. blind' \in 0..faults' /\ degTTL' \in 0..Cooldown
      BY <1>1, <1>2 DEF TypeOK
  <2>2. tripLost' \in BOOLEAN
      BY <1>1 DEF TypeOK, TripSkipped
  <2> QED BY <2>1, <2>2
<1>4. TypeOK'
    BY <1>1, <1>2, <1>3 DEF TypeOK, PcState
<1>5. fallbackOn
    BY <1>1 DEF OffInv, NoTrip
<1>6. CounterInv' /\ OffInv'
    BY <1>1, <1>5 DEF CounterInv, OffInv
<1>7. CASE degTTL' = Cooldown
    BY <1>1, <1>4, <1>6, <1>7 DEF MarkInv, TypeOK
<1>8. CASE TripSkipped
  <2>1. failures' = FailureThreshold => tripLost'
      BY <1>1, <1>8 DEF TripSkipped
  <2> QED BY <1>4, <1>6, <2>1 DEF MarkInv, Undisturbed
<1> QED BY <1>1, <1>7, <1>8

\* RecordSuccess.
LEMMA ClearStep ==
    ASSUME IInv, NEW r \in Requests, Clear(r)
    PROVE  IInv'
<1> USE ProxyAssumption DEF IInv, ProxyAssumption
<1>1. /\ pc[r] = "clear" /\ pc' = [pc EXCEPT ![r] = "store"]
      /\ answer' = [answer EXCEPT ![r] = "primary"]
      /\ UNCHANGED <<fallbackOn, primary, backup, degTTL, cache, blind>>
      /\ faults' \in {faults, faults + 1} /\ faults' \in 0..MaxFaults
      /\ Forgotten \/ UNCHANGED <<failures, failTTL, owed>>
    BY DEF Clear, Go, Fault, TypeOK
<1>2. blind' \in 0..faults'
    BY <1>1 DEF TypeOK
<1>3. ttlLost' \in BOOLEAN /\ tripLost' \in BOOLEAN
    BY <1>1 DEF Forgotten, owed, TypeOK
<1>4. failures' \in 0..FailureThreshold /\ failTTL' \in 0..FailureWindow
    BY <1>1 DEF Forgotten, TypeOK
<1>5. TypeOK'
    BY <1>1, <1>2, <1>3, <1>4 DEF TypeOK, PcState, Answers
<1>6. CASE UNCHANGED <<failures, failTTL, owed>>
    BY <1>1, <1>5, <1>6, QuietStep DEF health, PcState
<1>7. CASE Forgotten
  <2>1. OffInv'
      BY <1>1 DEF OffInv, NoTrip, TypeOK
  <2> QED BY <1>5, <1>7, <2>1 DEF CounterInv, MarkInv, Forgotten
<1> QED BY <1>1, <1>6, <1>7

\* A client leaves.
LEMMA LeaveStep ==
    ASSUME IInv, NEW r \in Requests, Leave(r)
    PROVE  IInv'
<1> USE ProxyAssumption DEF IInv, ProxyAssumption
<1>1. /\ pc' = [pc EXCEPT ![r] = "done"]
      /\ primary' = [primary EXCEPT ![r] = "none"]
      /\ backup' = [backup EXCEPT ![r] = "none"]
      /\ answer' = [answer EXCEPT ![r] = "none"]
      /\ UNCHANGED <<fallbackOn, health, cache, faults, blind, ttlLost>>
    BY DEF Leave
<1>2. /\ tripLost' \in BOOLEAN
      /\ tripLost => tripLost'
      /\ pc[r] = "trip" /\ failures = FailureThreshold => tripLost'
  <2>1. CASE pc[r] = "trip" /\ TripSkipped
      BY <2>1 DEF TripSkipped
  <2>2. CASE pc[r] # "trip" /\ UNCHANGED tripLost
      BY <2>2 DEF TypeOK
  <2> QED BY <2>1, <2>2 DEF Leave
<1>3. TypeOK'
    BY <1>1, <1>2 DEF TypeOK, PcState, Answers, health
<1>4. CounterInv' /\ OffInv'
    BY <1>1 DEF CounterInv, OffInv, NoTrip, TypeOK, health
<1>5. failures = FailureThreshold /\ ~tripLost' /\ NoTrip' => NoTrip
    BY <1>1, <1>2 DEF NoTrip, TypeOK
<1>6. MarkInv'
    BY <1>1, <1>2, <1>5 DEF MarkInv, Undisturbed, health
<1> QED BY <1>3, <1>4, <1>6

\* Time takes as much from the mark as from the counter.
LEMMA TickStep ==
    ASSUME IInv, Tick \/ CacheExpires
    PROVE  IInv'
<1> USE ProxyAssumption DEF IInv, ProxyAssumption
<1>1. NoTrip' <=> NoTrip
    BY DEF Tick, CacheExpires, NoTrip
<1>2. CASE Tick
  <2>1. /\ degTTL' = IF degTTL > 0 THEN degTTL - 1 ELSE degTTL
        /\ UNCHANGED <<fallbackOn, pc, primary, backup, answer, cache, faults, blind>>
      BY <1>2 DEF Tick
  <2>2. OffInv'
      BY <1>1, <2>1 DEF OffInv, TypeOK
  <2>3. CASE failTTL = 1 /\ Forgotten
    <3>1. ttlLost' \in BOOLEAN /\ tripLost' \in BOOLEAN
        BY <2>3 DEF Forgotten
    <3>2. failures' \in 0..FailureThreshold /\ failTTL' \in 0..FailureWindow
        BY <2>3 DEF Forgotten
    <3>3. TypeOK'
        BY <2>1, <3>1, <3>2 DEF TypeOK
    <3> QED BY <2>2, <2>3, <3>3 DEF CounterInv, MarkInv, Forgotten
  <2>4. CASE failTTL > 1 /\ failTTL' = failTTL - 1 /\ UNCHANGED <<failures, owed>>
    <3>1. TypeOK'
        BY <2>1, <2>4 DEF TypeOK, owed
    <3>2. CounterInv'
        BY <2>4 DEF CounterInv, owed, TypeOK
    <3>3. MarkInv'
        BY <1>1, <2>1, <2>4 DEF MarkInv, Undisturbed, owed, TypeOK
    <3> QED BY <2>2, <3>1, <3>2, <3>3
  <2>5. CASE failTTL = 0 /\ UNCHANGED <<failures, failTTL, owed>>
    <3>1. TypeOK'
        BY <2>1, <2>5 DEF TypeOK, owed
    <3>2. CounterInv'
        BY <2>5 DEF CounterInv, owed
    <3>3. MarkInv'
        BY <2>5, <3>2 DEF MarkInv, CounterInv, Undisturbed, TypeOK
    <3> QED BY <2>2, <3>1, <3>2, <3>3
  <2> QED BY <1>2, <2>3, <2>4, <2>5 DEF Tick
<1>3. CASE CacheExpires
  <2>1. TypeOK'
      BY <1>3 DEF CacheExpires, TypeOK, health, owed
  <2> QED BY <1>1, <1>3, <2>1 DEF CacheExpires, CounterInv, MarkInv, OffInv, Undisturbed, health, owed
<1> QED BY <1>2, <1>3

\* Every step preserves the invariant.
LEMMA NextIInv == IInv /\ [Next]_vars => IInv'
<1> SUFFICES ASSUME IInv, [Next]_vars PROVE IInv'
    OBVIOUS
<1>1. ASSUME NEW r \in Requests, Arrive(r) \/ Block(r) \/ Handle(r) \/ Resend(r) \/ Leave(r) \/ Again(r)
      PROVE  IInv'
    BY <1>1, OtherStep, CountStep, ResendStep, TripStep, ClearStep, LeaveStep DEF Handle
<1>2. CASE Tick \/ CacheExpires
    BY <1>2, TickStep
<1>3. CASE UNCHANGED vars
    BY <1>3 DEF vars, health, owed, IInv, TypeOK, CounterInv, MarkInv, OffInv, Undisturbed, NoTrip
<1> QED BY <1>1, <1>2, <1>3 DEF Next

-----------------------------------------------------------------------------
(* The theorems.                                                           *)

\* The inductive invariant holds of every behaviour of the request path.
THEOREM Invariance == Spec => []IInv
BY InitIInv, NextIInv, PTL DEF Spec

\* Type correctness of the request path and of the keys in Redis.
THEOREM TypeCorrect == Spec => []TypeOK
<1>1. IInv => TypeOK
    BY DEF IInv
<1> QED BY <1>1, Invariance, PTL

\* The cooldown ends with a clean slate, for any threshold and any two TTLs of
\* which the cooldown is not the shorter, and whatever fails: only a counter that is
\* itself owed its TTL or its SET is excepted.
THEOREM CleanSlate == Spec => []CleanSlateAfterCooldown
<1>1. IInv => CleanSlateAfterCooldown
  <2> SUFFICES ASSUME IInv, failures = FailureThreshold, ~ttlLost, ~tripLost, NoTrip
               PROVE  Degraded
      BY DEF CleanSlateAfterCooldown, NoTrip
  <2>1. failTTL > 0 /\ degTTL >= failTTL + (Cooldown - FailureWindow)
      BY ProxyAssumption DEF ProxyAssumption, IInv, CounterInv, MarkInv, Undisturbed
  <2> QED BY <2>1, ProxyAssumption DEF ProxyAssumption, IInv, TypeOK, Degraded
<1> QED BY <1>1, Invariance, PTL

-----------------------------------------------------------------------------
(* Refinement.                                                             *)

CallPcs == {"primary", "count", "trip", "clear"}

\* A request that moves inside its call of the primary changes nothing there;
\* one that leaves it is settled, and one that enters it has started.
LEMMA CallingMoves ==
    ASSUME TypeOK, NEW r \in Requests, NEW to \in PcState, pc' = [pc EXCEPT ![r] = to]
    PROVE  Calling' = IF to \in CallPcs THEN Calling \cup {r} ELSE Calling \ {r}
BY DEF TypeOK, Calling, CallPcs

\* Each step of the request path is a step of the breaker or leaves it alone.
LEMMA NextRefines == IInv /\ [Next]_vars => [B!BNext]_B!bvars
<1> SUFFICES ASSUME IInv, [Next]_vars PROVE [B!BNext]_B!bvars
    OBVIOUS
<1> USE ProxyAssumption DEF IInv, ProxyAssumption
<1>1. ASSUME NEW r \in Requests, NEW to \in PcState, pc' = [pc EXCEPT ![r] = to],
             UNCHANGED <<degTTL, blind>>, (to \in CallPcs) => pc[r] \in CallPcs
      PROVE  [B!BNext]_B!bvars
  <2>1. Degraded' = Degraded
      BY <1>1 DEF Degraded
  <2>2. CASE to \in CallPcs \/ r \notin Calling
    <3>1. Calling' = Calling
        BY <1>1, <2>2, CallingMoves DEF Calling, CallPcs
    <3> QED BY <1>1, <2>1, <3>1 DEF B!bvars
  <2>3. CASE to \notin CallPcs /\ r \in Calling
    <3>1. B!Settle(r)
        BY <1>1, <2>1, <2>3, CallingMoves DEF B!Settle
    <3> QED BY <3>1 DEF B!BNext
  <2> QED BY <2>2, <2>3
<1>2. ASSUME NEW r \in Requests,
             \/ Arrive(r) \/ Lookup(r) \/ Block(r) \/ CallPrimary(r) \/ Count(r) \/ Resend(r)
             \/ Clear(r) \/ CallFallback(r) \/ Store(r) \/ Leave(r) \/ Again(r)
      PROVE  \E to \in PcState : /\ pc' = [pc EXCEPT ![r] = to]
                                 /\ (to \in CallPcs) => pc[r] \in CallPcs
  <2>1. CASE Arrive(r) \/ Lookup(r) \/ Block(r) \/ Clear(r) \/ CallFallback(r) \/ Store(r)
             \/ Leave(r) \/ Again(r)
      BY <2>1 DEF Arrive, Lookup, Block, Clear, CallFallback, Store, Leave, Again,
                  Go, Finish, PcState, CallPcs
  <2>2. CASE CallPrimary(r)
      BY <2>2 DEF CallPrimary, Go, Finish, PcState, CallPcs
  <2>3. CASE Count(r)
      BY <2>3 DEF Count, AfterFailure, Go, Finish, PcState, CallPcs
  <2>4. CASE Resend(r)
    <3>1. pc' = [pc EXCEPT ![r] = "count"] /\ pc[r] = "count" /\ "count" \in PcState
        BY <2>4 DEF Resend, TypeOK, PcState
    <3> QED BY <3>1 DEF CallPcs
  <2> QED BY <1>2, <2>1, <2>2, <2>3, <2>4
<1>3. ASSUME NEW r \in Requests,
             \/ Arrive(r) \/ Lookup(r) \/ Block(r) \/ CallPrimary(r) \/ Count(r) \/ Resend(r)
             \/ Clear(r) \/ CallFallback(r) \/ Store(r) \/ Leave(r) \/ Again(r)
      PROVE  UNCHANGED <<degTTL, blind>>
    BY <1>3 DEF Arrive, Lookup, Block, CallPrimary, Count, Resend, Clear, CallFallback, Store,
                Leave, Again, health
<1>4. ASSUME NEW r \in Requests, Gate(r) PROVE [B!BNext]_B!bvars
  <2>1. UNCHANGED degTTL /\ pc[r] = "gate"
      BY <1>4 DEF Gate, Go, health
  <2>2. Degraded' = Degraded /\ r \notin Calling
      BY <2>1 DEF Degraded, Calling
  <2>3. CASE pc' = [pc EXCEPT ![r] = "fallback"] /\ UNCHANGED blind
      BY <1>1, <2>1, <2>3 DEF PcState, CallPcs
  <2>4. CASE pc' = [pc EXCEPT ![r] = "primary"] /\ UNCHANGED blind /\ ~Degraded
    <3>1. B!Start(r)
        BY <2>2, <2>4, CallingMoves DEF B!Start, PcState, CallPcs
    <3> QED BY <3>1 DEF B!BNext
  <2>5. CASE pc' = [pc EXCEPT ![r] = "primary"] /\ blind' = blind + 1
    <3>1. B!StartBlind(r)
        BY <2>2, <2>5, CallingMoves DEF B!StartBlind, PcState, CallPcs
    <3> QED BY <3>1 DEF B!BNext
  <2>6. ~fallbackOn => ~Degraded
      BY DEF OffInv, Degraded
  <2> QED BY <1>4, <2>3, <2>4, <2>5, <2>6 DEF Gate, Go
<1>5. ASSUME NEW r \in Requests, Trip(r) PROVE [B!BNext]_B!bvars
  <2>1. pc[r] = "trip" /\ pc' = [pc EXCEPT ![r] = "fallback"] /\ UNCHANGED blind
      BY <1>5 DEF Trip, Go
  <2>2. CASE UNCHANGED degTTL
      BY <1>1, <2>1, <2>2 DEF PcState, CallPcs
  <2>3. CASE degTTL' = Cooldown
    <3>1. Degraded' = TRUE
        BY <2>3 DEF Degraded
    <3>2. r \in Calling /\ Calling' = Calling \ {r}
        BY <2>1, CallingMoves DEF Calling, PcState, CallPcs
    <3>3. B!Trip(r)
        BY <2>1, <3>1, <3>2 DEF B!Trip
    <3> QED BY <3>3 DEF B!BNext
  <2> QED BY <1>5, <2>2, <2>3 DEF Trip
<1>6. CASE Tick
  <2>1. Calling' = Calling /\ blind' = blind
      BY <1>6 DEF Tick, Calling
  <2>2. CASE Degraded' = Degraded
      BY <2>1, <2>2 DEF B!bvars
  <2>3. CASE Degraded' # Degraded
    <3>1. Degraded' = FALSE
        BY <1>6, <2>3 DEF Tick, Degraded, TypeOK
    <3>2. B!Recover
        BY <2>1, <3>1 DEF B!Recover
    <3> QED BY <3>2 DEF B!BNext
  <2> QED BY <2>2, <2>3
<1>7. CASE CacheExpires \/ UNCHANGED vars
    BY <1>7 DEF CacheExpires, vars, health, B!bvars, Calling, Degraded
<1>8. ASSUME NEW r \in Requests, Arrive(r) \/ Block(r) \/ Handle(r) \/ Resend(r) \/ Leave(r) \/ Again(r)
      PROVE  [B!BNext]_B!bvars
    BY <1>1, <1>2, <1>3, <1>4, <1>5, <1>8 DEF Handle
<1> QED BY <1>6, <1>7, <1>8 DEF Next

\* The Redis commands of the request path implement the breaker.
THEOREM ProxyImplementsBreaker == Spec => ImplementsBreaker
<1>1. Init => B!BInit
    BY DEF Init, B!BInit, Degraded, Calling
<1> QED BY <1>1, NextRefines, Invariance, PTL DEF Spec, ImplementsBreaker, B!BSpec

-----------------------------------------------------------------------------
(* What the client gets.                                                   *)

\* A request at p, of whose calls x and y came, is to be answered a: good answers
\* are known from "clear" on if the primary gave one, else only after "fallback".
Due(x, y, a) == (x \in Good => a = "primary") /\ (y \in Good => a = "fallback")
OnItsWay(p, x, y, a) ==
    /\ p \in {"new", "lookup", "gate", "primary"} => x = "none" /\ y = "none" /\ a = "none"
    /\ p \in {"count", "trip", "fallback"} => x \notin Good /\ y = "none"
    /\ p = "clear" => x \in Good /\ y = "none"
    /\ p = "store" => Due(x, y, a)
    /\ p = "done" => a = "none" \/ Due(x, y, a)
AnswerInv == \A r \in Requests : OnItsWay(pc[r], primary[r], backup[r], answer[r])

\* A step of one request keeps the others' answers what they were.
Becomes(r, p, x, y, a) ==
    /\ pc' = [pc EXCEPT ![r] = p] /\ primary' = [primary EXCEPT ![r] = x]
    /\ backup' = [backup EXCEPT ![r] = y] /\ answer' = [answer EXCEPT ![r] = a]

LEMMA OneRequestMoves ==
    ASSUME TypeOK, AnswerInv, NEW r \in Requests,
           NEW p, NEW x, NEW y, NEW a, OnItsWay(p, x, y, a), Becomes(r, p, x, y, a)
    PROVE  AnswerInv'
<1>1. \A q \in Requests :
          /\ pc'[q] = (IF q = r THEN p ELSE pc[q]) /\ primary'[q] = (IF q = r THEN x ELSE primary[q])
          /\ backup'[q] = (IF q = r THEN y ELSE backup[q]) /\ answer'[q] = (IF q = r THEN a ELSE answer[q])
    BY DEF TypeOK, Becomes
<1>2. ASSUME NEW q \in Requests PROVE OnItsWay(pc'[q], primary'[q], backup'[q], answer'[q])
    BY <1>1 DEF AnswerInv
<1> QED BY <1>2 DEF AnswerInv

\* What a step of the handler or its client does to one request.
LEMMA AnswerStep ==
    ASSUME TypeOK, AnswerInv, NEW r \in Requests,
           Arrive(r) \/ Block(r) \/ Handle(r) \/ Resend(r) \/ Leave(r) \/ Again(r)
    PROVE  AnswerInv'
<1> DEFINE x == primary[r]
           y == backup[r]
           a == answer[r]
<1>0. /\ primary = [primary EXCEPT ![r] = x] /\ backup = [backup EXCEPT ![r] = y]
      /\ answer = [answer EXCEPT ![r] = a]
    BY DEF TypeOK
<1>1. OnItsWay(pc[r], x, y, a)
    BY DEF AnswerInv
<1>2. CASE Arrive(r)
  <2>1. OnItsWay("done", x, y, "refused") /\ OnItsWay("lookup", x, y, a)
      BY <1>1, <1>2 DEF Arrive, Finish, Go, OnItsWay, Due, Good
  <2> QED BY <1>0, <1>2, <2>1, OneRequestMoves DEF Arrive, Finish, Go, Becomes
<1>3. CASE Lookup(r)
  <2>1. OnItsWay("done", x, y, "hit") /\ OnItsWay("gate", x, y, a)
      BY <1>1, <1>3 DEF Lookup, Finish, Go, OnItsWay, Due, Good
  <2> QED BY <1>0, <1>3, <2>1, OneRequestMoves DEF Lookup, Finish, Go, Becomes
<1>4. CASE Block(r)
  <2>1. OnItsWay("done", x, y, "refused")
      BY <1>1, <1>4 DEF Block, Finish, Go, OnItsWay, Due, Good
  <2> QED BY <1>0, <1>4, <2>1, OneRequestMoves DEF Block, Finish, Go, Becomes
<1>5. CASE Gate(r)
  <2>1. OnItsWay("fallback", "skipped", y, a) /\ OnItsWay("primary", x, y, a)
      BY <1>1, <1>5 DEF Gate, Go, OnItsWay, Good
  <2> QED BY <1>0, <1>5, <2>1, OneRequestMoves DEF Gate, Go, Becomes
<1>6. CASE CallPrimary(r)
  <2>1. x = "none" /\ y = "none" /\ a = "none"
      BY <1>1, <1>6 DEF CallPrimary, Finish, Go, OnItsWay
  <2>2. PICK o \in Statuses \cup {"netErr", "readErr"} :
            \/ o = "readErr" /\ Becomes(r, "done", o, y, "badGateway")
            \/ o \in {"netErr", "degraded"} /\ Becomes(r, "count", o, y, a)
            \/ o \in Good /\ Becomes(r, "clear", o, y, a)
      BY <1>0, <1>6 DEF CallPrimary, Finish, Go, Becomes
  <2>3. /\ o = "readErr" => OnItsWay("done", o, y, "badGateway")
        /\ o \in {"netErr", "degraded"} => OnItsWay("count", o, y, a)
        /\ o \in Good => OnItsWay("clear", o, y, a)
      BY <2>1 DEF OnItsWay, Due, Good
  <2> QED BY <2>2, <2>3, OneRequestMoves
<1>7. CASE Count(r)
  <2>1. x \notin Good /\ y = "none"
      BY <1>1, <1>7 DEF Count, AfterFailure, Finish, Go, OnItsWay
  <2>2. /\ OnItsWay("trip", x, y, a) /\ OnItsWay("fallback", x, y, a)
        /\ OnItsWay("done", x, y, "badGateway") /\ OnItsWay("store", x, y, "primary")
      BY <2>1 DEF OnItsWay, Due, Good
  <2>3. \/ Becomes(r, "trip", x, y, a) \/ Becomes(r, "fallback", x, y, a)
        \/ Becomes(r, "done", x, y, "badGateway") \/ Becomes(r, "store", x, y, "primary")
    <3>1. UNCHANGED <<primary, backup>>
        BY <1>7 DEF Count
    <3>2. CASE AfterFailure(r, "count")
        BY <1>0, <3>1, <3>2 DEF AfterFailure, Finish, Go, Becomes
    <3>3. CASE /\ Go(r, "count", IF Incremented >= FailureThreshold THEN "trip" ELSE "fallback")
               /\ UNCHANGED answer
      <4>1. pc' = [pc EXCEPT ![r] = "trip"] \/ pc' = [pc EXCEPT ![r] = "fallback"]
          BY <3>3 DEF Go
      <4> QED BY <1>0, <3>1, <3>3, <4>1 DEF Becomes
    <3> QED BY <1>7, <3>2, <3>3 DEF Count
  <2> QED BY <2>2, <2>3, OneRequestMoves
<1>8. CASE Trip(r)
  <2>1. OnItsWay("fallback", x, y, a)
      BY <1>1, <1>8 DEF Trip, Go, OnItsWay
  <2>2. Becomes(r, "fallback", x, y, a)
      BY <1>0, <1>8 DEF Trip, Go, Becomes
  <2> QED BY <2>1, <2>2, OneRequestMoves
<1>9. CASE Clear(r)
  <2>1. OnItsWay("store", x, y, "primary")
      BY <1>1, <1>9 DEF Clear, Go, OnItsWay, Due, Good
  <2>2. Becomes(r, "store", x, y, "primary")
      BY <1>0, <1>9 DEF Clear, Go, Becomes
  <2> QED BY <2>1, <2>2, OneRequestMoves
<1>10. CASE CallFallback(r)
  <2>1. x \notin Good
      BY <1>1, <1>10 DEF CallFallback, Finish, Go, OnItsWay
  <2>2. PICK o \in Statuses \cup {"err"} :
            \/ o \in Good /\ Becomes(r, "store", x, o, "fallback")
            \/ o \notin Good /\ Becomes(r, "store", x, o, "primary")
            \/ o = "err" /\ Becomes(r, "done", x, o, "badGateway")
            \/ Becomes(r, "done", x, o, "fallback")
    <3>1. PICK o \in Statuses \cup {"err"} :
              /\ backup' = [backup EXCEPT ![r] = o]
              /\ \/ /\ Go(r, "fallback", "store")
                    /\ answer' = [answer EXCEPT ![r] = IF o \in Good THEN "fallback" ELSE "primary"]
                 \/ Finish(r, "fallback", IF o = "err" THEN "badGateway" ELSE "fallback")
        BY <1>10 DEF CallFallback
    <3>2. primary' = [primary EXCEPT ![r] = x]
        BY <1>0, <1>10 DEF CallFallback
    <3>3. CASE /\ Go(r, "fallback", "store")
               /\ answer' = [answer EXCEPT ![r] = IF o \in Good THEN "fallback" ELSE "primary"]
      <4>1. CASE o \in Good
          BY <3>1, <3>2, <3>3, <4>1 DEF Go, Becomes
      <4>2. CASE o \notin Good
          BY <3>1, <3>2, <3>3, <4>2 DEF Go, Becomes
      <4> QED BY <4>1, <4>2
    <3>4. CASE Finish(r, "fallback", IF o = "err" THEN "badGateway" ELSE "fallback")
      <4>1. CASE o = "err"
          BY <3>1, <3>2, <3>4, <4>1 DEF Finish, Go, Becomes
      <4>2. CASE o # "err"
          BY <3>1, <3>2, <3>4, <4>2 DEF Finish, Go, Becomes
      <4> QED BY <4>1, <4>2
    <3> QED BY <3>1, <3>3, <3>4
  <2>3. /\ o \in Good => OnItsWay("store", x, o, "fallback")
        /\ o \notin Good => OnItsWay("store", x, o, "primary")
        /\ o = "err" => OnItsWay("done", x, o, "badGateway")
        /\ OnItsWay("done", x, o, "fallback")
      BY <2>1 DEF OnItsWay, Due, Good
  <2> QED BY <2>2, <2>3, OneRequestMoves
<1>11. CASE Store(r)
  <2>1. OnItsWay("done", x, y, a)
      BY <1>1, <1>11 DEF Store, Go, OnItsWay
  <2>2. Becomes(r, "done", x, y, a)
      BY <1>0, <1>11 DEF Store, Go, Becomes
  <2> QED BY <2>1, <2>2, OneRequestMoves
<1>12. CASE Leave(r)
  <2>1. OnItsWay("done", "none", "none", "none")
      BY DEF OnItsWay
  <2> QED BY <1>12, <2>1, OneRequestMoves DEF Leave, Becomes
<1>13. CASE Again(r)
  <2>1. OnItsWay("new", "none", "none", "none")
      BY DEF OnItsWay
  <2> QED BY <1>0, <1>13, <2>1, OneRequestMoves DEF Again, Go, Becomes
<1>14. CASE Resend(r)
    BY <1>14 DEF Resend, AnswerInv
<1> QED BY <1>2, <1>3, <1>4, <1>5, <1>6, <1>7, <1>8, <1>9, <1>10, <1>11, <1>12, <1>13, <1>14
        DEF Handle

\* A client who waits is never given an error, or a worse answer, while one of
\* the providers has given a good one for its request: for any number of
\* requests, whatever fails.
THEOREM GoodAnswersReachTheirClients == Spec => []GoodAnswerDelivered
<1>1. Init => AnswerInv
    BY DEF Init, AnswerInv, OnItsWay
<1>2. TypeOK /\ AnswerInv /\ [Next]_vars => AnswerInv'
  <2> SUFFICES ASSUME TypeOK, AnswerInv, [Next]_vars PROVE AnswerInv'
      OBVIOUS
  <2>1. CASE Tick \/ CacheExpires \/ UNCHANGED vars
      BY <2>1 DEF Tick, CacheExpires, vars, AnswerInv
  <2> QED BY <2>1, AnswerStep DEF Next
<1>3. AnswerInv => GoodAnswerDelivered
    BY DEF AnswerInv, OnItsWay, Due, GoodAnswerDelivered
<1> QED BY <1>1, <1>2, <1>3, TypeCorrect, PTL DEF Spec
=============================================================================
