---------------------------- MODULE WindowsProofs ----------------------------
(***************************************************************************)
(* Proofs about the two fixed-window counters, for any calls, limits,      *)
(* windows, clock and faults: the limit of a minute is kept, and nothing   *)
(* is refused or reported that was not repeated just then.                 *)
(***************************************************************************)
EXTENDS Windows, FiniteSetTheorems, TLAPS

CallStates == {"new", "incr", "expire", "under", "over", "lost"}

\* The calls that Redis has counted under key k, and those of them that pass.
Sent(k)    == {c \in Calls : sentAt[c] # Never /\ Key(c) = k}
Passing(k) == {c \in Calls \ blind : pc[c] \in {"under", "expire"} /\ Key(c) = k}

\* The times of a call follow each other, and none waits too long.
CallInv ==
    \A c \in Calls :
        /\ start[c] <= now
        /\ pc[c] \in {"new", "incr"} => sentAt[c] = Never /\ c \notin blind
        /\ pc[c] \in {"expire", "over"} => sentAt[c] # Never /\ c \notin blind
        /\ pc[c] = "under" /\ c \notin blind => sentAt[c] # Never
        /\ sentAt[c] # Never => start[c] <= sentAt[c] /\ sentAt[c] <= now
        /\ pc[c] \in {"incr", "expire"} => now <= start[c] + MaxDelay

\* A counter counts nothing but calls and repeated commands.
CounterInv ==
    /\ counter \in [Keys -> Nat] /\ expires \in [Keys -> Nat]
    /\ \A k \in Keys : counter[k] <= Cardinality(Sent(k)) + faults

\* The end of the calls whose key is that of minute k.
End(k) == k * Minute + Minute + MaxDelay

\* The key of a minute lives as long as the calls of it, so that its counter
\* counts them all.
MinuteInv ==
    kind = "rate" =>
        \A k \in Keys :
            /\ expires[k] # Never => expires[k] >= End(k)
            /\ now < End(k) => Cardinality(Sent(k)) <= counter[k]
            /\ Cardinality(Passing(k)) <= Limit

\* While no command has been lost, a counter that is not 0 counts the calls G of
\* one window: f was the first of them, and its TTL runs or is about to be set.
OneWindow(k, G, f) ==
    /\ f \in G /\ G \subseteq Sent(k)
    /\ counter[k] = Cardinality(G)
    /\ \A d \in G : sentAt[f] <= sentAt[d]
    /\ \A c \in Calls : pc[c] = "expire" /\ Key(c) = k => c = f
    /\ \/ pc[f] = "expire" /\ expires[k] = Never
       \/ pc[f] # "expire" /\ expires[k] <= sentAt[f] + MaxDelay + TTL
WindowInv ==
    faults = 0 =>
        \A k \in Keys :
            /\ counter[k] > 0 => \E G \in SUBSET Calls, f \in Calls : OneWindow(k, G, f)
            /\ counter[k] = 0 =>
                  /\ expires[k] = Never
                  /\ \A c \in Calls : ~(pc[c] = "expire" /\ Key(c) = k)

IInv == TypeOK /\ CallInv /\ CounterInv /\ MinuteInv /\ WindowInv /\ OverIsRecent

\* The passing calls of the step that were sent after s, since s, less than a window
\* before s, and in the span of a window from t on.
After(s)  == {c \in Passing(0) : sentAt[c] > s}
Since(s)  == {c \in Passing(0) : sentAt[c] >= s}
Before(s) == {c \in Passing(0) : sentAt[c] < s /\ s < sentAt[c] + TTL}
Span(t)   == {c \in Passing(0) : sentAt[c] \in t..(t + Window[kind] - 1)}

\* A window began at s: its key does not expire before s + TTL, its counter has
\* counted the call that began it and all that pass since, and of the window
\* before it, whose first call is too long ago, one call less than the limit can
\* matter.
OpenSince(s) ==
    /\ expires[0] = Never \/ expires[0] >= s + TTL
    /\ Cardinality(After(s)) < counter[0] /\ Cardinality(After(s)) < Limit
    /\ Cardinality(Since(s)) <= counter[0] /\ Cardinality(Since(s)) <= Limit
    /\ Cardinality(Before(s)) < Limit

\* Whatever has failed: a window is open, or the last one is over and its first
\* call more than a window ago.
SpanInv ==
    kind = "retry" =>
        /\ counter[0] > 0 => \E s \in 0..now : OpenSince(s)
        /\ counter[0] = 0 =>
              /\ \A c \in Passing(0) : sentAt[c] < now
              /\ Cardinality(Before(now)) < Limit
        /\ \A t \in 0..MaxTime : Cardinality(Span(t)) <= 2 * Limit - 1

-----------------------------------------------------------------------------
(* Keys and numbers.                                                       *)

LEMMA Constants ==
    /\ Minute \in Nat \ {0} /\ Limit \in Nat \ {0} /\ MaxDelay \in Nat /\ MaxTime \in Nat
    /\ MaxFaults \in Nat /\ Never \in Nat /\ Never > MaxTime /\ IsFiniteSet(Calls)
    /\ kind \in Kinds => TTL \in Nat \ {0} /\ (kind = "rate" => TTL >= Minute + MaxDelay)
<1>1. /\ Minute \in Nat \ {0} /\ Limit \in Nat \ {0} /\ MaxDelay \in Nat /\ MaxTime \in Nat
      /\ MaxFaults \in Nat /\ IsFiniteSet(Calls)
    BY WindowsAssumption DEF WindowsAssumption
<1>2. Never \in Nat /\ Never > MaxTime
    BY <1>1 DEF Never
<1>3. kind \in Kinds => Window[kind] \in Nat \ {0}
    BY WindowsAssumption DEF WindowsAssumption
<1>4. kind \in Kinds /\ kind = "rate" => Window[kind] >= Minute + MaxDelay
    BY WindowsAssumption DEF WindowsAssumption
<1> QED BY <1>1, <1>2, <1>3, <1>4 DEF TTL

LEMMA Division ==
    ASSUME NEW a \in Nat, NEW b \in Nat, NEW m \in Nat \ {0}, a <= b
    PROVE  /\ a \div m \in Nat /\ a \div m <= b \div m
           /\ (a \div m) * m <= a /\ a < (a \div m) * m + m
OBVIOUS

\* The key of a call is one of the keys, and that of the minute it began in.
LEMMA KeyBounds ==
    ASSUME TypeOK, NEW c \in Calls
    PROVE  /\ Key(c) \in Keys /\ Key(c) \in Nat
           /\ kind = "rate" => Key(c) * Minute <= start[c] /\ start[c] < Key(c) * Minute + Minute
<1>1. start[c] \in Nat /\ start[c] <= MaxTime /\ MaxTime \in Nat /\ Minute \in Nat \ {0}
    BY Constants DEF TypeOK
<1>2. start[c] \div Minute \in Nat /\ start[c] \div Minute <= MaxTime \div Minute /\ MaxTime \div Minute \in Nat
    BY <1>1, Division
<1>3. /\ (start[c] \div Minute) * Minute <= start[c]
      /\ start[c] < (start[c] \div Minute) * Minute + Minute
    BY <1>1, Division
<1> QED BY <1>2, <1>3 DEF Key, Keys

\* Sets of calls have a size.
LEMMA Sizes ==
    ASSUME NEW S \in SUBSET Calls
    PROVE  IsFiniteSet(S) /\ Cardinality(S) \in Nat /\ Cardinality(S) <= Cardinality(Calls)
<1>1. IsFiniteSet(S) /\ Cardinality(S) <= Cardinality(Calls)
    BY Constants, FS_Subset
<1> QED BY <1>1, FS_CardinalityType

LEMMA SubsetSizes ==
    ASSUME NEW S \in SUBSET Calls, NEW T \in SUBSET S
    PROVE  Cardinality(T) <= Cardinality(S)
BY Sizes, FS_Subset

LEMMA SentSizes ==
    \A k : IsFiniteSet(Sent(k)) /\ Cardinality(Sent(k)) \in Nat
<1>1. \A k : Sent(k) \in SUBSET Calls
    BY DEF Sent
<1> QED BY <1>1, Sizes

\* The range of a counter follows from what it counts.
LEMMA CounterRange ==
    ASSUME CounterInv, faults \in 0..MaxFaults
    PROVE  counter \in [Keys -> 0..(Cardinality(Calls) + MaxFaults)]
<1>1. ASSUME NEW k \in Keys
      PROVE  counter[k] \in 0..(Cardinality(Calls) + MaxFaults)
  <2>1. Sent(k) \in SUBSET Calls
      BY DEF Sent
  <2>2. Cardinality(Sent(k)) \in Nat /\ Cardinality(Sent(k)) <= Cardinality(Calls)
      BY <2>1, Sizes
  <2>3. Cardinality(Calls) \in Nat
      BY Sizes
  <2> QED BY <2>2, <2>3, Constants DEF CounterInv
<1> QED BY <1>1 DEF CounterInv

LEMMA InitInv == Init => IInv
<1> SUFFICES ASSUME Init PROVE IInv
    OBVIOUS
<1>1. \A k : Sent(k) = {} /\ Passing(k) = {}
    BY DEF Init, Sent, Passing
<1>2. CounterInv
    BY <1>1, FS_EmptySet, Constants DEF Init, CounterInv
<1>3. TypeOK
  <2>1. counter \in [Keys -> 0..(Cardinality(Calls) + MaxFaults)]
      BY <1>2, CounterRange, Constants DEF Init
  <2> QED BY <2>1, Constants DEF Init, TypeOK
<1>4. CallInv
    BY Constants DEF Init, CallInv
<1>5. MinuteInv
    BY <1>1, FS_EmptySet, Constants DEF Init, MinuteInv
<1>6. WindowInv /\ OverIsRecent
    BY DEF Init, WindowInv, OverIsRecent
<1> QED BY <1>2, <1>3, <1>4, <1>5, <1>6 DEF IInv

-----------------------------------------------------------------------------
(* The steps that count nothing.                                           *)

\* A step that changes no call which has been sent, and sends none, keeps what
\* has been counted together.
LEMMA SentKept ==
    ASSUME UNCHANGED kind,
           \A d \in Calls : sentAt'[d] = sentAt[d] /\ (sentAt[d] # Never => start'[d] = start[d])
    PROVE  \A k : Sent(k)' = Sent(k)
BY DEF Sent, Key, Never

LEMMA RecentKept ==
    ASSUME UNCHANGED kind, NEW c \in Calls, sentAt[c] # Never, sentAt[c] \in Nat, sentAt[c] < Never,
           \A d \in Calls : sentAt'[d] = sentAt[d] /\ (sentAt[d] # Never => start'[d] = start[d])
    PROVE  Recent(c)' = Recent(c)
BY Constants DEF Recent, Key, Never

\* When a call was sent.
LEMMA SentTimes ==
    ASSUME IInv, NEW c \in Calls
    PROVE  /\ sentAt[c] \in Nat /\ now \in Nat /\ now < Never
           /\ sentAt[c] # Never => sentAt[c] <= now /\ sentAt[c] < Never
           /\ pc[c] = "over" => sentAt[c] # Never
BY Constants DEF IInv, TypeOK, CallInv

LEMMA ArriveStep ==
    ASSUME IInv, NEW c \in Calls, Arrive(c)
    PROVE  IInv'
<1> USE DEF IInv
<1>1. /\ pc[c] = "new" /\ pc' = [pc EXCEPT ![c] = "incr"] /\ start' = [start EXCEPT ![c] = now]
      /\ UNCHANGED <<kind, now, sentAt, counter, expires, faults, blind>>
    BY DEF Arrive, Go
<1>2. /\ sentAt[c] = Never /\ c \notin blind /\ pc'[c] = "incr" /\ start'[c] = now
      /\ \A d \in Calls \ {c} : pc'[d] = pc[d] /\ start'[d] = start[d]
    BY <1>1 DEF CallInv, TypeOK
<1>3. \A k : Sent(k)' = Sent(k)
    BY <1>1, <1>2, SentKept
<1>4. \A k : Passing(k)' = Passing(k)
    BY <1>1, <1>2 DEF Passing, Key
<1>5. TypeOK'
    BY <1>1 DEF TypeOK
<1>6. CallInv'
    BY <1>1, <1>2, Constants DEF CallInv, TypeOK
<1>7. CounterInv' /\ MinuteInv'
    BY <1>1, <1>3, <1>4 DEF CounterInv, MinuteInv, End
<1>8. WindowInv'
  <2>1. ASSUME NEW k \in Keys, NEW G \in SUBSET Calls, NEW f \in Calls, OneWindow(k, G, f)
        PROVE  OneWindow(k, G, f)'
    <3>1. f # c
        BY <1>2, <2>1 DEF OneWindow, Sent
    <3> QED BY <1>1, <1>2, <1>3, <2>1, <3>1 DEF OneWindow, TTL, Key
  <2>2. \A k : (\A d \in Calls : ~(pc[d] = "expire" /\ Key(d) = k))
                => \A d \in Calls : ~(pc'[d] = "expire" /\ Key(d)' = k)
      BY <1>1, <1>2 DEF Key
  <2> QED BY <1>1, <2>1, <2>2 DEF WindowInv
<1>9. OverIsRecent'
  <2>1. \A d \in Calls : pc'[d] = "over" => pc[d] = "over" /\ Recent(d)' = Recent(d)
      BY <1>1, <1>2, RecentKept, SentTimes
  <2> QED BY <1>1, <2>1 DEF OverIsRecent
<1> QED BY <1>5, <1>6, <1>7, <1>8, <1>9

\* The EXPIRE.
LEMMA SetTTLStep ==
    ASSUME IInv, NEW c \in Calls, SetTTL(c)
    PROVE  IInv'
<1> USE DEF IInv
<1>1. /\ pc[c] = "expire" /\ pc' = [pc EXCEPT ![c] = "under"]
      /\ UNCHANGED <<kind, now, start, sentAt, counter, blind>>
  <2>1. Verdict(1) = "under"
      BY Constants DEF Verdict
  <2> QED BY <2>1 DEF SetTTL, Go
<1>2. /\ pc'[c] = "under" /\ sentAt[c] # Never /\ c \notin blind
      /\ \A d \in Calls \ {c} : pc'[d] = pc[d]
    BY <1>1 DEF CallInv, TypeOK
<1>3. Key(c) \in Keys /\ Key(c) \in Nat
    BY KeyBounds
<1>4. \/ UNCHANGED <<expires, faults>> /\ counter[Key(c)] = 0
      \/ /\ counter[Key(c)] > 0 /\ expires' = [expires EXCEPT ![Key(c)] = now + TTL]
         /\ UNCHANGED faults
      \/ UNCHANGED expires /\ Fault
  <2>1. counter[Key(c)] \in Nat
      BY <1>3 DEF CounterInv
  <2>2. counter[Key(c)] = 0 => expires = [expires EXCEPT ![Key(c)] = expires[Key(c)]]
      BY <1>3 DEF CounterInv
  <2> QED BY <2>1, <2>2 DEF SetTTL
<1>5. faults' \in 0..MaxFaults /\ faults' >= faults
    BY <1>4, Constants DEF TypeOK, Fault
<1>6. \A k : Sent(k)' = Sent(k) /\ Passing(k)' = Passing(k)
    BY <1>1, <1>2, SentKept DEF Passing, Key
<1>7. TTL \in Nat \ {0} /\ now \in Nat /\ kind \in Kinds /\ (kind = "rate" => TTL >= Minute + MaxDelay)
    BY Constants DEF TypeOK
<1>8. expires' \in [Keys -> Nat]
    BY <1>3, <1>4, <1>7 DEF CounterInv
<1>9. TypeOK'
  <2>1. \A k \in Keys : expires'[k] = Never \/ (counter[k] > 0 /\ expires'[k] > now)
      BY <1>3, <1>4, <1>7 DEF TypeOK, CounterInv
  <2> QED BY <1>1, <1>5, <2>1 DEF TypeOK
<1>10. CallInv'
    BY <1>1, <1>2 DEF CallInv
<1>11. CounterInv'
  <2>1. \A k : Cardinality(Sent(k)) \in Nat
      BY SentSizes
  <2> QED BY <1>1, <1>5, <1>6, <1>8, <2>1 DEF CounterInv, TypeOK
<1>12. MinuteInv'
  <2> SUFFICES ASSUME kind = "rate", NEW k \in Keys
               PROVE  expires'[k] # Never => expires'[k] >= End(k)
      BY <1>1, <1>6 DEF MinuteInv, End
  <2>1. CASE expires'[k] = expires[k]
      BY <2>1 DEF MinuteInv
  <2>2. CASE k = Key(c) /\ expires'[k] = now + TTL
    <3>1. k * Minute <= start[c] /\ start[c] <= now /\ start[c] \in Nat
        BY <2>2, KeyBounds DEF CallInv, TypeOK
    <3>2. k * Minute \in Nat
        BY <1>3, <2>2, Constants
    <3> QED BY <1>7, <2>2, <3>1, <3>2, Constants DEF End
  <2> QED BY <1>3, <1>4, <2>1, <2>2 DEF CounterInv
<1>13. WindowInv'
  <2> SUFFICES ASSUME faults' = 0, NEW k \in Keys
               PROVE  /\ counter[k] > 0 => \E G \in SUBSET Calls, f \in Calls : OneWindow(k, G, f)'
                      /\ counter[k] = 0 =>
                            /\ expires'[k] = Never
                            /\ \A d \in Calls : ~(pc'[d] = "expire" /\ Key(d)' = k)
      BY <1>1 DEF WindowInv
  <2>1. faults = 0 /\ counter[Key(c)] > 0
      BY <1>1, <1>3, <1>4, <1>5 DEF WindowInv, TypeOK, CounterInv, Fault
  <2>2. expires' = [expires EXCEPT ![Key(c)] = now + TTL]
      BY <1>4, <2>1 DEF Fault, TypeOK
  <2>3. ASSUME counter[k] > 0
        PROVE  \E G \in SUBSET Calls, f \in Calls : OneWindow(k, G, f)'
    <3>1. PICK G \in SUBSET Calls, f \in Calls : OneWindow(k, G, f)
        BY <2>1, <2>3 DEF WindowInv
    <3>2. CASE k = Key(c)
      <4>1. f = c
          BY <1>1, <3>1, <3>2 DEF OneWindow
      <4>2. expires'[k] <= sentAt[f] + MaxDelay + TTL
          BY <1>1, <1>2, <1>3, <1>7, <2>2, <3>2, <4>1, SentTimes, Constants DEF CallInv, CounterInv, TypeOK
      <4> QED BY <1>1, <1>2, <1>6, <3>1, <3>2, <4>1, <4>2 DEF OneWindow, TTL, Key
    <3>3. CASE k # Key(c)
      <4>1. expires'[k] = expires[k] /\ f # c
          BY <2>2, <3>1, <3>3 DEF CounterInv, OneWindow, Sent
      <4> QED BY <1>1, <1>2, <1>6, <3>1, <4>1 DEF OneWindow, TTL, Key
    <3> QED BY <3>2, <3>3
  <2>4. ASSUME counter[k] = 0
        PROVE  /\ expires'[k] = Never
               /\ \A d \in Calls : ~(pc'[d] = "expire" /\ Key(d)' = k)
    <3>1. k # Key(c)
        BY <2>1, <2>4
    <3> QED BY <1>1, <1>2, <2>1, <2>2, <2>4, <3>1 DEF WindowInv, CounterInv, Key
  <2> QED BY <2>3, <2>4
<1>14. OverIsRecent'
  <2>1. \A d \in Calls : pc'[d] = "over" => pc[d] = "over" /\ Recent(d)' = Recent(d)
      BY <1>1, <1>2, RecentKept, SentTimes
  <2>2. faults' = 0 => faults = 0
      BY <1>5 DEF TypeOK
  <2> QED BY <2>1, <2>2 DEF OverIsRecent
<1> QED BY <1>9, <1>10, <1>11, <1>12, <1>13, <1>14

\* Time passes.
LEMMA TickStep ==
    ASSUME IInv, Tick
    PROVE  IInv'
<1> USE DEF IInv
<1>1. /\ now < MaxTime /\ now' = now + 1
      /\ \A c \in Busy : now < start[c] + MaxDelay
      /\ UNCHANGED <<kind, pc, start, sentAt, faults, blind>>
    BY DEF Tick
<1>2. \A k \in Keys :
          /\ expires[k] = now' => counter'[k] = 0 /\ expires'[k] = Never
          /\ expires[k] # now' => counter'[k] = counter[k] /\ expires'[k] = expires[k]
    BY DEF Tick
<1>3. now \in Nat /\ now' \in 0..MaxTime /\ now' # Never
    BY <1>1, Constants DEF TypeOK
<1>4. \A k : Sent(k)' = Sent(k) /\ Passing(k)' = Passing(k)
    BY <1>1, SentKept DEF Passing, Key
<1>5. CounterInv'
  <2>1. counter' \in [Keys -> Nat] /\ expires' \in [Keys -> Nat]
      BY Constants DEF Tick, CounterInv
  <2>2. \A k \in Keys : counter'[k] <= counter[k]
      BY <1>2 DEF CounterInv
  <2>3. \A k : Cardinality(Sent(k)) \in Nat
      BY SentSizes
  <2> QED BY <1>1, <1>4, <2>1, <2>2, <2>3 DEF CounterInv, TypeOK
<1>6. TypeOK'
  <2>1. counter' \in [Keys -> 0..(Cardinality(Calls) + MaxFaults)]
    <3>1. Cardinality(Calls) \in Nat
        BY Sizes
    <3>2. \A k \in Keys : counter'[k] \in Nat /\ counter'[k] <= counter[k]
        BY <1>2, <1>5 DEF CounterInv
    <3> QED BY <1>5, <3>1, <3>2, Constants DEF TypeOK, CounterInv
  <2>2. \A k \in Keys : expires'[k] = Never \/ (counter'[k] > 0 /\ expires'[k] > now')
      BY <1>1, <1>2, <1>3 DEF TypeOK, CounterInv
  <2> QED BY <1>1, <1>3, <2>1, <2>2 DEF TypeOK
<1>7. CallInv'
    BY <1>1, <1>3, SentTimes, Constants DEF CallInv, Busy, TypeOK
<1>8. MinuteInv'
  <2> SUFFICES ASSUME kind = "rate", NEW k \in Keys
               PROVE  /\ expires'[k] # Never => expires'[k] >= End(k)
                      /\ now' < End(k) => Cardinality(Sent(k)) <= counter'[k]
      BY <1>1, <1>4 DEF MinuteInv, End
  <2>1. End(k) \in Int
    <3>1. k \in Int
        BY DEF Keys
    <3> QED BY <3>1, Constants DEF End
  <2> QED BY <1>1, <1>2, <1>3, <2>1 DEF MinuteInv
<1>9. WindowInv'
  <2> SUFFICES ASSUME faults = 0, NEW k \in Keys
               PROVE  /\ counter'[k] > 0 => \E G \in SUBSET Calls, f \in Calls : OneWindow(k, G, f)'
                      /\ counter'[k] = 0 =>
                            /\ expires'[k] = Never
                            /\ \A d \in Calls : ~(pc[d] = "expire" /\ Key(d) = k)
      BY <1>1 DEF WindowInv, Key
  <2>1. CASE expires[k] = now'
    <3>1. counter[k] > 0
        BY <1>3, <2>1 DEF WindowInv, CounterInv
    <3>2. PICK G \in SUBSET Calls, f \in Calls : OneWindow(k, G, f)
        BY <3>1 DEF WindowInv
    <3>3. \A d \in Calls : ~(pc[d] = "expire" /\ Key(d) = k)
        BY <1>3, <2>1, <3>2 DEF OneWindow
    <3> QED BY <1>2, <2>1, <3>3
  <2>2. CASE expires[k] # now'
    <3>1. counter'[k] = counter[k] /\ expires'[k] = expires[k]
        BY <1>2, <2>2
    <3>2. ASSUME NEW G \in SUBSET Calls, NEW f \in Calls, OneWindow(k, G, f)
          PROVE  OneWindow(k, G, f)'
        BY <1>1, <1>4, <3>1, <3>2 DEF OneWindow, TTL, Key
    <3> QED BY <3>1, <3>2 DEF WindowInv
  <2> QED BY <2>1, <2>2
<1>10. OverIsRecent'
  <2>1. \A d \in Calls : pc'[d] = "over" => pc[d] = "over" /\ Recent(d)' = Recent(d)
      BY <1>1, RecentKept, SentTimes
  <2> QED BY <1>1, <2>1 DEF OverIsRecent
<1> QED BY <1>5, <1>6, <1>7, <1>8, <1>9, <1>10

\* Calls are cut off.
LEMMA BreakStep ==
    ASSUME IInv, Break
    PROVE  IInv'
<1> USE DEF IInv
<1>1. /\ UNCHANGED <<kind, now, start, sentAt, counter, expires, blind>>
      /\ faults' \in 0..MaxFaults /\ faults' > 0 /\ faults' >= faults
    BY Constants DEF Break, Fault, TypeOK
<1>2. /\ pc' \in [Calls -> CallStates]
      /\ \A c \in Calls : pc'[c] = pc[c] \/ pc'[c] = "lost"
    BY DEF Break, TypeOK, CallStates
<1>3. \A k : Sent(k)' = Sent(k)
    BY <1>1, SentKept
<1>4. \A k : Cardinality(Passing(k)') <= Cardinality(Passing(k))
  <2>1. \A k : Passing(k) \in SUBSET Calls /\ Passing(k)' \in SUBSET Passing(k)
      BY <1>1, <1>2 DEF Passing, Key
  <2> QED BY <2>1, SubsetSizes
<1>5. TypeOK'
    BY <1>1, <1>2 DEF TypeOK, CallStates
<1>6. CallInv'
    BY <1>1, <1>2 DEF CallInv
<1>7. CounterInv'
  <2>1. \A k : Cardinality(Sent(k)) \in Nat
      BY SentSizes
  <2> QED BY <1>1, <1>3, <2>1 DEF CounterInv, TypeOK
<1>8. MinuteInv'
  <2>1. \A k : Cardinality(Passing(k)) \in Nat /\ Cardinality(Passing(k)') \in Nat
    <3>1. \A k : Passing(k) \in SUBSET Calls /\ Passing(k)' \in SUBSET Calls
        BY DEF Passing
    <3> QED BY <3>1, Sizes
  <2> QED BY <1>1, <1>3, <1>4, <2>1, Constants DEF MinuteInv, End
<1>9. WindowInv' /\ OverIsRecent'
    BY <1>1 DEF WindowInv, OverIsRecent
<1> QED BY <1>5, <1>6, <1>7, <1>8, <1>9

-----------------------------------------------------------------------------
(* The INCR.                                                               *)

\* An INCR adds n, which may be 0, and its call goes on or fails.
LEMMA IncrCounts ==
    ASSUME IInv, NEW c \in Calls, NEW n \in 0..2, Count(c, n), pc[c] = "incr", UNCHANGED <<kind, start>>
    PROVE  /\ sentAt[c] = Never /\ c \notin blind /\ now <= start[c] + MaxDelay
           /\ Key(c) \in Keys /\ Key(c) \in Nat
           /\ counter' \in [Keys -> Nat] /\ counter'[Key(c)] = counter[Key(c)] + n
           /\ \A k \in Keys \ {Key(c)} : counter'[k] = counter[k]
           /\ \A d \in Calls \ {c} : sentAt'[d] = sentAt[d]
           /\ sentAt'[c] = IF n > 0 THEN now ELSE Never
           /\ sentAt' \in [Calls -> 0..MaxTime \cup {Never}]
           /\ \A d \in Calls : Key(d)' = Key(d)
           /\ \A k : Sent(k)' = IF n > 0 /\ k = Key(c) THEN Sent(k) \cup {c} ELSE Sent(k)
           /\ c \notin Sent(Key(c))
<1> USE DEF IInv
<1>1. sentAt[c] = Never /\ c \notin blind /\ now <= start[c] + MaxDelay
    BY DEF CallInv
<1>2. Key(c) \in Keys /\ Key(c) \in Nat
    BY KeyBounds
<1>3. /\ counter' = [counter EXCEPT ![Key(c)] = @ + n]
      /\ sentAt' = IF n > 0 THEN [sentAt EXCEPT ![c] = now] ELSE sentAt
    BY DEF Count
<1>4. /\ counter' \in [Keys -> Nat] /\ counter'[Key(c)] = counter[Key(c)] + n
      /\ \A k \in Keys \ {Key(c)} : counter'[k] = counter[k]
    BY <1>2, <1>3 DEF CounterInv
<1>5. /\ \A d \in Calls \ {c} : sentAt'[d] = sentAt[d]
      /\ sentAt'[c] = IF n > 0 THEN now ELSE Never
      /\ sentAt' \in [Calls -> 0..MaxTime \cup {Never}]
    BY <1>1, <1>3 DEF TypeOK
<1>6. \A d \in Calls : Key(d)' = Key(d)
    BY DEF Key
<1>7. now # Never
    BY Constants DEF TypeOK
<1>8. Never' = Never
    BY DEF Never
<1>9. ASSUME NEW k
      PROVE  Sent(k)' = IF n > 0 /\ k = Key(c) THEN Sent(k) \cup {c} ELSE Sent(k)
    BY <1>1, <1>5, <1>6, <1>7, <1>8 DEF Sent
<1>10. c \notin Sent(Key(c))
    BY <1>1 DEF Sent
<1> QED BY <1>1, <1>2, <1>4, <1>5, <1>6, <1>9, <1>10

\* Types and times after an INCR, whatever comes of its call.
LEMMA IncrTypes ==
    ASSUME IInv, NEW c \in Calls, NEW n \in 0..2, Count(c, n),
           NEW to \in {"expire", "under", "over"}, Go(c, "incr", to),
           UNCHANGED <<kind, now, start, expires>>,
           faults' \in 0..MaxFaults, faults' >= faults, n = 2 => faults' = faults + 1,
           n = 0 => to = "under" /\ c \in blind',
           blind' \in {blind, blind \cup {c}}, c \in blind' => to = "under"
    PROVE  TypeOK' /\ CallInv' /\ CounterInv'
<1> USE DEF IInv
<1>1. pc[c] = "incr" /\ pc' = [pc EXCEPT ![c] = to]
    BY DEF Go
<1>2. \A d \in Calls \ {c} : pc'[d] = pc[d] /\ (d \in blind' <=> d \in blind)
    BY <1>1 DEF TypeOK
<1>3. pc'[c] = to
    BY <1>1 DEF TypeOK
<1>4. /\ sentAt[c] = Never /\ now <= start[c] + MaxDelay /\ Key(c) \in Keys
      /\ counter' \in [Keys -> Nat] /\ counter'[Key(c)] = counter[Key(c)] + n
      /\ \A k \in Keys \ {Key(c)} : counter'[k] = counter[k]
      /\ \A d \in Calls \ {c} : sentAt'[d] = sentAt[d]
      /\ sentAt'[c] = IF n > 0 THEN now ELSE Never
      /\ sentAt' \in [Calls -> 0..MaxTime \cup {Never}]
      /\ \A k : Sent(k)' = IF n > 0 /\ k = Key(c) THEN Sent(k) \cup {c} ELSE Sent(k)
      /\ c \notin Sent(Key(c))
    BY <1>1, IncrCounts
<1>5. \A k : /\ Cardinality(Sent(k)) \in Nat
             /\ Cardinality(Sent(k)') = IF n > 0 /\ k = Key(c) THEN Cardinality(Sent(k)) + 1
                                        ELSE Cardinality(Sent(k))
    BY <1>4, SentSizes, FS_AddElement
<1>6. CounterInv'
  <2>1. \A k \in Keys : counter'[k] <= Cardinality(Sent(k)') + faults'
      BY <1>4, <1>5 DEF CounterInv, TypeOK
  <2> QED BY <1>4, <2>1 DEF CounterInv
<1>7. counter' \in [Keys -> 0..(Cardinality(Calls) + MaxFaults)]
  <2>1. \A k : Sent(k)' \in SUBSET Calls
      BY DEF Sent
  <2>2. \A k : Cardinality(Sent(k)') <= Cardinality(Calls) /\ Cardinality(Sent(k)') \in Nat
      BY <2>1, Sizes
  <2>3. Cardinality(Calls) \in Nat
      BY Sizes
  <2> QED BY <1>6, <2>2, <2>3, Constants DEF CounterInv
<1>8. TypeOK'
  <2>1. \A k \in Keys : expires[k] = Never \/ (counter'[k] > 0 /\ expires[k] > now)
      BY <1>4 DEF TypeOK, CounterInv
  <2>2. pc' \in [Calls -> CallStates]
      BY <1>1 DEF TypeOK, CallStates
  <2> QED BY <1>4, <1>7, <2>1, <2>2 DEF TypeOK, CallStates
<1>9. CallInv'
  <2>1. ASSUME NEW d \in Calls \ {c}
        PROVE  /\ pc'[d] = pc[d] /\ sentAt'[d] = sentAt[d] /\ (d \in blind' <=> d \in blind)
      BY <1>2, <1>4
  <2>2. n > 0 => sentAt'[c] = now /\ now # Never
      BY <1>4, Constants DEF TypeOK
  <2>3. start[c] \in Nat /\ now \in Nat /\ start[c] <= now
      BY DEF TypeOK, CallInv
  <2> QED BY <1>3, <1>4, <2>1, <2>2, <2>3 DEF CallInv
<1> QED BY <1>6, <1>8, <1>9

\* The limit of the minute after an INCR.
LEMMA IncrMinute ==
    ASSUME IInv, NEW c \in Calls, NEW n \in 0..2, Count(c, n),
           NEW to \in {"expire", "under", "over"}, Go(c, "incr", to),
           UNCHANGED <<kind, now, start, expires>>,
           \/ blind' = blind \cup {c}
           \/ n > 0 /\ to = AfterIncr(counter'[Key(c)]) /\ UNCHANGED blind
    PROVE  MinuteInv'
<1> USE DEF IInv
<1>1. pc[c] = "incr" /\ pc' = [pc EXCEPT ![c] = to] /\ pc'[c] = to
    BY DEF Go, TypeOK
<1>2. \A d \in Calls \ {c} : pc'[d] = pc[d] /\ (d \in blind' <=> d \in blind)
    BY <1>1 DEF TypeOK
<1>3. /\ sentAt[c] = Never /\ now <= start[c] + MaxDelay /\ Key(c) \in Keys /\ Key(c) \in Nat
      /\ counter' \in [Keys -> Nat] /\ counter'[Key(c)] = counter[Key(c)] + n
      /\ \A k \in Keys \ {Key(c)} : counter'[k] = counter[k]
      /\ \A d \in Calls : Key(d)' = Key(d)
      /\ \A k : Sent(k)' = IF n > 0 /\ k = Key(c) THEN Sent(k) \cup {c} ELSE Sent(k)
      /\ c \notin Sent(Key(c))
    BY <1>1, IncrCounts
<1>4. \A k : /\ Cardinality(Sent(k)) \in Nat
             /\ Cardinality(Sent(k)') = IF n > 0 /\ k = Key(c) THEN Cardinality(Sent(k)) + 1
                                        ELSE Cardinality(Sent(k))
    BY <1>3, SentSizes, FS_AddElement
<1> SUFFICES ASSUME kind = "rate", NEW k \in Keys
             PROVE  /\ now < End(k) => Cardinality(Sent(k)') <= counter'[k]
                    /\ Cardinality(Passing(k)') <= Limit
    BY DEF MinuteInv, End
<1>5. now < End(k) => Cardinality(Sent(k)') <= counter'[k]
    BY <1>3, <1>4 DEF MinuteInv, CounterInv
<1>6. CASE Passing(k)' = Passing(k)
    BY <1>5, <1>6 DEF MinuteInv
<1>7. CASE Passing(k)' # Passing(k)
  <2>1. k = Key(c) /\ to \in {"under", "expire"} /\ blind' = blind /\ c \notin blind /\ n > 0
    <3>1. c \notin Passing(k)
        BY <1>1 DEF Passing
    <3>2. \A d \in Calls \ {c} : d \in Passing(k)' <=> d \in Passing(k)
        BY <1>2, <1>3 DEF Passing
    <3>3. c \in Passing(k)'
        BY <1>7, <3>1, <3>2 DEF Passing
    <3> QED BY <1>1, <1>3, <3>3 DEF Passing
  <2>2. counter'[k] <= Limit
      BY <1>3, <2>1, Constants DEF AfterIncr, Verdict, CounterInv
  <2>3. now < End(k)
      BY <1>3, <2>1, KeyBounds, Constants DEF End, TypeOK
  <2>4. Passing(k)' \in SUBSET (Sent(k)') /\ Sent(k)' \in SUBSET Calls
    <3>1. \A d \in Passing(k)' : d = c \/ d \in Sent(k)
        BY <1>2, <1>3 DEF Passing, Sent, CallInv
    <3> QED BY <1>3, <2>1, <3>1 DEF Sent
  <2>5. Cardinality(Passing(k)') <= Cardinality(Sent(k)') /\ Cardinality(Passing(k)') \in Nat
    <3>1. Passing(k)' \in SUBSET Calls
        BY DEF Passing
    <3> QED BY <2>4, <3>1, SubsetSizes, Sizes
  <2> QED BY <1>3, <1>4, <1>5, <2>2, <2>3, <2>5, Constants
<1> QED BY <1>5, <1>6, <1>7

\* A window of another key is not disturbed by an INCR.
LEMMA OtherWindow ==
    ASSUME IInv, NEW c \in Calls, Count(c, 1),
           NEW to, Go(c, "incr", to), UNCHANGED <<kind, start, expires>>,
           NEW k \in Keys, k # Key(c), NEW G \in SUBSET Calls, NEW f \in Calls, OneWindow(k, G, f)
    PROVE  OneWindow(k, G, f)'
<1>1. /\ \A d \in Calls \ {c} : pc'[d] = pc[d] /\ sentAt'[d] = sentAt[d]
      /\ \A d \in Calls : Key(d)' = Key(d)
      /\ Sent(k)' = Sent(k) /\ counter'[k] = counter[k] /\ sentAt[c] = Never
    BY IncrCounts DEF Go, IInv, TypeOK
<1>2. c \notin G /\ f # c
    BY <1>1 DEF OneWindow, Sent
<1> QED BY <1>1, <1>2 DEF OneWindow, TTL, Never

\* Calls that are over stay it with their reason.
LEMMA RecentGrows ==
    ASSUME IInv, NEW c \in Calls, Count(c, 1), pc[c] = "incr", UNCHANGED <<kind, start>>,
           NEW d \in Calls, d # c, pc[d] = "over"
    PROVE  Cardinality(Recent(d)) <= Cardinality(Recent(d)') /\ Cardinality(Recent(d)) \in Nat
<1>1. /\ sentAt[c] = Never
      /\ \A e \in Calls \ {c} : sentAt'[e] = sentAt[e]
      /\ \A e \in Calls : Key(e)' = Key(e)
    BY IncrCounts
<1>2. sentAt[d] \in Nat /\ sentAt[d] < Never /\ Never \in Nat
    BY SentTimes, Constants
<1>3. Recent(d) \in SUBSET (Recent(d)') /\ Recent(d)' \in SUBSET Calls /\ Recent(d) \in SUBSET Calls
    BY <1>1, <1>2 DEF Recent
<1> QED BY <1>3, SubsetSizes, Sizes

\* The windows after an INCR, when nothing has been lost.
LEMMA IncrWindow ==
    ASSUME IInv, NEW c \in Calls, Count(c, 1),
           NEW to \in {"expire", "under", "over"}, Go(c, "incr", to),
           UNCHANGED <<kind, now, start, expires, faults>>, faults = 0,
           to = AfterIncr(counter'[Key(c)])
    PROVE  WindowInv' /\ OverIsRecent'
<1> USE DEF IInv
<1> PICK key \in Keys : key = Key(c)
    BY KeyBounds
<1>1. pc[c] = "incr" /\ pc'[c] = to /\ \A d \in Calls \ {c} : pc'[d] = pc[d]
    BY DEF Go, TypeOK
<1>2. /\ sentAt[c] = Never /\ now <= start[c] + MaxDelay /\ key \in Keys
      /\ counter' \in [Keys -> Nat] /\ counter'[key] = counter[key] + 1
      /\ \A k \in Keys \ {key} : counter'[k] = counter[k]
      /\ \A d \in Calls \ {c} : sentAt'[d] = sentAt[d]
      /\ sentAt'[c] = now
      /\ \A d \in Calls : Key(d)' = Key(d)
      /\ Sent(key)' = Sent(key) \cup {c} /\ c \notin Sent(key)
    BY <1>1, IncrCounts
<1>3. /\ now # Never /\ now \in Nat /\ TTL' = TTL /\ Window[kind] = TTL /\ TTL \in Nat \ {0}
      /\ Never' = Never /\ MaxDelay \in Nat
    BY Constants DEF TypeOK, TTL, Never
<1>4. counter[key] \in Nat /\ (to = "expire" <=> counter[key] = 0) /\ (to = "over" => counter'[key] > Limit)
    BY <1>2 DEF CounterInv, AfterIncr, Verdict
<1>5. expires[key] \in Nat /\ now < expires[key]
    BY <1>2, SentTimes DEF TypeOK, CounterInv

\* The window that the call is counted in, and from when it is.
<1>6. \E G \in SUBSET Calls, f \in Calls :
          /\ OneWindow(key, G, f)'
          /\ now < sentAt'[f] + TTL + MaxDelay
  <2>1. CASE counter[key] = 0
    <3>1. Cardinality({c}) = 1
        BY FS_Singleton
    <3>2. expires[key] = Never /\ \A d \in Calls : ~(pc[d] = "expire" /\ Key(d) = key)
        BY <1>2, <2>1 DEF WindowInv
    <3>3. OneWindow(key, {c}, c)'
        BY <1>1, <1>2, <1>3, <1>4, <2>1, <3>1, <3>2 DEF OneWindow
    <3>4. now < sentAt'[c] + TTL + MaxDelay
        BY <1>2, <1>3
    <3> QED BY <3>3, <3>4
  <2>2. CASE counter[key] > 0
    <3>1. PICK G \in SUBSET Calls, f \in Calls : OneWindow(key, G, f)
        BY <1>2, <2>2 DEF WindowInv
    <3>2. /\ c \notin G /\ f # c /\ sentAt'[f] = sentAt[f] /\ pc'[f] = pc[f]
          /\ \A d \in G : sentAt'[d] = sentAt[d] /\ sentAt[d] \in Nat /\ sentAt[d] <= now
        BY <1>1, <1>2, <3>1, SentTimes DEF OneWindow, Sent
    <3>3. Cardinality(G \cup {c}) = Cardinality(G) + 1
        BY <3>2, Sizes, FS_AddElement
    <3>4. sentAt[f] \in Nat /\ sentAt[f] <= now /\ f \in G
        BY <3>1, <3>2 DEF OneWindow
    <3>5. OneWindow(key, G \cup {c}, f)'
      <4>1. f \in G \cup {c} /\ G \cup {c} \subseteq Sent(key)'
          BY <1>2, <3>1 DEF OneWindow
      <4>2. counter'[key] = Cardinality(G \cup {c})
          BY <1>2, <3>1, <3>3 DEF OneWindow
      <4>3. \A d \in G \cup {c} : sentAt'[f] <= sentAt'[d]
          BY <1>2, <3>1, <3>2, <3>4 DEF OneWindow
      <4>4. \A d \in Calls : pc'[d] = "expire" /\ Key(d)' = key => d = f
          BY <1>1, <1>2, <1>4, <2>2, <3>1 DEF OneWindow
      <4>5. \/ pc'[f] = "expire" /\ expires[key] = Never
            \/ pc'[f] # "expire" /\ expires[key] <= sentAt'[f] + MaxDelay + TTL
          BY <3>1, <3>2 DEF OneWindow
      <4> QED BY <1>3, <4>1, <4>2, <4>3, <4>4, <4>5 DEF OneWindow
    <3>6. now < sentAt'[f] + TTL + MaxDelay
      <4>1. CASE pc[f] = "expire"
        <5>1. now <= start[f] + MaxDelay /\ start[f] <= sentAt[f] /\ start[f] \in Nat
            BY <3>1, <4>1 DEF CallInv, OneWindow, Sent, TypeOK
        <5> QED BY <1>3, <3>2, <3>4, <5>1
      <4>2. CASE pc[f] # "expire"
          BY <1>3, <1>5, <3>1, <3>2, <3>4, <4>2 DEF OneWindow
      <4> QED BY <4>1, <4>2
    <3> QED BY <3>5, <3>6
  <2> QED BY <1>4, <2>1, <2>2
<1>7. WindowInv'
  <2> SUFFICES ASSUME NEW k \in Keys
               PROVE  /\ counter'[k] > 0 => \E G \in SUBSET Calls, f \in Calls : OneWindow(k, G, f)'
                      /\ counter'[k] = 0 =>
                            /\ expires[k] = Never
                            /\ \A d \in Calls : ~(pc'[d] = "expire" /\ Key(d)' = k)
      BY <1>3 DEF WindowInv
  <2>1. CASE k = key
      BY <1>2, <1>4, <1>6, <2>1
  <2>2. CASE k # key
    <3>1. counter'[k] = counter[k] /\ \A d \in Calls : pc'[d] = "expire" /\ Key(d)' = k => pc[d] = "expire" /\ Key(d) = k
        BY <1>1, <1>2, <2>2
    <3>2. \A G \in SUBSET Calls, f \in Calls : OneWindow(k, G, f) => OneWindow(k, G, f)'
        BY <2>2, OtherWindow
    <3> QED BY <3>1, <3>2 DEF WindowInv
  <2> QED BY <2>1, <2>2
<1>8. OverIsRecent'
  <2> SUFFICES ASSUME NEW d \in Calls, pc'[d] = "over"
               PROVE  Limit < Cardinality(Recent(d)')
      BY DEF OverIsRecent
  <2>1. CASE d # c
    <3>1. pc[d] = "over" /\ Limit < Cardinality(Recent(d))
        BY <1>1, <2>1 DEF OverIsRecent
    <3>2. Cardinality(Recent(d)) <= Cardinality(Recent(d)') /\ Cardinality(Recent(d)) \in Nat
        BY <1>1, <2>1, <3>1, RecentGrows
    <3>3. Recent(d)' \in SUBSET Calls
        BY DEF Recent
    <3> QED BY <3>1, <3>2, <3>3, Sizes, Constants
  <2>2. CASE d = c
    <3>1. PICK G \in SUBSET Calls, f \in Calls :
              /\ OneWindow(key, G, f)'
              /\ now < sentAt'[f] + TTL + MaxDelay
        BY <1>6
    <3>2. ASSUME NEW e \in G
          PROVE  e \in Recent(c)'
      <4>1. e \in Sent(key)' /\ sentAt'[f] <= sentAt'[e] /\ f \in Sent(key)'
          BY <3>1, <3>2 DEF OneWindow
      <4>2. Key(e)' = key /\ Key(c)' = key /\ sentAt'[e] <= now /\ sentAt'[e] \in Nat /\ sentAt'[f] \in Nat
          BY <1>2, <1>3, <4>1, SentTimes DEF Sent
      <4>3. now < sentAt'[e] + TTL + MaxDelay
          BY <1>3, <3>1, <4>1, <4>2
      <4> QED BY <1>2, <1>3, <4>2, <4>3 DEF Recent
    <3>3. Recent(c)' \in SUBSET Calls /\ G \in SUBSET (Recent(c)')
        BY <3>2 DEF Recent
    <3>4. Cardinality(G) <= Cardinality(Recent(c)') /\ Cardinality(G) \in Nat /\ Cardinality(Recent(c)') \in Nat
        BY <3>3, SubsetSizes, Sizes
    <3>5. counter'[key] = Cardinality(G)
        BY <3>1 DEF OneWindow
    <3> QED BY <1>1, <1>4, <2>2, <3>4, <3>5, Constants
  <2> QED BY <2>1, <2>2
<1> QED BY <1>7, <1>8

LEMMA IncrStep ==
    ASSUME IInv, NEW c \in Calls, Incr(c) \/ IncrFails(c)
    PROVE  IInv'
<1>1. faults \in 0..MaxFaults /\ MaxFaults \in Nat
    BY Constants DEF IInv, TypeOK
<1>2. CASE Incr(c)
  <2>1. PICK n \in {1, 2} : Count(c, n) /\ (n = 1 => UNCHANGED faults) /\ (n = 2 => Fault)
      BY <1>2 DEF Incr
  <2>2. PICK to \in {"expire", "under", "over"} : to = AfterIncr(counter'[Key(c)]) /\ Go(c, "incr", to)
      BY <1>2 DEF Incr, AfterIncr, Verdict
  <2>3. UNCHANGED <<kind, now, start, expires, blind>>
      BY <1>2 DEF Incr
  <2>4. /\ faults' \in 0..MaxFaults /\ faults' >= faults /\ (n = 2 => faults' = faults + 1)
        /\ c \notin blind
      BY <1>1, <2>1, <2>2 DEF Fault, IInv, CallInv, Go
  <2>5. TypeOK' /\ CallInv' /\ CounterInv'
      BY <2>1, <2>2, <2>3, <2>4, IncrTypes
  <2>6. MinuteInv'
      BY <2>1, <2>2, <2>3, IncrMinute
  <2>7. WindowInv' /\ OverIsRecent'
    <3>1. CASE faults' = 0
      <4>1. n = 1 /\ faults = 0 /\ UNCHANGED faults
          BY <1>1, <2>1, <2>4, <3>1
      <4> QED BY <2>1, <2>2, <2>3, <4>1, IncrWindow
    <3>2. CASE faults' # 0
        BY <3>2 DEF WindowInv, OverIsRecent
    <3> QED BY <3>1, <3>2
  <2> QED BY <2>5, <2>6, <2>7 DEF IInv
<1>3. CASE IncrFails(c)
  <2>1. PICK n \in {0, 1} : Count(c, n)
      BY <1>3 DEF IncrFails
  <2>2. /\ Go(c, "incr", "under") /\ blind' = blind \cup {c} /\ faults' = faults + 1
        /\ faults' \in 0..MaxFaults /\ UNCHANGED <<kind, now, start, expires>>
      BY <1>1, <1>3 DEF IncrFails, Fault
  <2>3. TypeOK' /\ CallInv' /\ CounterInv'
      BY <1>1, <2>1, <2>2, IncrTypes
  <2>4. MinuteInv'
      BY <2>1, <2>2, IncrMinute
  <2>5. WindowInv' /\ OverIsRecent'
      BY <1>1, <2>2 DEF WindowInv, OverIsRecent
  <2> QED BY <2>3, <2>4, <2>5 DEF IInv
<1> QED BY <1>2, <1>3

-----------------------------------------------------------------------------
\* The invariant holds for any calls, limits, windows, clock and faults.
THEOREM Invariance == Spec => []IInv
<1>1. IInv /\ Next => IInv'
    BY ArriveStep, IncrStep, SetTTLStep, TickStep, BreakStep DEF Next
<1>2. ASSUME IInv, UNCHANGED vars
      PROVE  IInv'
  <2>1. UNCHANGED <<kind, now, pc, start, sentAt, counter, expires, faults, blind>>
      BY <1>2 DEF vars
  <2>2. TypeOK' /\ CallInv'
      BY <1>2, <2>1 DEF IInv, TypeOK, CallInv
  <2>3. \A k : Sent(k)' = Sent(k) /\ Passing(k)' = Passing(k)
      BY <2>1 DEF Sent, Passing, Key
  <2>4. CounterInv' /\ MinuteInv'
      BY <1>2, <2>1, <2>3 DEF IInv, CounterInv, MinuteInv, End
  <2>5. WindowInv'
    <3>1. \A k, G, f : OneWindow(k, G, f) => OneWindow(k, G, f)'
        BY <2>1, <2>3 DEF OneWindow, Key, TTL
    <3>2. \A d : Key(d)' = Key(d)
        BY <2>1 DEF Key
    <3> QED BY <1>2, <2>1, <3>1, <3>2 DEF IInv, WindowInv
  <2>6. OverIsRecent'
      BY <1>2, <2>1 DEF IInv, OverIsRecent, Recent, Key
  <2> QED BY <2>2, <2>4, <2>5, <2>6 DEF IInv
<1> QED BY InitInv, <1>1, <1>2, PTL DEF Spec

\* The counters stay within what was asked and repeated, and a key that expires
\* has a count and lies ahead.
THEOREM TypeCorrect == Spec => []TypeOK
<1>1. IInv => TypeOK
    BY DEF IInv
<1> QED BY Invariance, <1>1, PTL

\* No more requests of a minute pass than the limit, but for those that Redis did
\* not count (handlers.go:38-86), whatever is late, repeated, lost or cut off.
THEOREM LimitIsKept == Spec => []LimitKept
<1>1. ASSUME IInv
      PROVE  LimitKept
  <2> SUFFICES ASSUME kind = "rate", NEW k \in Keys
               PROVE  Cardinality({c \in Calls : pc[c] = "under" /\ Key(c) = k})
                          <= Limit + Cardinality(blind)
      BY DEF LimitKept
  <2> DEFINE under == {c \in Calls : pc[c] = "under" /\ Key(c) = k}
  <2>1. /\ Passing(k) \in SUBSET Calls /\ blind \in SUBSET Calls
        /\ under \in SUBSET (Passing(k) \cup blind)
      BY <1>1 DEF Passing, IInv, TypeOK
  <2>2. Cardinality(under) <= Cardinality(Passing(k) \cup blind) /\ Cardinality(under) \in Nat
      BY <2>1, SubsetSizes, Sizes
  <2>3. /\ Cardinality(Passing(k) \cup blind)
             = Cardinality(Passing(k)) + Cardinality(blind) - Cardinality(Passing(k) \cap blind)
        /\ Cardinality(Passing(k)) \in Nat /\ Cardinality(blind) \in Nat
        /\ Cardinality(Passing(k) \cap blind) \in Nat
      BY <2>1, Sizes, FS_Union
  <2>4. Cardinality(Passing(k)) <= Limit
      BY <1>1 DEF IInv, MinuteInv
  <2> HIDE DEF under
  <2>5. Cardinality(under) <= Limit + Cardinality(blind)
      BY <2>2, <2>3, <2>4, Constants
  <2> QED BY <2>5 DEF under
<1> QED BY Invariance, <1>1, PTL

\* Nothing is refused or called a retry loop, unless a command was lost, that was
\* not repeated more often than the limit within its window (engine.go:121-161).
THEOREM NoFalseAlarm == Spec => []OverIsRecent
<1>1. IInv => OverIsRecent
    BY DEF IInv
<1> QED BY Invariance, <1>1, PTL
-----------------------------------------------------------------------------
(* Spans of a window's length.                                             *)

LEMMA PassingTimes ==
    ASSUME IInv, NEW c \in Passing(0)
    PROVE  c \in Calls /\ sentAt[c] \in 0..now /\ sentAt[c] # Never /\ c \notin blind
<1>1. c \in Calls /\ c \notin blind /\ pc[c] \in {"under", "expire"}
    BY DEF Passing
<1>2. sentAt[c] # Never
    BY <1>1 DEF IInv, CallInv
<1> QED BY <1>1, <1>2, SentTimes

LEMMA SpanSizes ==
    \A s : /\ Cardinality(After(s)) \in Nat /\ Cardinality(Since(s)) \in Nat
           /\ Cardinality(Before(s)) \in Nat /\ Cardinality(Span(s)) \in Nat
<1>1. \A s : /\ After(s) \in SUBSET Calls /\ Since(s) \in SUBSET Calls
             /\ Before(s) \in SUBSET Calls /\ Span(s) \in SUBSET Calls
    BY DEF After, Since, Before, Span, Passing
<1> QED BY <1>1, Sizes

LEMMA SpanSizesNext ==
    \A s : /\ Cardinality(After(s)') \in Nat /\ Cardinality(Since(s)') \in Nat
           /\ Cardinality(Before(s)') \in Nat /\ Cardinality(Span(s)') \in Nat
<1>1. \A s : /\ After(s)' \in SUBSET Calls /\ Since(s)' \in SUBSET Calls
             /\ Before(s)' \in SUBSET Calls /\ Span(s)' \in SUBSET Calls
    BY DEF After, Since, Before, Span, Passing
<1> QED BY <1>1, Sizes

\* A step that lets no more calls pass leaves no more in any span.
LEMMA SpansShrink ==
    ASSUME kind' = kind, \A c \in Passing(0)' : c \in Passing(0) /\ sentAt'[c] = sentAt[c],
           NEW s
    PROVE  /\ Cardinality(After(s)') <= Cardinality(After(s))
           /\ Cardinality(Since(s)') <= Cardinality(Since(s))
           /\ Cardinality(Before(s)') <= Cardinality(Before(s))
           /\ Cardinality(Span(s)') <= Cardinality(Span(s))
<1>1. /\ After(s) \in SUBSET Calls /\ Since(s) \in SUBSET Calls
      /\ Before(s) \in SUBSET Calls /\ Span(s) \in SUBSET Calls
    BY DEF After, Since, Before, Span, Passing
<1>2. /\ After(s)' \in SUBSET After(s) /\ Since(s)' \in SUBSET Since(s)
      /\ Before(s)' \in SUBSET Before(s) /\ Span(s)' \in SUBSET Span(s)
    BY DEF After, Since, Before, Span, TTL
<1> QED BY <1>1, <1>2, SubsetSizes

LEMMA RetryFacts ==
    ASSUME IInv, kind = "retry"
    PROVE  /\ 0 \in Keys /\ \A c \in Calls : Key(c) = 0
           /\ counter[0] \in Nat /\ expires[0] \in Nat
           /\ TTL \in Nat \ {0} /\ TTL = Window[kind] /\ Limit \in Nat \ {0}
           /\ now \in Nat /\ now <= MaxTime /\ MaxTime \in Nat /\ Never \in Nat
<1>1. MaxTime \div Minute \in Nat
    BY Constants, Division
<1>2. 0 \in Keys
    BY <1>1 DEF Keys
<1>3. \A c \in Calls : Key(c) = 0
    BY DEF Key
<1> QED BY <1>2, <1>3, Constants DEF IInv, TypeOK, CounterInv, TTL

\* Neither the clock nor the counter moves, and the key lives as long or from now
\* for a whole window.
LEMMA QuietSpans ==
    ASSUME IInv, SpanInv, UNCHANGED <<kind, now>>,
           \A c \in Passing(0)' : c \in Passing(0) /\ sentAt'[c] = sentAt[c],
           kind = "retry" => /\ counter'[0] = counter[0]
                             /\ expires'[0] \in {expires[0], now + TTL}
    PROVE  SpanInv'
<1> SUFFICES ASSUME kind = "retry" PROVE SpanInv'
    BY DEF SpanInv
<1>1. Window[kind'] = Window[kind] /\ TTL' = TTL /\ Never' = Never
    BY DEF TTL, Never
<1>2. ASSUME NEW s \in 0..now, OpenSince(s)
      PROVE  OpenSince(s)'
  <2>1. expires'[0] = Never \/ expires'[0] >= s + TTL
      BY <1>2, RetryFacts DEF OpenSince
  <2> QED BY <1>1, <1>2, <2>1, SpansShrink, SpanSizes, SpanSizesNext, RetryFacts DEF OpenSince
<1>3. counter'[0] > 0 => \E s \in 0..now : OpenSince(s)'
    BY <1>2 DEF SpanInv
<1>4. counter'[0] = 0 =>
          /\ \A c \in Passing(0)' : sentAt'[c] < now
          /\ Cardinality(Before(now)') < Limit
    BY SpansShrink, SpanSizes, SpanSizesNext, RetryFacts DEF SpanInv
<1>5. \A t \in 0..MaxTime : Cardinality(Span(t)') <= 2 * Limit - 1
    BY SpansShrink, SpanSizes, SpanSizesNext, RetryFacts DEF SpanInv
<1> QED BY <1>3, <1>4, <1>5 DEF SpanInv

\* Time passes: when the key expires, its first call is a window ago.
LEMMA TickSpans ==
    ASSUME IInv, SpanInv, Tick
    PROVE  SpanInv'
<1> SUFFICES ASSUME kind = "retry" PROVE SpanInv'
    BY DEF SpanInv, Tick
<1>1. /\ now' = now + 1 /\ UNCHANGED <<kind, pc, start, sentAt, faults, blind>>
      /\ expires[0] = now' => counter'[0] = 0 /\ expires'[0] = Never
      /\ expires[0] # now' => counter'[0] = counter[0] /\ expires'[0] = expires[0]
    BY RetryFacts DEF Tick
<1>2. Passing(0)' = Passing(0) /\ TTL' = TTL /\ Never' = Never
    BY <1>1 DEF Passing, Key, TTL, Never
<1>3. \A s : /\ After(s)' = After(s) /\ Since(s)' = Since(s) /\ Span(s)' = Span(s)
    BY <1>1, <1>2 DEF After, Since, Span
<1>4. /\ \A s : Before(s)' = Before(s)
      /\ Before(now)' = {c \in Passing(0) : sentAt[c] < now' /\ now' < sentAt[c] + TTL}
    BY <1>1, <1>2 DEF Before
<1>5. ASSUME counter'[0] > 0
      PROVE  \E s \in 0..now' : OpenSince(s)'
  <2>1. counter'[0] = counter[0] /\ expires'[0] = expires[0]
      BY <1>1, <1>5
  <2>2. PICK s \in 0..now : OpenSince(s)
      BY <1>5, <2>1 DEF SpanInv
  <2>3. s \in 0..now' /\ Before(s)' = Before(s)
      BY <1>1, <1>4, <2>2, RetryFacts
  <2> QED BY <1>2, <1>3, <2>1, <2>2, <2>3 DEF OpenSince
<1>6. ASSUME counter'[0] = 0
      PROVE  Cardinality(Before(now)') < Limit
  <2>1. CASE counter[0] = 0
    <3>1. Before(now) \in SUBSET Calls
        BY DEF Before, Passing
    <3>2. ASSUME NEW c \in Passing(0), now' < sentAt[c] + TTL
          PROVE  c \in Before(now)
      <4>1. sentAt[c] \in Nat /\ sentAt[c] < now
          BY <2>1, <3>2, PassingTimes, RetryFacts DEF SpanInv
      <4>2. now < sentAt[c] + TTL
          BY <1>1, <3>2, <4>1, RetryFacts
      <4> QED BY <4>1, <4>2 DEF Before
    <3>3. Before(now)' \in SUBSET Before(now)
        BY <1>4, <3>2
    <3>4. Cardinality(Before(now)') <= Cardinality(Before(now))
        BY <3>1, <3>3, SubsetSizes
    <3>5. Cardinality(Before(now)) \in Nat /\ Cardinality(Before(now)') \in Nat
        BY <3>1, <3>3, Sizes
    <3> QED BY <2>1, <3>4, <3>5, RetryFacts DEF SpanInv
  <2>2. CASE counter[0] > 0
    <3>1. expires[0] = now'
        BY <1>1, <1>6, <2>2, RetryFacts
    <3>2. PICK s \in 0..now : OpenSince(s)
        BY <2>2 DEF SpanInv
    <3>3. now' >= s + TTL
      <4>1. now' # Never
          BY <1>1, Constants, RetryFacts DEF Tick
      <4> QED BY <3>1, <3>2, <4>1 DEF OpenSince
    <3>4. Before(now)' \in SUBSET After(s) /\ After(s) \in SUBSET Calls
      <4>1. ASSUME NEW c \in Before(now)'
            PROVE  c \in After(s)
        <5>1. c \in Passing(0) /\ sentAt[c] \in Nat /\ now' < sentAt[c] + TTL
            BY <1>4, <4>1, PassingTimes
        <5>2. sentAt[c] > s
            BY <1>1, <3>3, <5>1, RetryFacts
        <5> QED BY <5>1, <5>2 DEF After
      <4> QED BY <4>1 DEF After, Passing
    <3>5. Cardinality(Before(now)') <= Cardinality(After(s))
        BY <3>4, SubsetSizes
    <3>6. Before(now)' \in SUBSET Calls
        BY <3>4
    <3>7. Cardinality(Before(now)') \in Nat
        BY <3>6, Sizes
    <3> QED BY <3>2, <3>5, <3>7, SpanSizes, RetryFacts DEF OpenSince
  <2> QED BY <2>1, <2>2, RetryFacts
<1>7. \A c \in Passing(0)' : sentAt'[c] < now'
    BY <1>1, <1>2, PassingTimes, RetryFacts
<1> QED BY <1>1, <1>3, <1>5, <1>6, <1>7 DEF SpanInv

\* An INCR: its call is in the window that is open, or begins one.
LEMMA IncrSpans ==
    ASSUME IInv, SpanInv, NEW c \in Calls, NEW n \in 1..2, Count(c, n),
           NEW to \in {"expire", "under", "over"}, Go(c, "incr", to),
           UNCHANGED <<kind, now, start, expires>>,
           \/ blind' = blind \cup {c}
           \/ to = AfterIncr(counter'[Key(c)]) /\ UNCHANGED blind
    PROVE  SpanInv'
<1> SUFFICES ASSUME kind = "retry" PROVE SpanInv'
    BY DEF SpanInv
<1>1. /\ pc[c] = "incr" /\ pc'[c] = to /\ \A d \in Calls \ {c} : pc'[d] = pc[d]
      /\ \A d \in Calls \ {c} : d \in blind' <=> d \in blind
    BY DEF Go, IInv, TypeOK
<1>2. /\ counter'[0] = counter[0] + n /\ sentAt'[c] = now
      /\ \A d \in Calls \ {c} : sentAt'[d] = sentAt[d]
      /\ \A d \in Calls : Key(d)' = 0
    BY <1>1, IncrCounts, RetryFacts
<1>3. TTL' = TTL /\ Never' = Never
    BY DEF TTL, Never
<1>4. \A d \in Passing(0)' : d = c \/ (d \in Passing(0) /\ sentAt'[d] = sentAt[d])
    BY <1>1, <1>2, RetryFacts DEF Passing
<1>5. c \in Passing(0)' => counter'[0] <= Limit
    BY <1>1, <1>2, RetryFacts DEF Passing, AfterIncr, Verdict
\* The sets that the call may be added to.
<1>6. ASSUME NEW s \in 0..now
      PROVE  /\ After(s)' \subseteq After(s) \cup {c} /\ Since(s)' \subseteq Since(s) \cup {c}
             /\ Before(s)' \subseteq Before(s)
             /\ c \notin Passing(0)' => After(s)' \subseteq After(s) /\ Since(s)' \subseteq Since(s)
             /\ s = now => After(s)' = {}
  <2>1. \A d \in Passing(0)' : sentAt'[d] \in Nat /\ sentAt'[d] <= now
    <3>1. \A d \in Passing(0) : sentAt[d] \in Nat /\ sentAt[d] <= now
        BY PassingTimes, RetryFacts
    <3> QED BY <1>2, <1>4, <3>1, RetryFacts
  <2>2. /\ After(s)' \subseteq After(s) \cup {c} /\ Since(s)' \subseteq Since(s) \cup {c}
        /\ c \notin Passing(0)' => After(s)' \subseteq After(s) /\ Since(s)' \subseteq Since(s)
      BY <1>4 DEF After, Since
  <2>3. Before(s)' \subseteq Before(s)
    <3>1. ASSUME NEW d \in Before(s)'
          PROVE  d \in Before(s)
      <4>1. d \in Passing(0)' /\ sentAt'[d] < s /\ s < sentAt'[d] + TTL
          BY <1>3 DEF Before
      <4>2. d # c
          BY <1>2, <4>1, RetryFacts
      <4> QED BY <1>4, <4>1, <4>2 DEF Before
    <3> QED BY <3>1
  <2>4. s = now => After(s)' = {}
      BY <2>1, RetryFacts DEF After
  <2> QED BY <2>2, <2>3, <2>4
<1>7. ASSUME NEW S \in SUBSET Calls, NEW T \in SUBSET Calls, T \subseteq S \cup {c}
      PROVE  Cardinality(T) <= Cardinality(S) + 1
  <2>1. IsFiniteSet(S) /\ Cardinality(S) \in Nat /\ Cardinality(T) \in Nat
      BY Sizes
  <2>2. S \cup {c} \in SUBSET Calls /\ T \in SUBSET (S \cup {c})
      BY <1>7
  <2>3. Cardinality(T) <= Cardinality(S \cup {c}) /\ Cardinality(S \cup {c}) \in Nat
      BY <2>2, SubsetSizes, Sizes
  <2>4. Cardinality(S \cup {c}) <= Cardinality(S) + 1
    <3>1. Cardinality(S \cup {c}) = IF c \in S THEN Cardinality(S) ELSE Cardinality(S) + 1
        BY <2>1, FS_AddElement
    <3> QED BY <2>1, <3>1
  <2> QED BY <2>1, <2>3, <2>4
<1>8. \A s : /\ After(s) \in SUBSET Calls /\ Since(s) \in SUBSET Calls /\ Before(s) \in SUBSET Calls
             /\ After(s)' \in SUBSET Calls /\ Since(s)' \in SUBSET Calls /\ Before(s)' \in SUBSET Calls
    BY DEF After, Since, Before, Passing
<1>9. PICK s \in 0..now : OpenSince(s)'
  <2>1. CASE counter[0] = 0
    <3>1. Since(now) = {} /\ Cardinality(Before(now)) < Limit
        BY <2>1, PassingTimes, RetryFacts DEF SpanInv, Since
    <3>2. Cardinality({}) = 0
        BY FS_EmptySet
    <3>3. now \in 0..now
        BY RetryFacts
    <3>4. Cardinality(After(now)') = 0 /\ Cardinality(Since(now)') <= 1
        BY <1>6, <1>7, <1>8, <3>1, <3>2, <3>3, SpanSizesNext
    <3>5. Cardinality(Before(now)') <= Cardinality(Before(now))
        BY <1>6, <1>8, <3>3, SubsetSizes
    <3>6. expires[0] = Never \/ expires[0] >= now + TTL
        BY <2>1, RetryFacts DEF IInv, TypeOK
    <3>7. OpenSince(now)'
        BY <1>2, <1>3, <2>1, <3>1, <3>4, <3>5, <3>6, SpanSizes, SpanSizesNext, RetryFacts DEF OpenSince
    <3> QED BY <3>3, <3>7
  <2>2. CASE counter[0] > 0
    <3>1. PICK s \in 0..now : OpenSince(s)
        BY <2>2 DEF SpanInv
    <3>2. Cardinality(Before(s)') <= Cardinality(Before(s))
        BY <1>6, <1>8, SubsetSizes
    <3>3. CASE c \in Passing(0)'
      <4>1. /\ Cardinality(After(s)') <= Cardinality(After(s)) + 1
            /\ Cardinality(Since(s)') <= Cardinality(Since(s)) + 1
          BY <1>6, <1>7, <1>8
      <4> QED BY <1>2, <1>3, <1>5, <3>1, <3>2, <3>3, <4>1, SpanSizes, SpanSizesNext, RetryFacts
              DEF OpenSince
    <3>4. CASE c \notin Passing(0)'
      <4>1. /\ Cardinality(After(s)') <= Cardinality(After(s))
            /\ Cardinality(Since(s)') <= Cardinality(Since(s))
          BY <1>6, <1>8, <3>4, SubsetSizes
      <4> QED BY <1>2, <1>3, <3>1, <3>2, <4>1, SpanSizes, SpanSizesNext, RetryFacts DEF OpenSince
    <3> QED BY <3>3, <3>4
  <2> QED BY <2>1, <2>2, RetryFacts
\* A span that has not seen the call is as it was; one that has, holds calls of the
\* open window and of the one before it, but not the first of both.
<1>10. ASSUME NEW t \in 0..MaxTime
       PROVE  Cardinality(Span(t)') <= 2 * Limit - 1
  <2>1. CASE c \notin Span(t)'
    <3>1. Span(t)' \in SUBSET Span(t) /\ Span(t) \in SUBSET Calls
        BY <1>4, <2>1 DEF Span, Passing
    <3>2. Cardinality(Span(t)') <= Cardinality(Span(t))
        BY <3>1, SubsetSizes
    <3> QED BY <3>2, SpanSizes, SpanSizesNext, RetryFacts DEF SpanInv
  <2>2. CASE c \in Span(t)'
    <3>1. t <= now /\ now < t + TTL
        BY <1>2, <2>2, RetryFacts DEF Span
    <3>2. Span(t)' \in SUBSET (Before(s)' \cup Since(s)')
      <4> SUFFICES ASSUME NEW d \in Span(t)' PROVE d \in Before(s)' \cup Since(s)'
          OBVIOUS
      <4>1. d \in Passing(0)' /\ t <= sentAt'[d] /\ sentAt'[d] \in Nat
          BY <1>2, <1>4, PassingTimes, RetryFacts DEF Span
      <4>2. sentAt'[d] < s => s < sentAt'[d] + TTL
          BY <3>1, <4>1, RetryFacts
      <4> QED BY <1>3, <4>1, <4>2 DEF Before, Since
    <3>3. Cardinality(Before(s)' \cup Since(s)') <= Cardinality(Before(s)') + Cardinality(Since(s)')
      <4>1. IsFiniteSet(Before(s)') /\ IsFiniteSet(Since(s)')
          BY <1>8, Sizes
      <4>2. Before(s)' \cap Since(s)' \in SUBSET Calls
          BY <1>8
      <4>3. Cardinality(Before(s)' \cap Since(s)') \in Nat
          BY <4>2, Sizes
      <4>4. Cardinality(Before(s)' \cup Since(s)')
                = Cardinality(Before(s)') + Cardinality(Since(s)') - Cardinality(Before(s)' \cap Since(s)')
          BY <4>1, FS_Union
      <4>5. Cardinality(Before(s)') \in Nat /\ Cardinality(Since(s)') \in Nat
          BY SpanSizesNext
      <4> QED BY <4>3, <4>4, <4>5
    <3>4. Before(s)' \cup Since(s)' \in SUBSET Calls
        BY <1>8
    <3>5. Cardinality(Span(t)') <= Cardinality(Before(s)' \cup Since(s)')
        BY <3>2, <3>4, SubsetSizes
    <3>6. Cardinality(Before(s)' \cup Since(s)') \in Nat
        BY <3>4, Sizes
    <3> QED BY <1>9, <3>3, <3>5, <3>6, SpanSizesNext, RetryFacts DEF OpenSince
  <2> QED BY <2>1, <2>2
<1> QED BY <1>2, <1>9, <1>10, RetryFacts DEF SpanInv

LEMMA SpanStep == IInv /\ SpanInv /\ [Next]_vars => SpanInv'
<1> SUFFICES ASSUME IInv, SpanInv, [Next]_vars PROVE SpanInv'
    OBVIOUS
<1>1. CASE UNCHANGED vars
  <2>1. UNCHANGED <<kind, now, pc, start, sentAt, counter, expires, blind>>
      BY <1>1 DEF vars
  <2>2. Passing(0)' = Passing(0)
      BY <2>1 DEF Passing, Key
  <2> QED BY <2>1, <2>2, QuietSpans
<1>2. CASE Tick
    BY <1>2, TickSpans
<1>3. CASE Break
  <2>1. UNCHANGED <<kind, now, start, sentAt, counter, expires, blind>>
      BY <1>3 DEF Break
  <2>2. \A c \in Calls : pc'[c] = pc[c] \/ pc'[c] = "lost"
      BY <1>3 DEF Break
  <2>3. \A c \in Passing(0)' : c \in Passing(0)
      BY <2>1, <2>2 DEF Passing, Key
  <2> QED BY <2>1, <2>3, QuietSpans
<1>4. ASSUME NEW c \in Calls, Arrive(c)
      PROVE  SpanInv'
  <2>1. UNCHANGED <<kind, now, sentAt, counter, expires, blind>>
      BY <1>4 DEF Arrive
  <2>2. \A d \in Passing(0)' : d \in Passing(0)
      BY <1>4 DEF Arrive, Go, Passing, Key, IInv, TypeOK
  <2> QED BY <2>1, <2>2, QuietSpans
<1>5. ASSUME NEW c \in Calls, SetTTL(c)
      PROVE  SpanInv'
  <2>1. UNCHANGED <<kind, now, start, sentAt, counter, blind>> /\ Go(c, "expire", Verdict(1))
      BY <1>5 DEF SetTTL
  <2>2. \A d \in Passing(0)' : d \in Passing(0)
      BY <2>1 DEF Go, Passing, Key, IInv, TypeOK
  <2>3. kind = "retry" => expires'[0] \in {expires[0], now + TTL}
      BY <1>5, RetryFacts DEF SetTTL, IInv, CounterInv
  <2> QED BY <2>1, <2>2, <2>3, QuietSpans
<1>6. ASSUME NEW c \in Calls, Incr(c)
      PROVE  SpanInv'
  <2>1. PICK n \in 1..2 : Count(c, n)
      BY <1>6 DEF Incr
  <2>2. PICK to \in {"expire", "under", "over"} : to = AfterIncr(counter'[Key(c)]) /\ Go(c, "incr", to)
      BY <1>6 DEF Incr, AfterIncr, Verdict
  <2> QED BY <1>6, <2>1, <2>2, IncrSpans DEF Incr
<1>7. ASSUME NEW c \in Calls, IncrFails(c)
      PROVE  SpanInv'
  <2>1. Go(c, "incr", "under") /\ blind' = blind \cup {c} /\ UNCHANGED <<kind, now, start, expires>>
      BY <1>7 DEF IncrFails
  <2>2. CASE Count(c, 1)
      BY <2>1, <2>2, IncrSpans
  <2>3. CASE Count(c, 0)
    <3>1. sentAt' = sentAt /\ (kind = "retry" => counter'[0] = counter[0])
      <4>1. pc[c] = "incr"
          BY <2>1 DEF Go
      <4>2. kind = "retry" => counter'[0] = counter[0]
          BY <2>1, <2>3, <4>1, IncrCounts, RetryFacts
      <4> QED BY <2>3, <4>2 DEF Count
    <3>2. \A d \in Passing(0)' : d \in Passing(0)
        BY <2>1, <3>1 DEF Go, Passing, Key, IInv, TypeOK
    <3> QED BY <2>1, <3>1, <3>2, QuietSpans
  <2> QED BY <1>7, <2>2, <2>3 DEF IncrFails
<1> QED BY <1>1, <1>2, <1>3, <1>4, <1>5, <1>6, <1>7 DEF Next

LEMMA SpanInit == Init => SpanInv
<1> SUFFICES ASSUME Init, kind = "retry" PROVE SpanInv
    BY DEF SpanInv
<1>1. Passing(0) = {}
    BY DEF Init, Passing
<1>2. \A s : Before(s) = {} /\ Span(s) = {}
    BY <1>1 DEF Before, Span
<1>3. 0 \in Keys
    BY InitInv, RetryFacts
<1>4. now = 0 /\ counter[0] = 0
    BY <1>3 DEF Init
<1>5. Cardinality({}) = 0 /\ 0 < Limit /\ 0 <= 2 * Limit - 1
    BY FS_EmptySet, Constants
<1>6. ~(counter[0] > 0)
    BY <1>4
<1>7. \A s : Cardinality(Span(s)) <= 2 * Limit - 1
    BY <1>2, <1>5
<1>8. \A s : Cardinality(Before(s)) < Limit
    BY <1>2, <1>5
<1> QED BY <1>1, <1>6, <1>7, <1>8 DEF SpanInv

\* In no span as long as the window do more calls of a step pass than twice the
\* threshold less one, and those that Redis did not count (engine.go:138-149):
\* a key without its TTL, an INCR sent twice or a worker cut off let through no
\* more, but fewer.
THEOREM BurstsAreBounded == Spec => []BurstBounded
<1>1. ASSUME IInv, SpanInv
      PROVE  BurstBounded
  <2> SUFFICES ASSUME kind = "retry", NEW t \in 0..MaxTime
               PROVE  Cardinality({c \in Calls : pc[c] = "under" /\ sentAt[c] \in t..(t + Window[kind] - 1)})
                          <= 2 * Limit - 1 + Cardinality(blind)
      BY DEF BurstBounded
  <2> DEFINE under == {c \in Calls : pc[c] = "under" /\ sentAt[c] \in t..(t + Window[kind] - 1)}
  <2>1. /\ under \in SUBSET (Span(t) \cup blind)
        /\ Span(t) \in SUBSET Calls /\ blind \in SUBSET Calls /\ Span(t) \cup blind \in SUBSET Calls
      BY <1>1, RetryFacts DEF Span, Passing, IInv, TypeOK
  <2>2. Cardinality(under) <= Cardinality(Span(t) \cup blind) /\ Cardinality(under) \in Nat
    <3>1. under \in SUBSET Calls
        OBVIOUS
    <3> QED BY <2>1, <3>1, SubsetSizes, Sizes
  <2>3. /\ Cardinality(Span(t) \cup blind)
             = Cardinality(Span(t)) + Cardinality(blind) - Cardinality(Span(t) \cap blind)
        /\ Cardinality(Span(t)) \in Nat /\ Cardinality(blind) \in Nat
        /\ Cardinality(Span(t) \cap blind) \in Nat
    <3>1. Span(t) \cap blind \in SUBSET Calls
        BY <2>1
    <3> QED BY <2>1, <3>1, Sizes, FS_Union
  <2>4. Cardinality(Span(t)) <= 2 * Limit - 1
      BY <1>1 DEF SpanInv
  <2> HIDE DEF under
  <2>5. Cardinality(under) <= 2 * Limit - 1 + Cardinality(blind)
      BY <2>2, <2>3, <2>4, Constants
  <2> QED BY <2>5 DEF under
<1> QED BY Invariance, SpanInit, SpanStep, <1>1, PTL DEF Spec
=============================================================================
