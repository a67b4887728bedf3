------------------------------- MODULE Windows -------------------------------
(***************************************************************************)
(* The two fixed-window counters that the gateway keeps in Redis with an   *)
(* INCR and, after the first of a window, an EXPIRE:                       *)
(*                                                                         *)
(*   "rate"   rateLimitMiddleware of cmd/gateway/handlers.go: one key per  *)
(*            feature and minute of the gateway's clock; a request over    *)
(*            the limit is refused;                                        *)
(*   "retry"  checkRetryLoop of internal/attribution/engine.go: one key    *)
(*            per user, feature and step; a request over the threshold is  *)
(*            logged as a retry loop.                                      *)
(*                                                                         *)
(* Time is discrete and bounded by MaxTime.  That the commands of a call   *)
(* reach Redis within MaxDelay of its start is an assumption: what the TTL *)
(* of 70 s for a key of 60 s allows for.                                   *)
(***************************************************************************)
EXTENDS Naturals, FiniteSets, FiniteSetsExt

CONSTANTS
    Calls,     \* requests of one feature; events of one step
    Kinds,     \* which of the two counters are looked at
    Minute,    \* units of time in a minute
    Window,    \* [kind -> TTL that the EXPIRE sets]
    Limit,     \* RateLimitRPM; retryLoopThreshold
    MaxDelay,  \* bound: how late a command may be
    MaxTime,   \* bound: the clock
    MaxFaults  \* bound: failed commands and crashes

ASSUME WindowsAssumption ==
    /\ Kinds \subseteq {"rate", "retry"}
    /\ Minute \in Nat \ {0} /\ Limit \in Nat \ {0}
    /\ \A k \in Kinds : Window[k] \in Nat \ {0}
    /\ "rate" \in Kinds => Window["rate"] >= Minute + MaxDelay
    /\ IsFiniteSet(Calls)
    /\ MaxDelay \in Nat /\ MaxTime \in Nat /\ MaxFaults \in Nat

VARIABLES
    kind,     \* the counter looked at
    now,
    pc,       \* control state of each call
    start,    \* when it began, by which its key is named
    sentAt,   \* history: when its INCR was executed
    counter,  \* Redis: the counters by key, 0 if there is no such key
    expires,  \* Redis: when the keys expire
    faults,
    blind     \* history: calls whose INCR failed

vars == <<kind, now, pc, start, sentAt, counter, expires, faults, blind>>

Never == MaxTime + 100
Keys  == 0..(MaxTime \div Minute)
Key(c) == IF kind = "rate" THEN start[c] \div Minute ELSE 0
Busy  == {c \in Calls : pc[c] \in {"incr", "expire"}}

TypeOK ==
    /\ kind \in Kinds
    /\ now \in 0..MaxTime
    /\ pc \in [Calls -> {"new", "incr", "expire", "under", "over", "lost"}]
    /\ start \in [Calls -> 0..MaxTime] /\ sentAt \in [Calls -> 0..MaxTime \cup {Never}]
    /\ counter \in [Keys -> 0..(Cardinality(Calls) + MaxFaults)]
    /\ \A k \in Keys : expires[k] = Never \/ (counter[k] > 0 /\ expires[k] > now)
    /\ faults \in 0..MaxFaults
    /\ blind \subseteq Calls

Init ==
    /\ kind \in Kinds
    /\ now = 0
    /\ pc = [c \in Calls |-> "new"]
    /\ start = [c \in Calls |-> 0]
    /\ sentAt = [c \in Calls |-> Never]
    /\ counter = [k \in Keys |-> 0]
    /\ expires = [k \in Keys |-> Never]
    /\ faults = 0 /\ blind = {}

Go(c, from, to) == pc[c] = from /\ pc' = [pc EXCEPT ![c] = to]
Fault == faults < MaxFaults /\ faults' = faults + 1

-----------------------------------------------------------------------------
\* A request with a limited feature, or an event with user, feature and step.
Arrive(c) ==
    /\ Go(c, "new", "incr")
    /\ start' = [start EXCEPT ![c] = now]
    /\ UNCHANGED <<kind, now, sentAt, counter, expires, faults, blind>>

\* Mutant: the limit is off by one.
VerdictLate(n) == IF n > Limit + 1 THEN "over" ELSE "under"

\* What comes of a call whose INCR has returned n.
Verdict(n) == IF n > Limit THEN "over" ELSE "under"

\* Mutant: the TTL is set by the call that passes the limit.
AfterIncrOver(n) == IF n = Limit + 1 THEN "expire" ELSE Verdict(n)

AfterIncr(n) == IF n = 1 THEN "expire" ELSE Verdict(n)

\* Mutant: every call is counted twice.
CountTwice(c, n) ==
    /\ counter' = [counter EXCEPT ![Key(c)] = @ + 2 * n]
    /\ sentAt' = IF n > 0 THEN [sentAt EXCEPT ![c] = now] ELSE sentAt

Count(c, n) ==
    /\ counter' = [counter EXCEPT ![Key(c)] = @ + n]
    /\ sentAt' = IF n > 0 THEN [sentAt EXCEPT ![c] = now] ELSE sentAt

\* INCR.  It may be sent twice by the client, when its first reply is lost.
Incr(c) ==
    /\ \/ Count(c, 1) /\ UNCHANGED faults
       \/ Count(c, 2) /\ Fault
    /\ Go(c, "incr", AfterIncr(counter'[Key(c)]))
    /\ UNCHANGED <<kind, now, start, expires, blind>>

\* It fails, with or without effect: the request is let through, the event is
\* not judged.
IncrFails(c) ==
    /\ Fault
    /\ Count(c, 0) \/ Count(c, 1)
    /\ Go(c, "incr", "under")
    /\ blind' = blind \cup {c}
    /\ UNCHANGED <<kind, now, start, expires>>

\* Mutant: a TTL of just the minute that the key is named by.
TTLOfMinute == Minute

TTL == Window[kind]

\* EXPIRE, when the INCR has returned 1.  Its error is ignored or logged.
SetTTL(c) ==
    /\ \/ /\ expires' = [expires EXCEPT ![Key(c)] = IF counter[Key(c)] > 0 THEN now + TTL ELSE @]
          /\ UNCHANGED faults
       \/ UNCHANGED expires /\ Fault
    /\ Go(c, "expire", Verdict(1))
    /\ UNCHANGED <<kind, now, start, sentAt, counter, blind>>

\* Time passes, and keys expire.  No call is left waiting longer than MaxDelay.
Tick ==
    /\ now < MaxTime /\ now' = now + 1
    /\ \A c \in Busy : now < start[c] + MaxDelay
    /\ counter' = [k \in Keys |-> IF expires[k] = now' THEN 0 ELSE counter[k]]
    /\ expires' = [k \in Keys |-> IF expires[k] = now' THEN Never ELSE expires[k]]
    /\ UNCHANGED <<kind, pc, start, sentAt, faults, blind>>

\* The gateway crashes, or the request's context is cancelled: its call ends.
Break ==
    /\ Fault
    /\ \E lost \in SUBSET Busy \ {{}} :
          pc' = [c \in Calls |-> IF c \in lost THEN "lost" ELSE pc[c]]
    /\ UNCHANGED <<kind, now, start, sentAt, counter, expires, blind>>

Next ==
    \/ \E c \in Calls : Arrive(c) \/ Incr(c) \/ IncrFails(c) \/ SetTTL(c)
    \/ Tick
    \/ Break

Spec == Init /\ [][Next]_vars

-----------------------------------------------------------------------------
\* The limit per minute of handlers.go:38-86: of the requests that arrive in
\* one minute no more than the limit pass, and those that Redis did not count.
\* It takes a key that outlives its minute by what a command may be late.
LimitKept ==
    kind = "rate" =>
        \A k \in Keys :
            Cardinality({c \in Calls : pc[c] = "under" /\ Key(c) = k}) <= Limit + Cardinality(blind)

\* No false alarm (engine.go:121-161), unless a command was lost: a request is
\* refused, or a step called a retry loop, only when more calls than the limit
\* were counted in the window that ends with it.  It takes a counter that is
\* given its TTL whenever it begins.
Recent(c) == {d \in Calls : /\ sentAt[d] <= sentAt[c]
                            /\ sentAt[c] < sentAt[d] + Window[kind] + MaxDelay
                            /\ Key(d) = Key(c)}
OverIsRecent ==
    faults = 0 => \A c \in Calls : pc[c] = "over" => Limit < Cardinality(Recent(c))

\* What a fixed window promises of any span as long as the window
\* (engine.go:138-149): it meets two windows at most, and never the call that
\* began the first of them together with the second.  A step which is repeated
\* twice the threshold within it is reported, if not by the call over it.
BurstBounded ==
    kind = "retry" =>
        \A t \in 0..MaxTime :
            Cardinality({c \in Calls : pc[c] = "under" /\ sentAt[c] \in t..(t + Window[kind] - 1)})
                <= 2 * Limit - 1 + Cardinality(blind)
=============================================================================
