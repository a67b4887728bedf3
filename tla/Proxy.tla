-------------------------------- MODULE Proxy --------------------------------
(***************************************************************************)
(* The gateway's request path: ServeHTTP of internal/proxy/handler.go with *)
(* the fallback manager (internal/fallback/manager.go) it calls.           *)
(*                                                                         *)
(* Requests share nothing but Redis, where each command is a step of its   *)
(* own.  The health keys are named by the provider and a cache entry by    *)
(* provider and body, so one provider and one body are enough.  Time is    *)
(* discrete: a Tick takes one unit off every TTL.  Without CACHE_ENABLED    *)
(* the cache is never consulted: the case where entries expire at once.    *)
(***************************************************************************)
EXTENDS Naturals

CONSTANTS
    Requests,          \* requests that may be in progress at once
    FailureThreshold,  \* failures that degrade a provider
    FailureWindow,     \* TTL of the failure counter
    Cooldown,          \* TTL of the degraded mark
    MaxFaults          \* bound: Redis commands that fail

ASSUME ProxyAssumption ==
    /\ FailureThreshold \in Nat \ {0}
    /\ FailureWindow \in Nat \ {0}
    /\ Cooldown \in Nat
    /\ FailureWindow <= Cooldown
    /\ MaxFaults \in Nat

VARIABLES
    fallbackOn, \* IsEnabled: a fallback provider is configured
    pc,         \* control state of each request
    primary,    \* what came of its call of the primary provider
    backup,     \* what came of its call of the fallback provider
    answer,     \* what its client gets
    failures,   \* Redis ajah:fallback:failures:<provider>, up to the threshold
    failTTL,    \* its TTL; 0 for none
    degTTL,     \* TTL of ajah:fallback:degraded:<provider>; 0 if there is no such key
    cache,      \* whose 200 response Redis cache:<hash> holds
    faults,     \* Redis commands that have failed
    blind,      \* those of them that were the gate's EXISTS
    ttlLost,    \* history: the counter has no TTL, its EXPIRE having been lost
    tripLost    \* history: the counter is full and the SET it calls for was lost

health == <<failures, failTTL, degTTL>>
owed == <<ttlLost, tripLost>>
vars == <<fallbackOn, pc, primary, backup, answer, health, cache, faults, blind, owed>>

PcState == {"new", "lookup", "gate", "primary", "count", "trip", "clear", "fallback",
            "store", "done"}
Answers == {"none", "refused", "hit", "badGateway", "primary", "fallback"}
\* A status is "degraded" if it is 429 or 5xx, "ok" if it is 200.
Statuses == {"ok", "other", "degraded"}
Good     == {"ok", "other"}

TypeOK ==
    /\ fallbackOn \in BOOLEAN
    /\ pc \in [Requests -> PcState]
    /\ primary \in [Requests -> Statuses \cup {"none", "skipped", "netErr", "readErr"}]
    /\ backup \in [Requests -> Statuses \cup {"none", "err"}]
    /\ answer \in [Requests -> Answers]
    /\ failures \in 0..FailureThreshold
    /\ failTTL \in 0..FailureWindow
    /\ degTTL \in 0..Cooldown
    /\ cache \in {"none", "primary", "fallback"}
    /\ faults \in 0..MaxFaults /\ blind \in 0..faults
    /\ ttlLost \in BOOLEAN /\ tripLost \in BOOLEAN

Degraded == degTTL > 0

Init ==
    /\ fallbackOn \in BOOLEAN
    /\ pc = [r \in Requests |-> "new"]
    /\ primary = [r \in Requests |-> "none"]
    /\ backup = [r \in Requests |-> "none"]
    /\ answer = [r \in Requests |-> "none"]
    /\ failures = 0 /\ failTTL = 0 /\ degTTL = 0
    /\ cache = "none"
    /\ faults = 0 /\ blind = 0
    /\ ttlLost = FALSE /\ tripLost = FALSE

Go(r, from, to) == pc[r] = from /\ pc' = [pc EXCEPT ![r] = to]
Fault == faults < MaxFaults /\ faults' = faults + 1
\* The handler returns with this answer.
Finish(r, from, a) == Go(r, from, "done") /\ answer' = [answer EXCEPT ![r] = a]

-----------------------------------------------------------------------------
(* Admission, the cache, the gate.                                         *)

\* A request is refused before anything is looked up (method, tripped circuit,
\* unknown API key, body unreadable or too large), or goes on.
Arrive(r) ==
    /\ \/ Finish(r, "new", "refused")
       \/ Go(r, "new", "lookup") /\ UNCHANGED answer
    /\ UNCHANGED <<fallbackOn, primary, backup, health, cache, faults, blind, owed>>

\* GET of the cache entry; an error counts as a miss.
Lookup(r) ==
    /\ \/ cache # "none" /\ Finish(r, "lookup", "hit") /\ UNCHANGED faults
       \/ cache = "none" /\ Go(r, "lookup", "gate") /\ UNCHANGED <<answer, faults>>
       \/ Fault /\ Go(r, "lookup", "gate") /\ UNCHANGED answer
    /\ UNCHANGED <<fallbackOn, primary, backup, health, cache, blind, owed>>

\* The security scan may block the prompt.
Block(r) ==
    /\ Finish(r, "gate", "refused")
    /\ UNCHANGED <<fallbackOn, primary, backup, health, cache, faults, blind, owed>>

\* Mutant: does not ask.
GateIgnoringMark(r) ==
    /\ Go(r, "gate", "primary")
    /\ UNCHANGED <<fallbackOn, primary, backup, answer, health, cache, faults, blind, owed>>

\* ShouldFallback: EXISTS of the degraded mark; an error counts as "no".
Gate(r) ==
    /\ \/ /\ fallbackOn /\ Degraded
          /\ Go(r, "gate", "fallback")
          /\ primary' = [primary EXCEPT ![r] = "skipped"]
          /\ UNCHANGED <<faults, blind>>
       \/ /\ ~fallbackOn \/ ~Degraded
          /\ Go(r, "gate", "primary")
          /\ UNCHANGED <<primary, faults, blind>>
       \/ /\ fallbackOn /\ Degraded
          /\ Fault /\ blind' = blind + 1
          /\ Go(r, "gate", "primary")
          /\ UNCHANGED primary
    /\ UNCHANGED <<fallbackOn, backup, answer, health, cache, owed>>

-----------------------------------------------------------------------------
(* The primary provider.                                                   *)

\* The call returns with a status, or fails: on the network (the http client's
\* timeout included), or while the body is read, which is answered by 502.
CallPrimary(r) ==
    /\ \E o \in Statuses \cup {"netErr", "readErr"} :
          /\ primary' = [primary EXCEPT ![r] = o]
          /\ \/ o = "readErr" /\ Finish(r, "primary", "badGateway")
             \/ o \in {"netErr", "degraded"}
                /\ Go(r, "primary", "count") /\ UNCHANGED answer
             \/ o \in Good /\ Go(r, "primary", "clear") /\ UNCHANGED answer
    /\ UNCHANGED <<fallbackOn, backup, health, cache, faults, blind, owed>>

\* What the handler does when RecordFailure returns.
AfterFailure(r, from) ==
    \/ fallbackOn /\ Go(r, from, "fallback") /\ UNCHANGED answer
    \/ ~fallbackOn /\ primary[r] = "netErr" /\ Finish(r, from, "badGateway")
    \/ ~fallbackOn /\ primary[r] = "degraded" /\ Go(r, from, "store")
       /\ answer' = [answer EXCEPT ![r] = "primary"]

Incremented == IF failures < FailureThreshold THEN failures + 1 ELSE failures

\* The caller does not learn of its INCR: what it does not do about the counter.
Swallowed ==
    /\ ttlLost' = (failures' > 0 /\ failTTL' = 0)
    /\ tripLost' = (tripLost \/ failures' = FailureThreshold)

\* Mutant: no EXPIRE.
CountWithoutTTL(r) ==
    /\ fallbackOn
    /\ failures' = Incremented
    /\ Go(r, "count", IF Incremented >= FailureThreshold THEN "trip" ELSE "fallback")
    /\ UNCHANGED <<fallbackOn, primary, backup, answer, failTTL, degTTL, cache, faults, blind, owed>>

\* RecordFailure's pipeline: INCR and EXPIRE of the counter.  It may break off
\* before or after the INCR.
Count(r) ==
    /\ \/ /\ ~fallbackOn
          /\ AfterFailure(r, "count")
          /\ UNCHANGED <<failures, failTTL, faults, owed>>
       \/ /\ fallbackOn
          /\ failures' = Incremented
          /\ failTTL' = FailureWindow
          /\ Go(r, "count", IF Incremented >= FailureThreshold THEN "trip" ELSE "fallback")
          /\ ttlLost' = FALSE
          /\ UNCHANGED <<answer, faults, tripLost>>
       \/ /\ fallbackOn /\ Fault
          /\ failures' \in {failures, Incremented}
          /\ UNCHANGED failTTL
          /\ Swallowed
          /\ AfterFailure(r, "count")
    /\ UNCHANGED <<fallbackOn, primary, backup, degTTL, cache, blind>>

\* The reply of the pipeline is lost after the INCR or after the EXPIRE, and
\* go-redis sends it again: this failure will be counted once more.
Resend(r) ==
    /\ fallbackOn /\ pc[r] = "count" /\ Fault
    /\ failures' = Incremented
    /\ failTTL' \in {failTTL, FailureWindow}
    /\ Swallowed
    /\ UNCHANGED <<fallbackOn, pc, primary, backup, answer, degTTL, cache, blind>>

\* Mutant: the mark has no TTL that time could take away.
TripForGood(r) ==
    /\ Go(r, "trip", "fallback")
    /\ degTTL' = Cooldown + 1
    /\ UNCHANGED <<fallbackOn, primary, backup, answer, failures, failTTL, cache, faults, blind, owed>>

\* A SET is not made.
TripSkipped == tripLost' = (tripLost \/ failures = FailureThreshold)

\* RecordFailure's SET of the degraded mark.
Trip(r) ==
    /\ \/ degTTL' = Cooldown /\ tripLost' = FALSE /\ UNCHANGED faults
       \/ Fault /\ TripSkipped /\ UNCHANGED degTTL
    /\ Go(r, "trip", "fallback")
    /\ UNCHANGED <<fallbackOn, primary, backup, answer, failures, failTTL, cache, blind, ttlLost>>

\* The counter is gone, and nothing is owed to it.
Forgotten == failures' = 0 /\ failTTL' = 0 /\ ttlLost' = FALSE /\ tripLost' = FALSE

\* RecordSuccess: DEL of the counter.
Clear(r) ==
    /\ \/ fallbackOn /\ Forgotten /\ UNCHANGED faults
       \/ ~fallbackOn /\ UNCHANGED <<failures, failTTL, faults, owed>>
       \/ fallbackOn /\ Fault /\ UNCHANGED <<failures, failTTL, owed>>
    /\ Go(r, "clear", "store")
    /\ answer' = [answer EXCEPT ![r] = "primary"]
    /\ UNCHANGED <<fallbackOn, primary, backup, degTTL, cache, blind>>

-----------------------------------------------------------------------------
(* The fallback provider, the answer.                                      *)

\* Mutant: only a 200 of the fallback replaces the primary's answer.
CallFallbackStrictly(r) ==
    /\ \E o \in Statuses \cup {"err"} :
          /\ backup' = [backup EXCEPT ![r] = o]
          /\ \/ primary[r] = "degraded" /\ Go(r, "fallback", "store")
                /\ answer' = [answer EXCEPT ![r] = IF o = "ok" THEN "fallback" ELSE "primary"]
             \/ primary[r] # "degraded"
                /\ Finish(r, "fallback", IF o = "err" THEN "badGateway" ELSE "fallback")
    /\ UNCHANGED <<fallbackOn, primary, health, cache, faults, blind, owed>>

\* Execute.  After a degraded status of the primary the fallback's response is
\* used if it is better; after a network error, or when the gate kept the
\* request from the primary, it is used whatever its status, and not cached.
CallFallback(r) ==
    /\ \E o \in Statuses \cup {"err"} :
          /\ backup' = [backup EXCEPT ![r] = o]
          /\ \/ primary[r] = "degraded" /\ Go(r, "fallback", "store")
                /\ answer' = [answer EXCEPT ![r] = IF o \in Good THEN "fallback" ELSE "primary"]
             \/ primary[r] # "degraded"
                /\ Finish(r, "fallback", IF o = "err" THEN "badGateway" ELSE "fallback")
    /\ UNCHANGED <<fallbackOn, primary, health, cache, faults, blind, owed>>

UsedFallback(r) == answer[r] = "fallback"
Is200(r) == IF UsedFallback(r) THEN backup[r] = "ok" ELSE primary[r] = "ok"

\* SET of the cache entry, for status 200 only and with the error ignored; then
\* the answer is written and the event spawned.
Store(r) ==
    /\ Go(r, "store", "done")
    /\ \/ /\ Is200(r)
          /\ cache' = IF UsedFallback(r) THEN "fallback" ELSE "primary"
          /\ UNCHANGED faults
       \/ ~Is200(r) /\ UNCHANGED <<cache, faults>>
       \/ Is200(r) /\ Fault /\ UNCHANGED cache
    /\ UNCHANGED <<fallbackOn, primary, backup, answer, health, blind, owed>>

-----------------------------------------------------------------------------
(* The environment.                                                        *)

\* The client disconnects: the request's context is cancelled, so every further
\* call that its handler makes fails without effect, and what the handler writes
\* reaches nobody.  The handler's remaining steps are left out, and what it had
\* from the providers is forgotten.
Leave(r) ==
    /\ pc[r] \notin {"new", "done"}
    /\ pc' = [pc EXCEPT ![r] = "done"]
    /\ primary' = [primary EXCEPT ![r] = "none"]
    /\ backup' = [backup EXCEPT ![r] = "none"]
    /\ answer' = [answer EXCEPT ![r] = "none"]
    /\ \/ pc[r] = "trip" /\ TripSkipped
       \/ pc[r] # "trip" /\ UNCHANGED tripLost
    /\ UNCHANGED <<fallbackOn, health, cache, faults, blind, ttlLost>>

\* Another request takes the place of one that is done: there is no end of them.
Again(r) ==
    /\ Go(r, "done", "new")
    /\ primary' = [primary EXCEPT ![r] = "none"]
    /\ backup' = [backup EXCEPT ![r] = "none"]
    /\ answer' = [answer EXCEPT ![r] = "none"]
    /\ UNCHANGED <<fallbackOn, health, cache, faults, blind, owed>>

\* Time passes: TTLs run down and keys expire.
Tick ==
    /\ \/ failTTL = 1 /\ Forgotten
       \/ failTTL > 1 /\ failTTL' = failTTL - 1 /\ UNCHANGED <<failures, owed>>
       \/ failTTL = 0 /\ UNCHANGED <<failures, failTTL, owed>>
    /\ degTTL' = IF degTTL > 0 THEN degTTL - 1 ELSE degTTL
    /\ UNCHANGED <<fallbackOn, pc, primary, backup, answer, cache, faults, blind>>

\* The cache entry's TTL, far longer than a cooldown, runs out.
CacheExpires ==
    /\ cache # "none"
    /\ cache' = "none"
    /\ UNCHANGED <<fallbackOn, pc, primary, backup, answer, health, faults, blind, owed>>

-----------------------------------------------------------------------------
Handle(r) ==
    \/ Lookup(r) \/ Gate(r) \/ CallPrimary(r) \/ Count(r) \/ Trip(r) \/ Clear(r)
    \/ CallFallback(r) \/ Store(r)

Next ==
    \/ \E r \in Requests : Arrive(r) \/ Block(r) \/ Handle(r) \/ Resend(r) \/ Leave(r) \/ Again(r)
    \/ Tick
    \/ CacheExpires

\* Time passes, and every call of a handler ends: both http clients and the
\* Redis client have timeouts.  Nothing makes requests come.
Fairness == WF_vars(Tick) /\ \A r \in Requests : WF_vars(Handle(r))

Spec == Init /\ [][Next]_vars
FairSpec == Spec /\ Fairness

-----------------------------------------------------------------------------
(* Properties.                                                             *)

\* A counter at the threshold never outlives the degraded mark: when the
\* cooldown ends the provider starts with a clean slate, and does not go back
\* into degradation at its first failure.  (Not so while a SET is under way, nor
\* of a counter to which a cancelled context or a fault still owes its SET or
\* its TTL.)
CleanSlateAfterCooldown ==
    (failures = FailureThreshold /\ ~ttlLost /\ ~tripLost
       /\ \A r \in Requests : pc[r] # "trip")
    => Degraded

\* A client who waits is never given an error, or a worse answer, while one of
\* the providers has given a good one for its request.
GoodAnswerDelivered ==
    \A r \in Requests : pc[r] = "done" /\ answer[r] # "none" =>
        /\ primary[r] \in Good => answer[r] = "primary"
        /\ backup[r] \in Good => answer[r] = "fallback"

\* The health keys recover, whatever the traffic.  Degradation is temporary: no
\* new call reaches the provider, so those in flight are the last that can renew
\* the mark.  And failures are forgotten in the end: either they stop and the
\* counter expires, or they degrade the provider and it expires meanwhile: each
\* failure starts the counter's TTL anew, so time alone does not do it.  (Unless
\* the counter is owed its TTL for good, or over and over its SET.)
CooldownEnds      == Degraded ~> ~Degraded
FailuresForgotten == <>[](~ttlLost /\ ~tripLost) => (failures > 0 ~> failures = 0)
HealthRecovers    == CooldownEnds /\ FailuresForgotten

\* The Redis keys implement the breaker: no call starts against a provider that
\* is marked, unless its gate could not read the mark, and only calls in flight
\* and the passing of time change the mark.
Calling == {r \in Requests : pc[r] \in {"primary", "count", "trip", "clear"}}
B == INSTANCE Breaker WITH
        open    <- Degraded,
        calling <- Calling
ImplementsBreaker == B!BSpec

\* The cache's documented separation (handler.go, the comment of cacheKey): a
\* response is found only under the provider it came from.
CacheHoldsPrimaryOnly == cache # "fallback"
=============================================================================
