------------------------------ MODULE Pipeline -------------------------------
(***************************************************************************)
(* What a background worker does with one traced request: processFn of     *)
(* cmd/gateway/main.go with the attribution engine's publishCost, for the  *)
(* requests of one day, one feature, one model and one user.  Several      *)
(* workers run it at once and share nothing but Redis and ClickHouse, so   *)
(* each command is a step of its own.                                      *)
(*                                                                         *)
(* Every request costs one unit.  What is thought of its answer is module  *)
(* Verdicts'.  The prompt's masking and counters that nothing here reads   *)
(* (pii:masked, Prometheus, the OTel span) are left out; AddTrace, the     *)
(* last step, is in module Sessions.                                       *)
(***************************************************************************)
EXTENDS Verdicts

CONSTANTS
    Events,      \* the day's traced requests
    Featured,    \* those with a feature name
    Answered,    \* those with status 200
    NumWorkers,  \* background workers
    Threshold,   \* the feature's daily threshold
    Budget,      \* the user's daily budget
    ListCap,     \* entries LTRIM leaves in a list
    MaxFaults    \* bound: failed commands and crashes

ASSUME PipelineAssumption ==
    /\ IsFiniteSet(Events)
    /\ Featured \subseteq Events /\ Answered \subseteq Events
    /\ NumWorkers \in Nat \ {0}
    /\ Threshold \in Nat /\ Budget \in Nat \ {0}
    /\ ListCap \in Nat \ {0}
    /\ MaxFaults \in Nat

VARIABLES
    pc,          \* per request: the step processFn has come to
    warn,        \* its riskFlag.ShouldWarn
    odd,         \* anomalies of it that are still to be pushed
    cost,        \* the three daily cost counters
    rows,        \* requests with a row in ClickHouse
    tracesDaily, \* traces:daily
    warnDaily,   \* warnings:daily
    lists,       \* warnings:list, anomalies:list and alerts:list, newest first
    flags,       \* requests with a flag:<id>
    fired,       \* alerts:fired and budget:fired
    raised,      \* how often each alert has been raised
    faults,
    pushed,      \* history: everything LPUSHed, newest first
    redisOK,     \* history: no Redis command has failed
    writesOK,    \* history: no ClickHouse write has failed
    crashed      \* history: the gateway has crashed

redis == <<cost, tracesDaily, warnDaily, lists, flags, fired, raised, pushed>>
hist == <<redisOK, writesOK, crashed>>
vars == <<pc, warn, odd, redis, rows, faults, hist>>

Counters == {"user", "feature", "model"}
Lists    == {"warnings", "anomalies", "alerts"}
Limits   == {"spike", "budget"}
Working  == {"user", "feature", "model", "assess", "count", "push", "trim", "flag", "write",
             "oddPush", "oddTrim", "traces", "spikeGet", "spikeSet", "spikePush", "spikeTrim",
             "budgetGet", "budgetSet"}
Busy     == {e \in Events : pc[e] \in Working}
AtRest   == \A e \in Events : pc[e] \in {"done", "lost"}

TypeOK ==
    /\ pc \in [Events -> Working \cup {"queued", "done", "lost"}]
    /\ warn \in [Events -> BOOLEAN] /\ odd \in [Events -> 0..4]
    /\ cost \in [Counters -> Nat]
    /\ rows \subseteq Events
    /\ tracesDaily \in Nat /\ warnDaily \in Nat
    /\ lists \in [Lists -> Seq(Events)]
    /\ flags \subseteq Answered
    /\ fired \in [Limits -> BOOLEAN]
    /\ raised \in [Limits -> Nat]
    /\ faults \in 0..MaxFaults
    /\ pushed \in [Lists -> Seq(Events)]
    /\ redisOK \in BOOLEAN /\ writesOK \in BOOLEAN /\ crashed \in BOOLEAN

Init ==
    /\ pc = [e \in Events |-> "queued"]
    /\ warn = [e \in Events |-> FALSE]
    /\ odd = [e \in Events |-> 0]
    /\ cost = [c \in Counters |-> 0]
    /\ rows = {}
    /\ tracesDaily = 0 /\ warnDaily = 0
    /\ lists = [l \in Lists |-> <<>>]
    /\ flags = {}
    /\ fired = [l \in Limits |-> FALSE]
    /\ raised = [l \in Limits |-> 0]
    /\ faults = 0
    /\ pushed = [l \in Lists |-> <<>>]
    /\ redisOK = TRUE /\ writesOK = TRUE /\ crashed = FALSE

Go(e, from, to) == pc[e] = from /\ pc' = [pc EXCEPT ![e] = to]
NoFault    == UNCHANGED <<faults, hist>>
RedisFault == /\ faults < MaxFaults /\ faults' = faults + 1
              /\ redisOK' = FALSE /\ UNCHANGED <<writesOK, crashed>>

\* What a list is after LTRIM 0 cap-1.
Trimmed(s) == SubSeq(s, 1, IF Len(s) < ListCap THEN Len(s) ELSE ListCap)

-----------------------------------------------------------------------------
(* Attribution.                                                            *)

\* A worker takes the request up.
Take(e) ==
    /\ Cardinality(Busy) < NumWorkers
    /\ Go(e, "queued", "user")
    /\ UNCHANGED <<warn, odd, redis, rows, faults, hist>>

\* What an INCR adds: a command that fails may or may not have taken effect, and
\* one whose reply is lost is sent again by the client and may count twice.
Sent(counter, counterNext) ==
    \/ counterNext = counter + 1 /\ NoFault
    \/ counterNext \in counter..(counter + 2) /\ RedisFault

\* publishCost: INCRBYFLOAT of one of the three daily counters (a request
\* without a feature name has a feature key of its own).  A command that fails
\* ends publishCost, whether or not it took effect.
Charge(e, c, next) ==
    /\ LET key == IF c = "feature" /\ e \notin Featured THEN {} ELSE {c}
           Add(n) == cost' = [k \in Counters |-> IF k \in key THEN cost[k] + n ELSE cost[k]]
       IN  \/ Add(1) /\ Go(e, c, next) /\ NoFault
           \/ Add(0) /\ Go(e, c, "assess") /\ RedisFault
           \/ Add(1) /\ Go(e, c, "assess") /\ RedisFault
           \/ Add(2) /\ Go(e, c, next) /\ RedisFault
    /\ UNCHANGED <<warn, odd, rows, tracesDaily, warnDaily, lists, flags, fired, raised, pushed>>

ChargeUser(e)    == Charge(e, "user", "feature")
ChargeFeature(e) == Charge(e, "feature", "model")
ChargeModel(e)   == Charge(e, "model", "assess")

-----------------------------------------------------------------------------
(* The verdict on the response.                                            *)

\* Mutant: every answered request is counted and listed as a warning.
AssessAll(e) ==
    /\ UNCHANGED <<warn, odd, redis, rows, faults, hist>>
    /\ Go(e, "assess", IF e \in Answered THEN "count" ELSE "write")

\* Mutant: requests that failed are flagged too.
AssessFailed(e) ==
    /\ UNCHANGED <<warn, odd, redis, rows, faults, hist>>
    /\ Go(e, "assess", "flag")

\* What can come of an answered request, without and with a verifier.
Flagged  == {ShouldWarn(Evaluate(s)) : s \in Scores}
Verified == {ShouldWarn(Verify(Evaluate(s), v)) :
                s \in Scores, v \in Verifications}
Warnings(e) ==
    IF e \notin Answered THEN {FALSE} ELSE IF e \in Featured THEN Verified ELSE Flagged

\* Scorer, flagger and verifier, for an answered request only; the detector for
\* one with a feature.  Each is best-effort and decides without shared state.
Assess(e) ==
    /\ warn' \in {[warn EXCEPT ![e] = b] : b \in Warnings(e)}
    /\ odd' \in {[odd EXCEPT ![e] = n] : n \in IF e \in Featured THEN Anomalies ELSE {0}}
    /\ Go(e, "assess", IF e \notin Answered THEN "write" ELSE IF warn'[e] THEN "count" ELSE "flag")
    /\ UNCHANGED <<redis, rows, faults, hist>>

\* INCR warnings:daily
CountWarning(e) ==
    /\ Go(e, "count", "push")
    /\ Sent(warnDaily, warnDaily')
    /\ UNCHANGED <<warn, odd, rows, cost, tracesDaily, lists, flags, fired, raised, pushed>>

\* LPUSH of one of the three lists; the error is not looked at.
Push(e, l, from, to) ==
    /\ Go(e, from, to)
    /\ \E n \in 0..2 :
          /\ lists' = [lists EXCEPT ![l] = [i \in 1..n |-> e] \o @]
          /\ pushed' = [pushed EXCEPT ![l] = [i \in 1..n |-> e] \o @]
          /\ (n = 1 /\ NoFault) \/ RedisFault
    /\ UNCHANGED <<warn, rows, cost, tracesDaily, warnDaily, flags, fired>>

\* Mutant: keeps the entries at the other end.
TrimNewest(e, l, from, to) ==
    /\ Go(e, from, to)
    /\ LET s == lists[l]
           n == IF Len(s) < ListCap THEN Len(s) ELSE ListCap
       IN  lists' = [lists EXCEPT ![l] = SubSeq(s, Len(s) - n + 1, Len(s))]
    /\ NoFault
    /\ UNCHANGED <<warn, odd, rows, cost, tracesDaily, warnDaily, flags, fired, raised, pushed>>

\* LTRIM of one of the three lists; the error is not looked at.
Trim(e, l, from, to) ==
    /\ Go(e, from, to)
    /\ \/ lists' = [lists EXCEPT ![l] = Trimmed(@)] /\ NoFault
       \/ UNCHANGED lists /\ RedisFault
    /\ UNCHANGED <<warn, odd, rows, cost, tracesDaily, warnDaily, flags, fired, raised, pushed>>

PushWarning(e) == Push(e, "warnings", "push", "trim") /\ UNCHANGED <<odd, raised>>
TrimWarnings(e) == Trim(e, "warnings", "trim", "flag")

\* SET flag:<id>
SetFlag(e) ==
    /\ Go(e, "flag", "write")
    /\ \/ flags' = flags \cup {e} /\ NoFault
       \/ UNCHANGED flags /\ RedisFault
    /\ UNCHANGED <<warn, odd, rows, cost, tracesDaily, warnDaily, lists, fired, raised, pushed>>

-----------------------------------------------------------------------------
(* The trace and its counter.                                              *)

\* The next anomaly is pushed, whether the write has failed or not; what comes
\* after the anomalies is skipped if it has.
Onward(e) ==
    IF odd'[e] > 0 THEN "oddPush" ELSE IF e \in rows' THEN "traces" ELSE "budgetGet"

\* writer.Write
Write(e) ==
    /\ \/ rows' = rows \cup {e} /\ NoFault
       \/ /\ faults < MaxFaults /\ faults' = faults + 1
          /\ writesOK' = FALSE /\ UNCHANGED <<rows, redisOK, crashed>>
    /\ UNCHANGED <<warn, odd, redis>>
    /\ Go(e, "write", Onward(e))

PushAnomaly(e) ==
    /\ odd' = [odd EXCEPT ![e] = @ - 1]
    /\ Push(e, "anomalies", "oddPush", "oddTrim")
    /\ UNCHANGED raised
TrimAnomalies(e) ==
    /\ UNCHANGED <<odd, rows>>
    /\ Trim(e, "anomalies", "oddTrim", Onward(e))

\* INCR traces:daily
CountTrace(e) ==
    /\ Go(e, "traces", IF e \in Featured THEN "spikeGet" ELSE "budgetGet")
    /\ Sent(tracesDaily, tracesDaily')
    /\ UNCHANGED <<warn, odd, rows, cost, warnDaily, lists, flags, fired, raised, pushed>>

-----------------------------------------------------------------------------
(* The alerts.                                                             *)

\* Mutant: the alert is due at the limit.
CheckAtLimit(e, c, limit, from, over, under) ==
    /\ Go(e, from, IF cost[c] >= limit THEN over ELSE under)
    /\ NoFault
    /\ UNCHANGED <<warn, odd, redis, rows>>

\* GET of a cost counter and comparison with its limit; an error, or a counter
\* that does not exist, ends the check.
Check(e, c, limit, from, over, under) ==
    /\ \/ cost[c] > limit /\ Go(e, from, over) /\ NoFault
       \/ cost[c] <= limit /\ Go(e, from, under) /\ NoFault
       \/ Go(e, from, under) /\ RedisFault
    /\ UNCHANGED <<warn, odd, redis, rows>>

GetFeatureCost(e) == Check(e, "feature", Threshold, "spikeGet", "spikeSet", "budgetGet")
GetUserCost(e)    == Check(e, "user", Budget, "budgetGet", "budgetSet", "done")

\* Mutant: does not look at the reply.
SetFiredAlways(e, l, from, won, lost) ==
    /\ fired' = [fired EXCEPT ![l] = TRUE]
    /\ Go(e, from, won)
    /\ NoFault
    /\ UNCHANGED <<warn, odd, rows, cost, tracesDaily, warnDaily, lists, flags, pushed>>

\* Mutant: claims the alert for the next worker instead.
SetFiredLate(e, l, from, won, lost) ==
    /\ \/ fired[l] /\ Go(e, from, won) /\ UNCHANGED fired
       \/ ~fired[l] /\ fired' = [fired EXCEPT ![l] = TRUE] /\ Go(e, from, lost)
    /\ NoFault
    /\ UNCHANGED <<warn, odd, rows, cost, tracesDaily, warnDaily, lists, flags, pushed>>

\* SETNX of the day's fired key: only who sets it goes on.  A command that fails
\* may have taken effect.
SetFired(e, l, from, won, lost) ==
    /\ \/ ~fired[l] /\ fired' = [fired EXCEPT ![l] = TRUE] /\ Go(e, from, won) /\ NoFault
       \/ fired[l] /\ Go(e, from, lost) /\ UNCHANGED fired /\ NoFault
       \/ fired' \in {fired, [fired EXCEPT ![l] = TRUE]} /\ Go(e, from, lost) /\ RedisFault
    /\ UNCHANGED <<warn, odd, rows, cost, tracesDaily, warnDaily, lists, flags, pushed>>

SetSpikeFired(e) == SetFired(e, "spike", "spikeSet", "spikePush", "budgetGet") /\ UNCHANGED raised

\* The alert is pushed, webhook and e-mail are spawned.
PushSpike(e) ==
    /\ Push(e, "alerts", "spikePush", "spikeTrim")
    /\ raised' = [raised EXCEPT !["spike"] = @ + 1]
    /\ UNCHANGED odd
TrimAlerts(e) == Trim(e, "alerts", "spikeTrim", "budgetGet")

\* The budget alert is only logged, and its webhook and e-mail are spawned.
SetBudgetFired(e) ==
    /\ SetFired(e, "budget", "budgetSet", "done", "done")
    /\ raised' = [raised EXCEPT !["budget"] = IF fired'["budget"] /\ ~fired["budget"] /\ faults' = faults
                                              THEN @ + 1 ELSE @]

-----------------------------------------------------------------------------
\* The gateway crashes and comes back: what its workers and its channel hold is
\* lost, Redis and ClickHouse stay.
Crash ==
    /\ faults < MaxFaults /\ faults' = faults + 1
    /\ crashed' = TRUE
    /\ \E buffered \in SUBSET {e \in Events : pc[e] = "queued"} :
          pc' = [e \in Events |-> IF e \in Busy \cup buffered THEN "lost" ELSE pc[e]]
    /\ UNCHANGED <<warn, odd, redis, rows, redisOK, writesOK>>

Process(e) ==
    \/ Take(e) \/ ChargeUser(e) \/ ChargeFeature(e) \/ ChargeModel(e)
    \/ Assess(e) \/ CountWarning(e) \/ PushWarning(e) \/ TrimWarnings(e) \/ SetFlag(e)
    \/ Write(e) \/ PushAnomaly(e) \/ TrimAnomalies(e) \/ CountTrace(e)
    \/ GetFeatureCost(e) \/ SetSpikeFired(e) \/ PushSpike(e) \/ TrimAlerts(e)
    \/ GetUserCost(e) \/ SetBudgetFired(e)

Next == Crash \/ \E e \in Events : Process(e)

Spec == Init /\ [][Next]_vars

-----------------------------------------------------------------------------
(* Properties.                                                             *)

\* Each alert is raised at most once a day, whichever workers see the limit
\* exceeded at once, and however commands fail, are repeated or cut off.
OneAlertPerDay == \A l \in Limits : raised[l] <= 1

\* A limit that is exceeded is not missed: when nothing is under way any more,
\* the alert has been raised.  (Unless Redis has failed or the gateway has
\* crashed.  A failed write of a trace costs that request's own check of the
\* feature, but never the check of the user's budget.)
CrossingAlerted ==
    AtRest /\ redisOK /\ ~crashed =>
        /\ cost["user"] > Budget => raised["budget"] = 1
        /\ writesOK /\ cost["feature"] > Threshold => raised["spike"] = 1

\* Whenever the verifier may have to compare two answers by itself, because the
\* scorer cannot be reached (verifier.go:149-253), it measures the number of edits
\* between them, alike from either side, and takes no two answers for the same that
\* differ before the cap.
ComparedByEdits ==
    \A e \in Featured \cap Answered : pc[e] = "assess" => SimilarityIsEditDistance

\* The day's figures stay together: each failed command or crash puts a counter
\* off by no more than the requests it hit, so that without one they agree with
\* each other and with the rows of ClickHouse.
Within(n, lo, hi) == lo <= n /\ n <= hi
DriftBounded ==
    LET Done == {e \in Events : pc[e] = "done"}
        Ended(S) == Cardinality(S \cap Done)
    IN  AtRest =>
          /\ Within(cost["user"], Ended(Events) - faults, Cardinality(Events) + faults)
          /\ Within(cost["model"], Ended(Events) - faults, Cardinality(Events) + faults)
          /\ Within(cost["feature"], Ended(Featured) - faults, Cardinality(Featured) + faults)
          /\ Within(tracesDaily, Ended(rows) - faults, Cardinality(rows) + faults)
          /\ Within(warnDaily, Ended({e \in Events : warn[e]}) - faults,
                    Cardinality({e \in Events : warn[e]}) + faults)

\* The lists hold the newest entries, without a gap: at least ListCap of them if
\* there are so many, and not many more.  (Each worker may be between its LPUSH
\* and its LTRIM, and a crash may leave as many behind.)
NewestKept ==
    \A l \in Lists :
        /\ lists[l] = SubSeq(pushed[l], 1, Len(lists[l]))
        /\ Len(lists[l]) >= IF Len(pushed[l]) < ListCap THEN Len(pushed[l]) ELSE ListCap
        /\ Len(lists[l]) <= ListCap + NumWorkers * (1 + faults)

\* The commands on the feature's counter and its fired key implement the limit.
D == INSTANCE DailyAlert WITH
        Limit  <- Threshold,
        total  <- cost["feature"],
        alerts <- raised["spike"]
ImplementsDailyAlert == D!DSpec
=============================================================================
