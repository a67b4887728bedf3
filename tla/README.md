# Formal models of the Ajah gateway

Ajah is a gateway in front of LLM providers (Go, `cmd/gateway` and `internal/`).
A request goes through the proxy to a provider and back; what it cost and what is
to be thought of the answer is worked out afterwards by background workers.
Nearly all shared state is in Redis, PostgreSQL and ClickHouse, nearly every
Redis or SQL statement is sent on its own, and its error is mostly logged and
passed over. What can go wrong is therefore in the order of single commands of
several workers, and in what is skipped after one that fails. That is what the
modules here model: **every command is a step of its own**, others come in
between, any command may fail, and the gateway may crash.

Contents: [1 The system](#1-the-system) ·
[2 The modules](#2-the-modules) · [3 The runs](#3-the-runs) ·
[4 Fairness](#4-fairness) · [5 The proofs](#5-the-proofs) ·
[6 What the code does against its own words](#6-what-the-code-does-against-its-own-words) ·
[7 What is not modelled](#7-what-is-not-modelled) · [8 Plan](#8-plan)

To run: `tlc -config Proxy.cfg Proxy.tla` (section 3 has the module of every
`.cfg`), `tlapm ProxyProofs.tla`.

## 1 The system

| component (code) | state | operations | interacts with |
|---|---|---|---|
| request path: `proxy/handler.go`, `fallback/manager.go` | Redis: failure counter and degraded mark per provider (60 s, 120 s), response cache | `ServeHTTP`: circuit check, cache look-up, security block, `ShouldFallback`, provider call, `RecordFailure`/`RecordSuccess`, fallback call, cache store | hands the traced request to the emitter in a goroutine; reads the circuit key of sessions |
| event emitter: `events/emitter.go`, shutdown of `main.go` | one buffered channel, a pool of workers, a context | `Emit` (never blocks, drops), `runWorker` with its drain, `Stop` (5 s) | called by the proxy after the answer; calls the pipeline |
| webhooks and e-mails: `sendWebhook`, `sendEmailAlert` of `main.go` | a goroutine per alert, known to nobody | post with retries and delays; one SMTP send | spawned by the pipeline; cut off by the end of the process |
| verdicts: `flagging`, `crossmodel`, `anomaly`, `callScorer` | none that another changes under them (baselines are swapped under a lock) | risk level, agreement of two answers, z-scores | decide in the pipeline what is warned about |
| background pipeline: `processFn` of `main.go`, `attribution/engine.go` | Redis: daily costs per user, feature and model, daily counters, three capped lists, `flag:<id>`, fired keys; ClickHouse: traces | mask, `publishCost`, score, flag, verify, detect, write, alert, `AddTrace` | scorer, verifier and webhooks over HTTP; settings from memory |
| sessions: `sessions/session.go`, `storage/clickhouse_sessions.go` | Redis: list and hash per session, circuit key; ClickHouse: `agent_sessions` | `AddTrace` (last step of the pipeline), reaper with `CloseSession`, circuit reset | trips the breaker that the proxy reads |
| settings: `db/postgres.go`, POST handlers, refresh loop | PostgreSQL tables; maps in memory under a lock | upsert row by row, `RefreshCache`, `RefreshUserCache`, start-up load | read by pipeline, proxy and middleware |
| fixed windows: `rateLimitMiddleware`, `checkRetryLoop` | Redis counters with a TTL | INCR, then EXPIRE by the first | before the proxy; in the pipeline |
| evaluation suites: `handlers.go`, `db/postgres.go` | PostgreSQL: suites, cases, runs, results (with cascades) | create and delete, run a suite with three goroutines at a time | LLM provider, scorer |
| accounts: `auth_handlers.go`, `db/postgres.go` | PostgreSQL: organisations, users, sessions | register (three statements), login, logout, me | the dashboard |

Components without state that is shared (PII masker, security detector, compare
and replay, read handlers) and those out of Go (scorer, dashboard, SDKs) are in
section 7; those whose outcome decides
what a modelled component does are choices, or operators, in its module.

What is hard in each, and what makes it correct:

* **Emitter** - Go's `select` has no preference: cancelled workers may go on
  receiving; `Emit` goroutines are known to nobody, and come when all workers are
  gone. *Correct:* no event is lost or processed twice while the process runs,
  the drain misses nothing sent in time, "stopped cleanly" is true, the shutdown
  ends.
* **Webhooks** - the post or its answer is lost or comes after the client's timeout; the goroutine sleeps while
  the process is stopped. *Correct:* what is concluded is true, nothing heard is repeated, every webhook comes to
  an end or the process does.
* **Request path** - counter and mark are two keys with two TTLs, changed by
  requests that began before either was set; a client that leaves cancels its
  request anywhere. *Correct:* degradation is caused, temporary, and leaves a clean
  slate; a good answer is never thrown away.
* **Pipeline** - many workers on the same counters and lists; a failed command
  decides what is skipped. *Correct:* an alert is raised once, and not missed
  but for a stated reason; figures of the day stay together up to the faults.
* **Sessions** - the pipeline of `AddTrace` is not a transaction; `CloseSession` reads,
  writes and deletes with round trips in between. *Correct:* the breaker overshoots by
  a known number and is not missed; what is closed is complete but for the
  traces that raced with it; nothing stays in Redis for ever.
* **Settings** - refreshes query before they lock and overtake each other.
  *Correct:* what is read is always one state of the table, one's own change is
  visible after one's own refresh, and in the end the table is.
* **Windows** - INCR and EXPIRE are apart; a request is stamped with a minute
  and may be late for its key. *Correct:* no more than the limit pass, no false
  alarm, a burst is seen.
* **Evaluation** - cases and suites are deleted under a run, its client leaves,
  its counts are shared. *Correct:* what is stored agrees with what was counted,
  a failure never passes, the run ends.
* **Accounts** - two registrations pass the look-ups together. *Correct:* names
  and addresses are taken once, a token stands for who showed the password.

`PROJECT.json` lists each hazard with its line in the code and the properties
that would catch it going wrong.

## 2 The modules

| module | models | abstract specification |
|---|---|---|
| `Emitter` | emitter, its callers and the shutdown | `Handoff`: an event is accepted, dropped or stranded once, and finished once |
| `Delivery` | `Emitter` with the webhook and e-mail goroutines of its process function | `Handoff` (through Emitter) |
| `Proxy` | `ServeHTTP` and fallback manager | `Breaker`: no call starts against a provider out of use |
| `Verdicts` | flagger, verifier with its edit distance, anomaly detector: operators | the edit distance by its definition (`Reachable`) |
| `Pipeline` | `processFn`, `publishCost`, alerts; EXTENDS `Verdicts` | `DailyAlert`: a growing cost, one alert, only over the limit |
| `Sessions` | `AddTrace`, `CloseSession`, circuit | `Ledger`: a trace is entered once, a close makes one row of all that was entered |
| `Settings` | tables, maps, handlers, refresh loop | |
| `Windows` | both fixed-window counters | |
| `EvalRun` | suites, cases and runs | |
| `Accounts` | register, login, logout, me | |
| `EmitterProofs`, `ProxyProofs`, `PipelineProofs`, `SettingsProofs`, `SessionsProofs`, `WindowsProofs`, `EvalRunProofs`, `AccountsProofs` | proofs (section 5); Delivery's are in `EmitterProofs` | |
| `MCPipeline`, `MCSessions`, `MCSettings`, `MCWindows`, `MCEvalRun` | instances for TLC | |

Common conventions. `pc` is the control state of each request, worker or POST: it
names the *next* command. `Go(x, from, to)` moves one. `faults` counts what has gone
wrong and is bounded by `MaxFaults`; a step that fails takes one. Variables marked
*history* are not in the code: they record what properties speak of. Definitions
marked *Mutant* are plausible mistakes in the definition that they precede; no
specification uses them, each shows that some property can fail.

**Emitter.** `ch`, `pc`, `cur` are the channel, the workers and the event in a
worker's hands; `req` is how far the request and its `go Emit` have come; `main` walks
through `srv.Shutdown`, `cancelEmitter` and `Stop`. `Receive` and `ObserveCancel`
are the two cases of the outer select, both enabled after the cancellation; `DrainReceive` and `DrainExit` the inner
one. Both time limits (10 s, 5 s) are choices: the wait may end at any moment. `ServerFails` is the early
return of `main` when `ListenAndServe` fails. `Return` has no fairness of its own: a
process function may hang.

**Delivery.** EXTENDS Emitter: `Next` of the emitter, or `Notify` (the worker that processes an alerting event spawns
its webhook, and perhaps its e-mail), or a step of a courier. `hook`, `tries`, `got`, `failed` are the goroutine's state, its
posts, those the receiver has acted on and those that failed in the sender's eyes: a post may arrive and its
answer not, so `got` and `failed` overlap. `GiveUpUnsent` is the return before any attempt, when the payload or the request cannot be built
(main.go:1172, 1202). All steps need `Running`: when `main` returns, the goroutines end where they are.

**Proxy.** One provider and one body: keys are named by them, so others do not
interact. A request is in `new`, then `lookup` (cache), `gate` (EXISTS), `primary`, `count`
(INCR+EXPIRE), `trip` (SET), `clear` (DEL), `fallback`, `store`, `done`, and is replaced by
another (`Again`), so that two slots stand for endless traffic of which two are in flight. The counter saturates at the
threshold (only `>=` is asked). `Tick` takes a unit off each TTL. The client's leaving
(`Leave`) ends the request at once: all later calls take its cancelled context.
The pipeline INCR, EXPIRE is one step that may break off after the INCR, and that is sent again if its reply
is lost (`Resend`), so that one failure counts twice. Two history variables say what the counter is owed:
`ttlLost`, that its last EXPIRE was lost, and `tripLost`, that it is full and its SET was. Each ends with the next
command that makes it good, or with the counter.

**Pipeline.** One day, user, feature and model; each request costs 1.
One action per Redis command or group of calls without a shared effect. A
command that fails may or may not have had its effect, and one whose reply is lost
is sent again by the client library (`Sent`, `Push`, `Charge` have the counts 0, 1, 2).
`Assess` is scorer, flagger, verifier and detector, as `Verdicts` defines them: the scorer's answer is any of
`Scores`, in tenths, and a scorer that fails gives zeros - which
`RiskLevel` takes for a high risk, so that the request is warned about. The number of anomalies
is that of some `Metrics` against some of the `Baselines`.

**Verdicts.** Scores, agreements and metrics are natural numbers: tenths, or a unit of their own. `Distance` is the table of
`levenshteinDist` as a recursive function, of which the code keeps two rows; `Deviates` is `zScore >= 2.5` multiplied out.

**Sessions.** `traces`, `meta`, `ttl`, `circuit` are the four keys' contents; `st` the step of
each trace, `reaper` and `snap` that of `CloseSession` and what it has read. A row of `agent_sessions` holds no traces, only
their number, cost and tokens, which come from the HGETALL (session.go:306), and their mean quality, which comes from the
LRANGE (311). What of a trace a row holds is therefore two facts: `counted` are the traces whose counts the hash held at the
HGETALL, `traces` those that were in the list at the LRANGE; a trace is `Flushed` when one row has both. The history `raced`
begins with the HGETALL: it takes in who was then between its RPUSH and its HINCRBY (`Halfway`) and who pushes from then to the DEL
(`Closing`). A pipeline breaks off (`PipelineFails`), or is sent again from the start when its
reply is lost (`Resend`): its RPUSH and HINCRBYs are then done twice.
`GoIdle` is the passing of the session's timeout: not in the middle of a pipeline, whose
commands are milliseconds apart while the timeout is minutes.
`Expire` is the 24 h TTL, which is reached only if the reaper cannot see the session
or has failed for a day.

**Settings.** A refresh is `Query` and, later, `Swap`; the lock makes the
swap one step. A payload's rows are saved in any order (that of the client's list), each in a
statement of its own; then, for features, come the provider keys and the SMTP configuration
(`SaveOthers`, `OthersFail`), whose failure ends the request without a refresh although every
row is saved: the maps show the rows at the loop's next tick. Rows are a single value, and a table's maps are swapped as one, under their one lock; that an alert
may take a threshold from one version and, in a later call, the webhook from the next is left out. `GetUserSettings` selects users with a budget above zero,
hence `Selected`. The history `behind` names, for a refresh between its query and its swap, the rows saved meanwhile, of which
it has the old values.

**Windows.** Both counters in one module, chosen at `Init`: they differ in how
the key is named and in the TTL. `Key` is the minute of the call's start for
`"rate"`. `MaxDelay` - how late a command may reach Redis - is an assumption and
not code: the TTL of 70 s for a key of 60 s tolerates 10 s.

**EvalRun.** `todo` is what the run has read, `job` the goroutines, `busy` the slots
of the semaphore, `tally` the counts under the mutex. `case`, `suite`, `row`, `results` are the
tables, with the cascade of a deletion. Errors of the INSERT of a result and of the final UPDATE are
ignored by the code and so by the model. `Assess` is the call of the LLM and of the scorer with their four outcomes. Thresholds may be negative, since only 0 is
replaced (handlers.go:1051). `Panic` is the end of the process that a malformed URL brings about: the ignored error of
`NewRequestWithContext` (1232, 1274) leaves a nil request, in a goroutine where nothing recovers the panic.

**Accounts.** Ids and tokens are random in the code and are named by the request that
made them. UNIQUE constraints make `InsertOrg` and `InsertUser` conditional; `Me` is the join
that answers a token.

## 3 The runs

All complete without a limit on depth; times with two workers.

| run (`cfg`, module) | instance | shows |
|---|---|---|
| `delivery` (`Delivery`, Delivery) | 2 events, one of them alerting, 2 workers, 1 slot, 3 attempts; 353 k states, 1-2 min | `ExactlyOnePlace`, `DrainIsComplete`, `OutcomeIsHonest`, refinement of `Handoff`, `BufferedIsHandled`, `ShutdownEnds`, `WebhooksSettle` |
| `sessions_race` (`SessionsRace`, MCSessions) | 4 traces, one of double cost, limits of 2 steps and cost 3, 2 workers, 1 reset, no faults; 1.2 M states, 1 min | `OvershootBounded`, `LimitNeverMissed`, `NothingOrphaned`, refinement of `Ledger` |
| `sessions_faults` (`SessionsFaults`, MCSessions) | 2 traces, one without a limit, 1 worker, 2 faults; 1.0 M states, 2-3 min | `OnlyRacedTracesLost`, `SessionsAreClosed` |
| `proxy` (`Proxy`, Proxy) | 2 requests in flight, threshold 3, TTLs 2 and 4, 1 fault; 195 k states, 2 min | `CleanSlateAfterCooldown`, `GoodAnswerDelivered`, `HealthRecovers`, refinement of `Breaker` |
| `pipeline` (`Pipeline`, MCPipeline) | 3 requests, 2 workers, limits and list cap 1, two metrics and two baselines, texts of 2 runes up to length 4 with a cap of 3, 1 fault; 520 k states, 1-2 min | `OneAlertPerDay`, `CrossingAlerted`, `DriftBounded`, `NewestKept`, `ComparedByEdits`, refinement of `DailyAlert` |
| `settings` (`Settings`, MCSettings) | 2 features, 1 user with a budget, zero or none, 2 POSTs, the loop, 1 fault; 337 k states, 1 min | `CacheWasTable`, `SavedIsVisible`, `Converges` |
| `windows` (`Windows`, MCWindows) | 5 calls, limit 2, minute 3, delay 1, time 0..5, 1 fault; 1.2 M states, 1 min | `LimitKept`, `OverIsRecent`, `BurstBounded` |
| `evals` (`EvalRun`, MCEvalRun) | 1 run, 3 cases, 2 slots, thresholds asked -1 and 0, 1 fault; 515 k states, 2 min | `RunRowIsHonest`, `UnscoredNeverPasses`, `RunsEnd` |
| `accounts` (`Accounts`, Accounts) | 3 requests, 2 names, 2 addresses, lifetime 1, time 0..2, 1 fault; 839 k states, 30 s | `AccountsAreSound` |

Three more end in a violation: `emitter_drain`, `sessions_lost`, `proxy_cache` (section 6).

Why the instances are enough:

* *Delivery*: an event fills the one slot and the other is dropped, late, or in a worker's hands
  meanwhile; two workers let one exit while the other drains. Three attempts have a first, a last, and
  one that is neither (the code's four add no case); webhooks share nothing, so one alert is enough.
* *Verdicts*: two runes and texts one longer than the cap hold every pattern of equal and different runes that the
  recurrence looks at, and pairs that differ only past the cap. The baselines have one sample too few and just enough, a
  spread of 0, and metrics on both sides of their means.
* *Sessions*: with a limit of two steps, two traces reach it, a third overshoots, and the
  fourth is refused. A single fault already separates INSERT from DEL, two make a close fail twice, or a resent pipeline meet a failed
  close. With faults one worker is enough: what matters there is an AddTrace against the close, not against another
  AddTrace, which `sessions_race` has.
* *Proxy*: the threshold and the ratio of the TTLs are the code's. With a window of two ticks a failure can renew a counter that has
  aged, so that a trickle of failures keeps it for longer than a window. Two
  requests suffice for every pair of commands of two keys to interleave, and slots are used again,
  so that the third failure comes. One provider and one body because nothing crosses keys.
* *Pipeline*: with limits of 1, two requests of the feature cross it together, on two workers;
  the third, without feature and answer, takes the other branches. A list cap of 1 is met at once.
* *Settings*: two features show a mixture of rows, two POSTs and the loop give three
  refreshes to overtake each other.
* *Windows*: five calls are one more than `2 * Limit`, so a full window, its end and the next are met.
* *EvalRun*: three cases for two slots make one wait. A threshold is asked below zero, or left at 0 and taken as an ordinary one.
* *Accounts*: the third request logs in, or is the second registration that loses a race.

**Bounds** (none of them is in the code; `MaxAttempts` and `RuneCap` are, with larger values): `MaxFaults` in all modules but Emitter and Delivery, `MaxResets` in Sessions,
`MaxText` in Verdicts, `MaxTime` and `MaxDelay` in Windows, `MaxTime` in Accounts. Symmetry is used in runs without
liveness only.

**Deadlock** is checked in `proxy` and `settings`, whose systems go on for ever. The others
may stop: the process ends (Delivery), or all of the finitely many requests are done.

## 4 Fairness

Weak fairness, and only of what the runtime runs by itself:

* *Emitter*: `Emit` goroutines, the workers' loops, the steps of `main`'s
  shutdown: the scheduler runs runnable goroutines, waits of `main` have
  timeouts. None for requests, signals, handlers and - except where `BufferedIsHandled` assumes
  it - the return of a process function.
* *Delivery*: the emitter's, and the posts and their failure: the delays between the attempts pass, and the
  client of a webhook has a timeout (`WebhookTimeoutSeconds`), so that `Fail` is enabled and at some time taken if no answer comes. None
  for the receiver, and none for the mail server: `smtp.SendMail` has no deadline, and no property says that an e-mail ends.
* *Proxy*: the clock, and each step of a handler: both HTTP clients and the Redis client
  have timeouts. None for arrivals.
* *Sessions*: workers, the reaper's steps (its ticker fires for ever) and time. A close that fails
  is retried at the next tick; faults are finitely many.
* *Settings*: the loop's tick and, once begun, each statement, which is assumed to end: SQL statements have no timeout of their own.
* *EvalRun*: the handler and its goroutines; their HTTP calls have timeouts of 60 s and 45 s; its SQL statements are assumed to end.
* *Pipeline, Windows, Accounts*: none; only safety is stated.

## 5 The proofs

Machine-checked by TLAPS for every value of the constants that satisfies the named assumption of the module.

| theorem | says | by |
|---|---|---|
| `EmitterProofs!Invariance`, `TypeCorrect`, `EventsInOnePlace`, `DrainComplete` | `[]TypeOK`, `[]ExactlyOnePlace`, `[]DrainIsComplete` | inductive invariant |
| `EmitterProofs!EmitterImplementsHandoff` | `Spec => H!HSpec` | invariant and step simulation |
| `EmitterProofs!DeliveryKeepsEmitter` | `DSpec => Spec`: what is proved of the emitter holds of the composition | step simulation |
| `EmitterProofs!DeliveryTypeCorrect`, `OutcomesAreHonest` | `[]DeliveryTypeOK`, `[]OutcomeIsHonest` | inductive invariant |
| `ProxyProofs!Invariance`, `TypeCorrect`, `CleanSlate`, `GoodAnswersReachTheirClients` | `[]TypeOK`, `[]CleanSlateAfterCooldown`, `[]GoodAnswerDelivered` | inductive invariants |
| `ProxyProofs!ProxyImplementsBreaker` | `Spec => B!BSpec` | invariant and step simulation |
| `PipelineProofs!Invariance`, `TypeCorrect`, `AlertsAreRaisedOnce` | `[]TypeOK`, `[]OneAlertPerDay` | inductive invariant |
| `PipelineProofs!PipelineImplementsDailyAlert` | `Spec => D!DSpec` | invariant and step simulation |
| `PipelineProofs!NewestAreKept`, `DriftIsBounded`, `CrossingsAreAlerted` | `[]NewestKept`, `[]DriftBounded`, `[]CrossingAlerted` | inductive invariants |
| `PipelineProofs!SimilarityMeasuresEdits`, `AgreementsAreShares`, `AnswersComparedByEdits` | `SimilarityIsEditDistance`, `Agreements \subseteq 0..10`, `[]ComparedByEdits` | induction on the lengths of two texts |
| `SessionsProofs!Invariance`, `TypeCorrect`, `OvershootIsBounded`, `LostInRacesOnly`, `RowsAreDisjoint`, `NothingStays` | `[]TypeOK`, `[]OvershootBounded`, `[]OnlyRacedTracesLost`, `[]OneRowPerTrace`, `[]NothingOrphaned` | inductive invariant |
| `SessionsProofs!CountersAreTheBuffers`, `RowsAlwaysAddUp`, `LimitsAreNeverMissed` | `[](CalmInv /\ TripInv)`, `[]RowsAddUp`, `[]LimitNeverMissed` | inductive invariants |
| `SessionsProofs!SessionsImplementLedger` | `Spec => L!LSpec` | invariant and step simulation |
| `SettingsProofs!Invariance`, `TypeCorrect`, `NeverAMixture`, `SavedRowsAreInUse` | `[]TypeOK`, `[]CacheWasTable`, `SavedIsVisible` | inductive invariants |
| `WindowsProofs!Invariance`, `TypeCorrect`, `LimitIsKept`, `NoFalseAlarm` | `[]TypeOK`, `[]LimitKept`, `[]OverIsRecent` | inductive invariant |
| `WindowsProofs!BurstsAreBounded` | `[]BurstBounded` | inductive invariant |
| `EvalRunProofs!Invariance`, `TypeCorrect`, `RowsAreHonest`, `NothingPassesUnscored` | `[]TypeOK`, `[]RunRowIsHonest`, `[]UnscoredNeverPasses` | inductive invariant |
| `AccountsProofs!Invariance`, `AccountsSound` | `[]AccountsAreSound` | inductive invariant |

The assumptions: `EmitterAssumption` (a buffer of at least one slot, at least one worker), `DeliveryAssumption` (at least
one attempt), `ProxyAssumption` (the counter's TTL is not longer than the mark's), `WindowsAssumption` (the TTL of a
minute's key is at least the minute and `MaxDelay`), `SessionsAssumption`, `PipelineAssumption` and `EvalRunAssumption` (finitely many traces, requests, cases),
`VerdictsAssumption`, `SettingsAssumption` and `AccountsAssumption` (types of the constants, disjoint names). TLC
evaluates each in the run of its module.

The arguments:

* *Emitter.* `ExactlyOnePlace` is nearly inductive but not alone. `PcInv` ties a worker's control
  state to its hands (it holds an event just when it is processing); `CancelInv` says that nobody drains or exits before the
  cancellation; `LateInv` that after the last exit the channel holds late events only - the last
  worker left with an empty channel and only `Emit` has appended since; `StopInv` that a
  clean verdict implies that all have exited, so what was in the buffer at the cancellation is handled.
* *Delivery.* Every post but the one under way has failed, unless it was the one that settled the webhook (`HookInv`); from
  this follow the number of attempts, that the receiver has what is called delivered, and that what it got more
  than once it got again after a failure.
* *Proxy.* The clean slate needs a quantity: while nothing has gone wrong and nobody is between
  INCR and SET, `degTTL >= failTTL + (Cooldown - FailureWindow)` for a counter at the threshold (`MarkInv`). `Count` renews
  the counter's TTL and goes on to the SET, `Trip` sets the mark to the full
  cooldown, and `Tick` takes one off both. `CounterInv` (a counter has a TTL) makes the counter end
  before its mark. Both are stated but for a counter that is owed its TTL or its SET, by the two history variables; a resent
  INCR is a `Count` as any other. `OffInv` is for the case without a fallback provider.
  That a cooldown not shorter than the window is needed is seen in `MarkInv`.
  For the answers, `OnItsWay` says what each control state knows of the two calls.
* *Pipeline.* At most one request is about to raise the spike alert, it holds the fired key, the
  alert has not been raised yet, and the cost is over the threshold and stays there (`SpikeInv`);
  what is raised has its fired key (`FiredInv`). `StepInv` gives the types of the flags and of the anomalies left.
  `ListInv`: a list is a beginning of what has been pushed to it, and longer than its cap by at most one entry for each worker
  between its LPUSH and its LTRIM, and `NumWorkers` for each fault - a crash takes all of these workers with it, and what they
  pushed stays. `DriftInv`: each counter lies between the requests that have surely been counted and those that may
  have been, give or take the faults; the day's figures are then compared by way of the requests. `CrossInv`: without
  a fault, a limit that is exceeded and not alerted has a request on its way to the check, for who counts goes on to compare
  - unless the row is not written, which is why the spike alert asks for `writesOK` and the budget alert does not.
* *Verdicts.* `Distance` is a function of functions, each cell defined from its neighbours. First it is brought to
  two equations over the last runes of the texts (`TableOf`, `TableHolds`, `DistanceOfLonger`), where everything else starts:
  it is symmetric, it is 0 just for equal texts (`NoDistance`), a rune more makes a difference of at most one
  (`OneRuneMore`), and so does any edit (`EditByOne`). The other direction needs a witness: two texts that differ
  have an edit of one that brings it nearer and leaves it no longer than the longer of the two (`Nearer`), which is why
  the reference definition may stay among texts of `MaxText` runes. That a recursive function has a value at all, and each
  induction, rests on the least number of a set (`LeastNumber`), which the library proves of the naturals; its induction theorems,
  which take an operator as a parameter, are not used.
* *Sessions.* The overshoot is counted: while the circuit is not tripped, each step over the limit is that of a worker that
  has seen the limit and is about to trip it (`Over`, one per worker at most); once it is tripped only those past
  their check (`Pre`) can add a step. Each reset, failed command and crash can let a whole set of workers go, which
  is `Spare`. That a crash takes *all* workers about to trip was found in this proof: a bound with one step per fault
  is too small. `LostInv` follows what is to be deleted, from the HGETALL on: the hash has counted nobody since whom the
  HGETALL did not see and who did not race with it, and the list holds nobody since the LRANGE; whoever is between its RPUSH and its HINCRBY is in the list or
  has raced. `OnceInv` says that without faults a trace is pushed once and read into the quality of one row, `CountInv` that it is counted once and
  read into the counts of one row, and `NumbersInv` that steps are as many as the traces counted (a resent pipeline breaks all three, and takes a fault); `OrphanInv` names the command of an AddTrace under way that will
  give a key its TTL, or the list its hash.
  `CalmInv`: without faults and races, the counters are the number and the cost of the traces whose AddTrace has come so far,
  the list holds those that have been pushed, and what CloseSession has read is what it will write. A cost is a sum over a set of traces:
  it is proved about as the number of its units, pairs of a trace and a number (`Units`), for which the library's theorems
  on cardinality do. `TripInv`: while the circuit is closed, a limit that has been reached has been seen by a trace that will
  trip it - the HINCRBY that reaches the limit returns so.
  The ledger: a trace is entered by the HINCRBY of its step, all other commands of AddTrace are stutters of the ledger, and
  of CloseSession's commands only the INSERT is a step. From there to the DEL the traces are still in Redis while the ledger counts
  them as closed, hence `Open`. While it is calm, `CalmInv` makes the row that is written the one of the ledger; the reaper never
  closes an empty session because a hash that it sees has a list (`FilledInv`). `Weather` is how much the ledger promises: once AddTraces
  and closes have overlapped, that no trace is in the quality of two rows or counted in two, and that steps are the number of the traces counted
  (`OnceInv`, `CountInv`, `NumbersInv`); after a fault, that rows stay - a failed INSERT may have
  taken effect, and the close is begun again. What this means for the rows is `RowsAddUp`.
* *Settings.* What a refresh holds is a past state of its table (`PastInv`), and agrees with the
  table on the rows that its own POST has saved and nobody else has touched (`MineInv`), and on all that have not been saved since its query (`BehindInv`), so that what a swap takes back is `behind`;
  what is left to be saved is a payload of its table (`TodoInv`). The rest follows when it is swapped in. `ContentInv` adds the
  types of the tables' past.
* *Windows.* For the rate limit: a key of a minute outlives all calls stamped with that minute (here the TTL of 70 s for
  60 s is needed), so its counter has counted every one of them, and those who passed saw a value of at most the limit (`MinuteInv`).
  For the alarms: without a fault, a counter that is not 0 counts exactly a set of calls of one window, the first of
  which sets, or has set, the TTL (`OneWindow`). For the bursts of retries: a window is open since the first of its
  calls, fewer than `Limit` passed in the one before, and no span as long as a window reaches further back than that (`SpanInv`), with or without faults.
* *EvalRun.* Slots and counts are the numbers of goroutines in certain control states (`CountInv`), and a verdict rests on a
  score and a threshold that no longer change (`NoGoroutine`), the threshold being any number that was asked, negative ones among them; a result is its case's verdict, and missing only for a
  deletion, a fault or a client that has left (`ResultInv`).
* *Accounts.* Rows are named by the request that wrote them; the invariant follows each organisation, user and
  session back to its request, whose form and finding no longer change, and says why an organisation has no owner (`OrphanInv`).

Only model-checked: all liveness (`BufferedIsHandled`, `ShutdownEnds`, `WebhooksSettle`, `SessionsAreClosed`, `HealthRecovers`,
`Converges`, `RunsEnd`), since temporal properties under fairness and ENABLED are not in reach of the prover, and the
counterexamples of section 6, which are runs. Every invariant, action property and refinement of a passing run is proved.
No module declares a RECURSIVE operator, so that each can be proved about.

## 6 What the code does against its own words

Each of the first three is a run that ends in a counterexample.

1. `emitter_drain`: the comment of `runWorker` says "once ctx is cancelled, drains any remaining buffered events"
   "using a fresh background context so process functions can still complete." (emitter.go:112-113). The outer select may still
   receive after the cancellation (117-118), and the process function then runs with the cancelled context, so that its calls fail.
   The trace is an ordinary stop: a signal, the return of `srv.Shutdown`, `cancelEmitter`, such a receive of an event that was
   buffered at the cancellation, the exit of all workers, and a `Stop` that logs "emitter stopped cleanly" (105).
2. `sessions_lost`: a trace is buffered, and `CloseSession` reads the hash (session.go:306) and the list (311). Another trace's
   whole pipeline is executed, and its `AddTrace` returns without an error. Then the row is inserted (369), without it, and the DEL (385)
   deletes it with the first one: it is counted in no row, and in no row's quality. A trace that comes between HGETALL and LRANGE is
   lost by half, its quality in the row and its step and cost not; `OnlyRacedTracesLost` says that nobody else is.
3. `proxy_cache`: a 200 of the fallback after a 5xx of the primary is cached under the *primary's*
   name (handler.go:336), although the key has the provider in it so that they "never collide" (93-94).

Others are conditions in the properties, for readers of the code:

* the spike check is made only if the ClickHouse write succeeded (main.go:456): see the `writesOK` in `CrossingAlerted`. The budget
  check has no such condition;
* an alert whose key is set and whose worker then crashes, or whose reply is lost, is never raised that day;
* two registrations with one address and different names can pass the look-ups together; the loser's
  organisation stays, without an owner, and its name is taken for good (`OrphansAreExplained`);
* a lost EXPIRE leaves a retry-loop key for ever: every later call counts as a loop (`OverIsRecent` is stated without faults);
* a close whose INSERT took effect while its reply was lost, or whose DEL fails, is begun again and writes a second row; a pipeline
  whose reply is lost is sent again and counts its step and cost twice (`RowsAddUp` is stated without faults);
* the circuit key lives for 24 h (session.go:187, `sessionTTL`), where the comment above it has it match the idle
  timeout, which is 5 minutes (82): a tripped session is refused for a day unless it is reset;
* a crash while N workers are about to trip a breaker takes all of them: N more steps pass (`OvershootBounded`);
* a webhook is tried four times with three delays of 0.5, 1 and 2 s between; the comment of `sendWebhook`
  (main.go:1162-1164) lists a fourth, of 4 s, which no attempt follows;
* a clean stop ends webhooks in their delays (main.go:1193), whose alerts are claimed for the day: the `~Running` in `WebhooksSettle`.
  An e-mail is not sent by a worker whose context is cancelled, and `smtp.SendMail` has no deadline;
* the verifier falls back to the edit distance if the scorer fails (verifier.go:71-72), but does not look at the status of its
  answer: an error in JSON counts as an agreement of 0, a disagreement (hence the 0 in `Agreements`);
* a scorer that fails, or whose context is cancelled, leaves zeros, and a grounding of 0 is a high risk: a warning is
  counted and its webhook sent for an answer nobody has judged (`NoScores`);
* a baseline without spread hides every deviation (`Deviates`: `std > 0`), however large;
* a negative `pass_threshold` of a suite is not refused (handlers.go:1051), and with it a case passes whose scorer answered an
  error in JSON, with a quality and a risk of 0 (`Passable`); one whose call failed outright does not, its risk being 0.5;
* a malformed `base_url` of a run, or a malformed scorer URL, ends the gateway: the error of `NewRequestWithContext` is ignored
  (handlers.go:1232, 1274) and the nil request used in a goroutine (`Panic`). The run's row then stays without counts;
* a refresh that read a settings table before a row was saved and is swapped in later takes the row back until the next
  (`behind` in `SavedIsVisible`);
* the three failures that degrade a provider may lie up to twice the "60s" of the package comment apart (manager.go:9): each
  renews the counter's TTL, and the comment above calls it sliding;
* at start-up users' budgets are not loaded (main.go:118): none is enforced until the loop's first tick.

## 7 What is not modelled

* *PII masker, security detector*: text processing by regular expressions; the block is an action of Proxy.
* *Compare, replay*: they forward prompts - the comparison in goroutines that write to slots of their own and are waited
  for - and answer; no state is shared or stays.
* *Read handlers*: queries of Redis and ClickHouse, without an effect.
* *Trace storage, start-up and configuration, metrics and tracing*: a single INSERT, sequential code with retries, write-only counters.
* *Scorer service, dashboard, SDKs, Helm chart*: other programs.
* *More than one gateway.* Every module has one process: one reaper, one set of maps, one emitter. The Helm chart's
  `replicaCount` is 1 by default but may be set higher (helm/ajah/values.yaml:4), and then the properties of sections 3 and 5 are not
  claimed: two reapers may find one session idle and write a row each, and a POST refreshes the maps of its own process only.
* *Assumed, and nowhere enforced*: that a rate-limited request's INCR reaches Redis within 10 s of its stamp (`MaxDelay`); that
  the ids of `evalID`, from a clock of nanoseconds, are unique, since two results with one id would be one; that
  SQL statements end.
* In modelled parts: `CheckDeadStep` with its trigram similarity, `DeleteExpiredSessions` and `RequireAuth`, which the gateway does not
  call; what the provider keys and the SMTP configuration hold, which no map caches; the exchange of the detector's baselines every five
  minutes (under a lock: a request meets one or the other, and the model leaves open which); wording of reasons and
  payloads; a real clock in the request path (a fallback call may outlast the server's write timeout, main.go:762).

`PROJECT.json` gives the status of each component and, under `map`, the lines each definition models.

## 8 Plan

Done: the modules of section 2 with their runs, and the proofs of section 5: of all invariants, action properties and
refinements of the passing runs. Next, by importance:

1. A clock per request in Proxy: answers that come after the server's write deadline.
2. A composition of Proxy and Sessions: how many calls a tripped session still makes to the provider, with as many requests
   in flight as there are.
