------------------------------ MODULE Sessions -------------------------------
(***************************************************************************)
(* One agent session in the gateway: the circuit-breaker check of the      *)
(* proxy, AddTrace of the background workers, the reaper that closes idle  *)
(* sessions into ClickHouse, and the administrator's circuit reset         *)
(* (internal/sessions/session.go with its callers).                        *)
(*                                                                         *)
(* They share nothing but Redis.  Every Redis command is one atomic step;  *)
(* AddTrace's pipeline is NOT a transaction, so the commands of other      *)
(* clients fall between its commands.  A session's keys are named by its   *)
(* id, so sessions do not interact and one session is enough.              *)
(***************************************************************************)
EXTENDS Naturals, Sequences, FiniteSets, Functions

CONSTANTS
    Traces,      \* the session's requests, one trace each
    Limited,     \* those whose feature has circuit-breaker limits
    Cost,        \* cost of each trace
    MaxSteps,    \* step limit, 0 if disabled
    MaxCost,     \* cost limit, 0 if disabled
    NumWorkers,  \* background workers
    MaxResets,   \* bound: resets and expiries of the circuit key
    MaxFaults    \* bound: failed commands and crashes

ASSUME SessionsAssumption ==
    /\ IsFiniteSet(Traces) /\ Limited \subseteq Traces
    /\ Cost \in [Traces -> Nat]
    /\ MaxSteps \in Nat /\ MaxCost \in Nat
    /\ NumWorkers \in Nat \ {0}
    /\ MaxResets \in Nat /\ MaxFaults \in Nat

VARIABLES
    st,        \* per trace: how far its request and its AddTrace have got
    traces,    \* Redis list   session:<id>:traces
    meta,      \* Redis hash   session:<id>:meta
    ttl,       \* which of the two keys has a TTL
    circuit,   \* Redis string ajah:circuit:tripped:<id>
    seenSteps, \* the HINCRBY result of a trace's pipeline
    seenCost,  \* the HINCRBYFLOAT result
    reaper,    \* control state of CloseSession
    snap,      \* what CloseSession has read
    rows,      \* the session's rows in agent_sessions
    resets, faults,
    counted,   \* history: traces whose cost, tokens and step the hash has counted
    raced,     \* history: traces buffered between CloseSession's HGETALL and its DEL
    expired,   \* history: traces whose list or hash ran into its TTL
    overlap    \* history: some AddTrace ran during some CloseSession

redis == <<traces, meta, ttl, circuit>>
locals == <<seenSteps, seenCost>>
closing == <<reaper, snap, rows>>
past == <<counted, raced, expired>>
hist == <<past, overlap>>
vars == <<st, redis, locals, closing, resets, faults, hist>>

\* A request waits in the emitter's queue, then AddTrace runs: the circuit
\* check, the pipeline's commands in order, the limit check.  A command that
\* sets fields nothing here reads (HSETNX start_time, HINCRBY total_tokens) is
\* part of the step of the command next to it.
InPipeline == {"push", "seen", "cost", "steps", "ttlTraces", "ttlMeta"}
InAddTrace == InPipeline \cup {"limit"}
Ended == {"rejected", "blocked", "ok", "tripped", "failed"}
NoMeta == [seen |-> "missing", cost |-> 0, steps |-> 0]
\* A row has the hash's counters and a quality taken from the list: it is known
\* here which traces the hash had counted and which were in the list.
NoSnap == [steps |-> 0, cost |-> 0, counted |-> {}, traces |-> {}]
Row == [steps : Nat, cost : Nat, counted : SUBSET Traces, traces : SUBSET Traces]

Busy == {t \in Traces : st[t] \in InAddTrace}
\* Pushed, and not counted yet.
Halfway == {t \in Traces : st[t] \in {"seen", "cost", "steps"}}
MetaExists == meta # NoMeta
\* The reaper scans for meta keys and skips those without last_seen.
Reapable == meta.seen # "missing"
\* A trace is in a row with its cost, tokens and step, and with its quality.
Flushed == UNION {rows[i].traces \cap rows[i].counted : i \in 1..Len(rows)}
\* A trace's cost is so many units, and the total is the number of them all.
TotalCost(S) == Cardinality(UNION {{t} \X (1..Cost[t]) : t \in S})

TypeOK ==
    /\ st \in [Traces -> {"new", "queued"} \cup InAddTrace \cup Ended]
    /\ traces \in Seq(Traces)
    /\ meta \in [seen : {"missing", "recent", "idle"}, cost : Nat, steps : Nat]
    /\ ttl \in [{"traces", "meta"} -> BOOLEAN]
    /\ circuit \in {"", "steps", "cost"}
    /\ seenSteps \in [Traces -> Nat] /\ seenCost \in [Traces -> Nat]
    /\ reaper \in {"idle", "readMeta", "readTraces", "write", "delete"}
    /\ snap \in Row /\ rows \in Seq(Row)
    /\ resets \in 0..MaxResets /\ faults \in 0..MaxFaults
    /\ counted \subseteq Traces /\ raced \subseteq Traces /\ expired \subseteq Traces
    /\ overlap \in BOOLEAN

Init ==
    /\ st = [t \in Traces |-> "new"]
    /\ traces = <<>>
    /\ meta = NoMeta
    /\ ttl = [k \in {"traces", "meta"} |-> FALSE]
    /\ circuit = ""
    /\ seenSteps = [t \in Traces |-> 0]
    /\ seenCost = [t \in Traces |-> 0]
    /\ reaper = "idle"
    /\ snap = NoSnap
    /\ rows = <<>>
    /\ resets = 0 /\ faults = 0
    /\ counted = {} /\ raced = {} /\ expired = {} /\ overlap = FALSE

Move(t, from, to) == st[t] = from /\ st' = [st EXCEPT ![t] = to]
Fault == faults < MaxFaults /\ faults' = faults + 1
MarkOverlap == overlap' = (overlap \/ reaper # "idle")

-----------------------------------------------------------------------------
(* The proxy.                                                              *)

\* ServeHTTP looks the circuit key up before it forwards the request; an error
\* of the lookup lets the request through.
Admit(t) ==
    /\ \/ /\ circuit = "" /\ Move(t, "new", "queued")
          /\ UNCHANGED faults
       \/ /\ circuit # "" /\ Move(t, "new", "rejected")
          /\ UNCHANGED faults
       \/ /\ circuit # "" /\ Move(t, "new", "queued")
          /\ Fault
    /\ UNCHANGED <<redis, locals, closing, resets, hist>>

\* DELETE /sessions/{id}/circuit, or the key's own 24 hours.
ResetCircuit ==
    /\ circuit # ""
    /\ resets < MaxResets
    /\ circuit' = ""
    /\ resets' = resets + 1
    /\ UNCHANGED <<st, traces, meta, ttl, locals, closing, faults, hist>>

-----------------------------------------------------------------------------
(* AddTrace.                                                               *)

\* Mutant: no check of the circuit.
CheckNothing(t) ==
    /\ Cardinality(Busy) < NumWorkers
    /\ Move(t, "queued", "push")
    /\ MarkOverlap
    /\ UNCHANGED <<redis, locals, closing, resets, faults, past>>

\* A background worker takes the trace up and checks the circuit: a tripped
\* session is left alone, an error of the check counts as "not tripped".
CheckCircuit(t) ==
    /\ Cardinality(Busy) < NumWorkers
    /\ \/ /\ circuit = "" /\ Move(t, "queued", "push")
          /\ UNCHANGED faults
       \/ /\ circuit # "" /\ Move(t, "queued", "blocked")
          /\ UNCHANGED faults
       \/ /\ circuit # "" /\ Move(t, "queued", "push")
          /\ Fault
    /\ MarkOverlap
    /\ UNCHANGED <<redis, locals, closing, resets, past>>

\* CloseSession has read the hash and not yet deleted the keys.
Closing == {"readTraces", "write", "delete"}

\* RPUSH traces
Push(t) ==
    /\ Move(t, "push", "seen")
    /\ traces' = Append(traces, t)
    /\ raced' = IF reaper \in Closing THEN raced \cup {t} ELSE raced
    /\ MarkOverlap
    /\ UNCHANGED <<meta, ttl, circuit, locals, closing, resets, faults, counted, expired>>

\* A command of the pipeline on the meta hash.
OnMeta(t, from, to, new) ==
    /\ Move(t, from, to)
    /\ meta' = new
    /\ MarkOverlap
    /\ UNCHANGED <<traces, ttl, circuit, closing, resets, faults, raced, expired>>

\* HSET last_seen, feature_name, user_id (and HSETNX start_time before it)
SetSeen(t) ==
    /\ OnMeta(t, "seen", "cost", [meta EXCEPT !.seen = "recent"])
    /\ UNCHANGED <<locals, counted>>

\* HINCRBYFLOAT total_cost; the reply is the new total.  (total_tokens, which
\* follows, is counted the same way and compared with nothing.)
AddCost(t) ==
    /\ OnMeta(t, "cost", "steps", [meta EXCEPT !.cost = @ + Cost[t]])
    /\ seenCost' = [seenCost EXCEPT ![t] = meta.cost + Cost[t]]
    /\ UNCHANGED <<seenSteps, counted>>

\* Mutant: counts down.
SubtractStep(t) ==
    /\ OnMeta(t, "steps", "ttlTraces", [meta EXCEPT !.steps = @ - 1])
    /\ seenSteps' = [seenSteps EXCEPT ![t] = meta.steps - 1]
    /\ counted' = counted \cup {t}
    /\ UNCHANGED seenCost

\* Mutant: checks the count read before the increment.
SeesStepsBefore(t) ==
    /\ OnMeta(t, "steps", "ttlTraces", [meta EXCEPT !.steps = @ + 1])
    /\ seenSteps' = [seenSteps EXCEPT ![t] = meta.steps]
    /\ counted' = counted \cup {t}
    /\ UNCHANGED seenCost

\* HINCRBY step_count; the reply is the new count.
AddStep(t) ==
    /\ OnMeta(t, "steps", "ttlTraces", [meta EXCEPT !.steps = @ + 1])
    /\ seenSteps' = [seenSteps EXCEPT ![t] = meta.steps + 1]
    /\ counted' = counted \cup {t}
    /\ UNCHANGED seenCost

\* Mutant: only the list gets a TTL.
SetTracesTTL(t) ==
    /\ \/ /\ Move(t, "ttlTraces", "ttlMeta")
          /\ ttl' = [ttl EXCEPT !["traces"] = (@ \/ traces # <<>>)]
       \/ /\ Move(t, "ttlMeta", "limit")
          /\ UNCHANGED ttl
    /\ MarkOverlap
    /\ UNCHANGED <<traces, meta, circuit, locals, closing, resets, faults, past>>

\* EXPIRE on each key; it does nothing to a key that does not exist.
SetTTL(t) ==
    /\ \/ /\ Move(t, "ttlTraces", "ttlMeta")
          /\ ttl' = [ttl EXCEPT !["traces"] = (@ \/ traces # <<>>)]
       \/ /\ Move(t, "ttlMeta", "limit")
          /\ ttl' = [ttl EXCEPT !["meta"] = (@ \/ MetaExists)]
    /\ MarkOverlap
    /\ UNCHANGED <<traces, meta, circuit, locals, closing, resets, faults, past>>

OverSteps(t) == MaxSteps > 0 /\ seenSteps[t] >= MaxSteps
OverCost(t)  == MaxCost > 0 /\ seenCost[t] >= MaxCost

DropLocals(t) ==
    /\ seenSteps' = [seenSteps EXCEPT ![t] = 0]
    /\ seenCost' = [seenCost EXCEPT ![t] = 0]

\* The limit check, on the values the pipeline returned, for a trace with a
\* feature name; the cost reason wins.  If a limit is reached, the circuit key
\* is SET; the error of that SET is not looked at.
CheckLimits(t) ==
    /\ \/ /\ t \in Limited /\ OverCost(t)
          /\ Move(t, "limit", "tripped")
          /\ circuit' = "cost" /\ UNCHANGED faults
       \/ /\ t \in Limited /\ OverSteps(t) /\ ~OverCost(t)
          /\ Move(t, "limit", "tripped")
          /\ circuit' = "steps" /\ UNCHANGED faults
       \/ /\ t \in Limited /\ (OverSteps(t) \/ OverCost(t))
          /\ Move(t, "limit", "tripped")
          /\ UNCHANGED circuit /\ Fault
       \/ /\ t \notin Limited \/ (~OverSteps(t) /\ ~OverCost(t))
          /\ Move(t, "limit", "ok")
          /\ UNCHANGED <<circuit, faults>>
    /\ DropLocals(t)
    /\ MarkOverlap
    /\ UNCHANGED <<traces, meta, ttl, closing, resets, past>>

\* The pipeline breaks off: the commands sent so far stay done.
PipelineFails(t) ==
    /\ st[t] \in InPipeline
    /\ Move(t, st[t], "failed")
    /\ Fault
    /\ DropLocals(t)
    /\ MarkOverlap
    /\ UNCHANGED <<redis, closing, resets, past>>

\* The reply of the pipeline is lost, and go-redis sends it again: what has been
\* done of it is done once more.
Resend(t) ==
    /\ st[t] \in (InPipeline \ {"push"}) \cup {"limit"}
    /\ Move(t, st[t], "push")
    /\ Fault
    /\ DropLocals(t)
    /\ MarkOverlap
    /\ UNCHANGED <<redis, closing, resets, past>>

-----------------------------------------------------------------------------
(* Time and the reaper.                                                    *)

\* The session has been idle for longer than its timeout.  The commands of a
\* pipeline follow each other within milliseconds, so this does not happen
\* between HSET last_seen and the end of its pipeline.
GoIdle ==
    /\ meta.seen = "recent"
    /\ \A t \in Traces : st[t] \notin {"cost", "steps", "ttlTraces", "ttlMeta"}
    /\ meta' = [meta EXCEPT !.seen = "idle"]
    /\ UNCHANGED <<st, traces, ttl, circuit, locals, closing, resets, faults, hist>>

\* The 24 hours of a key's TTL pass: only if the reaper cannot see the session
\* or has been failing for as long.
Expire(k) ==
    /\ ttl[k]
    /\ Busy = {} /\ meta.seen # "recent"
    /\ ~Reapable \/ faults > 0
    /\ ttl' = [ttl EXCEPT ![k] = FALSE]
    /\ \/ /\ k = "traces"
          /\ traces' = <<>> /\ expired' = expired \cup Range(traces)
          /\ UNCHANGED <<meta, counted>>
       \/ /\ k = "meta"
          /\ meta' = NoMeta
          /\ counted' = {} /\ expired' = expired \cup counted
          /\ UNCHANGED traces
    /\ UNCHANGED <<st, circuit, locals, closing, resets, faults, raced, overlap>>

\* reapExpired finds the session idle and calls CloseSession.
BeginClose ==
    /\ reaper = "idle"
    /\ meta.seen = "idle"
    /\ reaper' = "readMeta"
    /\ overlap' = (overlap \/ Busy # {})
    /\ UNCHANGED <<st, redis, locals, snap, rows, resets, faults, past>>

\* HGETALL meta
ReadMeta ==
    /\ reaper = "readMeta"
    /\ snap' = [snap EXCEPT !.steps = meta.steps, !.cost = meta.cost, !.counted = counted]
    /\ reaper' = "readTraces"
    /\ raced' = raced \cup Halfway
    /\ UNCHANGED <<st, redis, locals, rows, resets, faults, counted, expired, overlap>>

\* LRANGE traces
ReadTraces ==
    /\ reaper = "readTraces"
    /\ snap' = [snap EXCEPT !.traces = Range(traces)]
    /\ reaper' = "write"
    /\ UNCHANGED <<st, redis, locals, rows, resets, faults, hist>>

\* Mutant: goes on to the DEL after a failed insert.
WriteRowIgnoringErrors ==
    /\ reaper = "write"
    /\ \/ rows' = Append(rows, snap) /\ UNCHANGED faults
       \/ UNCHANGED rows /\ Fault
    /\ reaper' = "delete"
    /\ UNCHANGED <<st, redis, locals, snap, resets, hist>>

\* WriteSession inserts the row.
WriteRow ==
    /\ reaper = "write"
    /\ rows' = Append(rows, snap)
    /\ reaper' = "delete"
    /\ UNCHANGED <<st, redis, locals, snap, resets, faults, hist>>

\* Mutant: leaves the hash.
DeleteTracesOnly ==
    /\ reaper = "delete"
    /\ traces' = <<>>
    /\ ttl' = [ttl EXCEPT !["traces"] = FALSE]
    /\ reaper' = "idle" /\ snap' = NoSnap
    /\ UNCHANGED <<st, meta, circuit, locals, rows, resets, faults, hist>>

\* DEL of both keys, one command.
DeleteKeys ==
    /\ reaper = "delete"
    /\ traces' = <<>> /\ meta' = NoMeta
    /\ ttl' = [k \in {"traces", "meta"} |-> FALSE]
    /\ reaper' = "idle" /\ snap' = NoSnap
    /\ counted' = {}
    /\ UNCHANGED <<st, circuit, locals, rows, resets, faults, raced, expired, overlap>>

\* Mutant: the reaper's goroutine ends with the error.
ReaperDiesOnError ==
    /\ reaper # "idle"
    /\ Fault
    /\ reaper' = "dead" /\ snap' = NoSnap
    /\ UNCHANGED <<st, redis, locals, rows, resets, hist>>

\* A command of CloseSession fails: it returns at once, and the next tick
\* starts over.  A failed insert may have taken effect.
CloseFails ==
    /\ reaper # "idle"
    /\ Fault
    /\ \/ UNCHANGED rows
       \/ reaper = "write" /\ rows' = Append(rows, snap)
    /\ reaper' = "idle" /\ snap' = NoSnap
    /\ UNCHANGED <<st, redis, locals, resets, hist>>

\* The gateway crashes: queue, workers and reaper are gone, Redis stays.
Crash ==
    /\ Fault
    /\ st' = [t \in Traces |-> IF st[t] \in {"queued"} \cup InAddTrace THEN "failed" ELSE st[t]]
    /\ seenSteps' = [t \in Traces |-> 0]
    /\ seenCost' = [t \in Traces |-> 0]
    /\ reaper' = "idle" /\ snap' = NoSnap
    /\ UNCHANGED <<redis, rows, resets, hist>>

-----------------------------------------------------------------------------
AddTrace(t) ==
    \/ CheckCircuit(t) \/ Push(t) \/ SetSeen(t) \/ AddCost(t) \/ AddStep(t)
    \/ SetTTL(t) \/ CheckLimits(t)

CloseSession == BeginClose \/ ReadMeta \/ ReadTraces \/ WriteRow \/ DeleteKeys

Next ==
    \/ \E t \in Traces : Admit(t) \/ AddTrace(t) \/ PipelineFails(t) \/ Resend(t)
    \/ CloseSession \/ CloseFails
    \/ GoIdle \/ \E k \in {"traces", "meta"} : Expire(k)
    \/ ResetCircuit
    \/ Crash

\* Workers and the reaper's ticker run, and time passes.
Fairness ==
    /\ \A t \in Traces : WF_vars(AddTrace(t))
    /\ WF_vars(CloseSession)
    /\ WF_vars(GoIdle)

Spec == Init /\ [][Next]_vars
FairSpec == Spec /\ Fairness

-----------------------------------------------------------------------------
(* Properties.                                                             *)

\* The traces whose RPUSH and HINCRBYs have certainly been executed.
Buffered == {t \in Traces : st[t] \in {"ttlTraces", "ttlMeta", "limit", "ok", "tripped"}}

\* The breaker works behind the proxy's back: a session can run past its step
\* limit, by no more than the traces the other workers had past their check
\* when the limit was reached, anew after each reset and each failed command or
\* crash (a crash takes all the workers that were about to trip it), and by
\* those that no limit applies to.
OvershootBounded ==
    MaxSteps > 0 =>
        meta.steps <= (MaxSteps - 1) + NumWorkers * (1 + resets + faults)
                      + Cardinality(Traces \ Limited)

\* However the increments of concurrent AddTraces interleave, one of them sees
\* the limit reached: without faults, resets and closes, an untripped session
\* at rest holds fewer than MaxSteps limited traces that cost less than MaxCost.
LimitNeverMissed ==
    (Busy = {} /\ circuit = "" /\ resets = 0 /\ faults = 0 /\ ~overlap) =>
        LET held == Range(traces) \cap Limited
        IN  /\ MaxSteps > 0 => Cardinality(held) < MaxSteps
            /\ MaxCost > 0 => TotalCost(held) < MaxCost

\* A trace that was buffered is wholly in Redis, in the list and in the hash's
\* counters, or wholly in one row of agent_sessions, in its counters and in its
\* quality, unless it was under way while CloseSession was between its HGETALL
\* and its DEL, or a key outlived a day of failed closes.
OnlyRacedTracesLost == Buffered \subseteq (Range(traces) \cap counted) \cup Flushed \cup raced \cup expired

\* Between pipelines a buffered trace is never out of the reaper's sight, and
\* no key of the session is without a TTL: even when a DEL fell in the middle
\* of a pipeline, nothing stays in Redis for ever.
NothingOrphaned ==
    (Busy = {} /\ faults = 0) =>
        /\ traces # <<>> => Reapable /\ ttl["traces"]
        /\ MetaExists => ttl["meta"]

\* A session the reaper can see is closed, for any finite number of faults.
SessionsAreClosed == Reapable ~> ~Reapable

\* The package's promise (session.go: "flushes completed sessions to
\* ClickHouse"): a trace that AddTrace buffered without an error reaches a row,
\* is counted in it or at least taken into its quality.
EveryTraceIsFlushed ==
    faults = 0 =>
        {t \in Traces : st[t] = "ok"}
            \subseteq Range(traces) \cup UNION {rows[i].counted \cup rows[i].traces : i \in 1..Len(rows)}

\* Seen from outside, a session is a ledger: AddTrace enters a trace with its
\* HINCRBY, however the workers interleave, and CloseSession's commands make one
\* row of all that has been entered, unless an AddTrace overlaps them.
Entered == {t \in Traces : t \in Range(traces) \ Halfway}
Open == IF reaper = "delete" THEN {} ELSE Entered
Weather == IF faults > 0 THEN "faulty" ELSE IF overlap THEN "crowded" ELSE "calm"
L == INSTANCE Ledger WITH Total <- TotalCost, open <- Open, closed <- rows, weather <- Weather
ImplementsLedger == L!LSpec
=============================================================================
