------------------------------- MODULE EvalRun -------------------------------
(***************************************************************************)
(* One evaluation suite: its cases are edited, and runs of it are made, by *)
(* concurrent requests (cmd/gateway/handlers.go, internal/db/postgres.go). *)
(* A run reads the cases, creates its row and starts a goroutine for each  *)
(* case, of which as many as there are slots work at a time: a case is     *)
(* answered by the LLM, scored by the scorer, its result inserted and its  *)
(* verdict counted.  At the end the counts are written to the run's row.   *)
(*                                                                         *)
(* Every SQL statement is a step.  Errors of the INSERT of a result and of *)
(* the final UPDATE are ignored by the code.  All of it uses the request's *)
(* context: when the client leaves, what remains to be done fails.         *)
(*                                                                         *)
(* Scores are in tenths.                                                   *)
(***************************************************************************)
EXTENDS Integers, FiniteSets

CONSTANTS
    Runs,       \* requests to run the suite
    Cases,      \* cases that may be added to it
    Slots,      \* how many cases of a run work at a time (3 in the code)
    Requested,  \* thresholds asked for at the suite's creation, 0 for none
    MaxFaults   \* bound: failed statements and crashes

ASSUME EvalRunAssumption ==
    /\ IsFiniteSet(Cases)
    /\ Slots \in Nat \ {0}
    /\ Requested \subseteq Int
    /\ MaxFaults \in Nat

VARIABLES
    suite,      \* table eval_suites
    threshold,  \* its column pass_threshold
    case,       \* table eval_cases
    row,        \* table eval_runs
    results,    \* table eval_results
    pc,         \* control state of each run
    left,       \* runs whose client has left
    limit,      \* the threshold that a run has read
    todo,       \* the cases that a run has read
    job,        \* control state of a run's goroutines
    score,      \* what the scorer said of a case's answer
    busy,       \* slots taken in a run's semaphore
    tally,      \* a run's passCount and failCount
    faults

db    == <<suite, threshold, case, row, results>>
local == <<limit, todo, job, score, busy, tally>>
vars  == <<db, pc, left, local, faults>>

None == [quality |-> 0, risk |-> 5]

\* A scorer that answers with JSON of another kind, such as an error's.
Blank == [quality |-> 0, risk |-> 0]

Scored == {[quality |-> 9, risk |-> 2], [quality |-> 6, risk |-> 6]}

Passed(r, c) == score[r][c].quality >= limit[r] /\ score[r][c].risk <= 4

Active == {"suite", "list", "create", "run"}

TypeOK ==
    /\ suite \in {"none", "there", "gone"}
    /\ threshold \in Int
    /\ case \in [Cases -> {"none", "there", "gone"}]
    /\ row \in [Runs -> [there : BOOLEAN, pass : Nat, fail : Nat]]
    /\ results \subseteq [run : Runs, case : Cases, passed : BOOLEAN]
    /\ pc \in [Runs -> Active \cup {"new", "refused", "done", "crashed"}]
    /\ left \subseteq Runs
    /\ limit \in [Runs -> Int]
    /\ todo \in [Runs -> SUBSET Cases]
    /\ job \in [Runs -> [Cases -> {"wait", "work", "insert", "count", "done"}]]
    /\ score \in [Runs -> [Cases -> Scored \cup {None, Blank}]]
    /\ busy \in [Runs -> 0..Slots]
    /\ tally \in [Runs -> [pass : Nat, fail : Nat]]
    /\ faults \in 0..MaxFaults

NoTally == [pass |-> 0, fail |-> 0]
NoRow   == [there |-> FALSE, pass |-> 0, fail |-> 0]
Row(t)  == [there |-> TRUE, pass |-> t.pass, fail |-> t.fail]

Init ==
    /\ suite = "none" /\ threshold = 0
    /\ case = [c \in Cases |-> "none"]
    /\ row = [r \in Runs |-> NoRow]
    /\ results = {}
    /\ pc = [r \in Runs |-> "new"]
    /\ left = {}
    /\ limit = [r \in Runs |-> 0]
    /\ todo = [r \in Runs |-> {}]
    /\ job = [r \in Runs |-> [c \in Cases |-> "wait"]]
    /\ score = [r \in Runs |-> [c \in Cases |-> None]]
    /\ busy = [r \in Runs |-> 0]
    /\ tally = [r \in Runs |-> NoTally]
    /\ faults = 0

Fault == faults < MaxFaults /\ faults' = faults + 1

-----------------------------------------------------------------------------
(* The suite and its cases.  A statement that fails without effect changes  *)
(* nothing.                                                                 *)

\* Mutant: a suite without a threshold passes everything.
ThresholdAsAsked(t) == t

\* Without a threshold 0.7 is taken.  A negative one is not refused.
ThresholdFor(t) == IF t = 0 THEN 7 ELSE t

CreateSuite ==
    /\ suite = "none" /\ suite' = "there"
    /\ \E t \in Requested : threshold' = ThresholdFor(t)
    /\ UNCHANGED <<case, row, results, pc, left, local, faults>>

\* The suite's row goes, and with it its cases, runs and results.
DeleteSuite ==
    /\ suite = "there" /\ suite' = "gone"
    /\ case' = [c \in Cases |-> IF case[c] = "there" THEN "gone" ELSE case[c]]
    /\ row' = [r \in Runs |-> NoRow]
    /\ results' = {}
    /\ UNCHANGED <<threshold, pc, left, local, faults>>

\* A case of a suite that is there: otherwise the foreign key fails.
CreateCase(c) ==
    /\ suite = "there" /\ case[c] = "none"
    /\ case' = [case EXCEPT ![c] = "there"]
    /\ UNCHANGED <<suite, threshold, row, results, pc, left, local, faults>>

DeleteCase(c) ==
    /\ case[c] = "there"
    /\ case' = [case EXCEPT ![c] = "gone"]
    /\ results' = {x \in results : x.case # c}
    /\ UNCHANGED <<suite, threshold, row, pc, left, local, faults>>

-----------------------------------------------------------------------------
(* A run.                                                                   *)

Go(r, from, to) == pc[r] = from /\ pc' = [pc EXCEPT ![r] = to]

\* A statement of run r before its goroutines start finds nothing, or fails.
Refuse(r, from) ==
    /\ Go(r, from, "refused")
    /\ UNCHANGED <<db, left, local>>

Start(r) ==
    /\ Go(r, "new", "suite")
    /\ UNCHANGED <<db, left, local, faults>>

GetSuite(r) ==
    \/ /\ suite = "there" /\ r \notin left
       /\ Go(r, "suite", "list")
       /\ limit' = [limit EXCEPT ![r] = threshold]
       /\ UNCHANGED <<db, left, todo, job, score, busy, tally, faults>>
    \/ /\ suite # "there" \/ r \in left
       /\ Refuse(r, "suite") /\ UNCHANGED faults
    \/ Refuse(r, "suite") /\ Fault

ThereNow == {c \in Cases : case[c] = "there"}

ListCases(r) ==
    \/ /\ ThereNow # {} /\ r \notin left
       /\ Go(r, "list", "create")
       /\ todo' = [todo EXCEPT ![r] = ThereNow]
       /\ UNCHANGED <<db, left, limit, job, score, busy, tally, faults>>
    \/ /\ ThereNow = {} \/ r \in left
       /\ Refuse(r, "list") /\ UNCHANGED faults
    \/ Refuse(r, "list") /\ Fault

InsertRow(r) ==
    /\ suite = "there"
    /\ row' = [row EXCEPT ![r] = Row(NoTally)]
    /\ UNCHANGED <<suite, threshold, case, results>>

CreateEvalRun(r) ==
    \/ /\ r \notin left /\ InsertRow(r)
       /\ Go(r, "create", "run")
       /\ UNCHANGED <<left, local, faults>>
    \/ /\ suite # "there" \/ r \in left
       /\ Refuse(r, "create") /\ UNCHANGED faults
    \/ Refuse(r, "create") /\ Fault
    \/ /\ InsertRow(r) /\ Fault            \* done, but its reply is lost
       /\ Go(r, "create", "refused")
       /\ UNCHANGED <<left, local>>

-----------------------------------------------------------------------------
(* The goroutine of case c of run r.                                        *)

GoJob(r, c, from, to) ==
    /\ pc[r] = "run" /\ c \in todo[r]
    /\ job[r][c] = from /\ job' = [job EXCEPT ![r][c] = to]

Acquire(r, c) ==
    /\ busy[r] < Slots /\ busy' = [busy EXCEPT ![r] = @ + 1]
    /\ GoJob(r, c, "wait", "work")
    /\ UNCHANGED <<db, pc, left, limit, todo, score, tally, faults>>

\* The LLM answers or not, and the scorer.  Nothing is asked of them, and
\* nothing comes back, once the client has left.
Assess(r, c) ==
    /\ GoJob(r, c, "work", "insert")
    /\ \E s \in {None} \cup (IF r \in left THEN {} ELSE Scored \cup {Blank}) :
          score' = [score EXCEPT ![r][c] = s]
    /\ UNCHANGED <<db, pc, left, limit, todo, busy, tally, faults>>

Result(r, c) == [run |-> r, case |-> c, passed |-> Passed(r, c)]

\* The foreign keys fail when the run or the case has been deleted.
Storable(r, c) == row[r].there /\ case[c] = "there" /\ r \notin left

CreateEvalResult(r, c) ==
    /\ GoJob(r, c, "insert", "count")
    /\ \/ /\ results' = IF Storable(r, c) THEN results \cup {Result(r, c)} ELSE results
          /\ UNCHANGED faults
       \/ UNCHANGED results /\ Fault
    /\ UNCHANGED <<suite, threshold, case, row, pc, left, limit, todo, score, busy, tally>>

Counted(t, pass) ==
    IF pass THEN [t EXCEPT !.pass = @ + 1] ELSE [t EXCEPT !.fail = @ + 1]

\* Mutant: what could not be stored is not counted.
CountStored(r, c) ==
    /\ GoJob(r, c, "count", "done")
    /\ tally' = IF Result(r, c) \in results
                THEN [tally EXCEPT ![r] = Counted(@, Passed(r, c))] ELSE tally
    /\ busy' = [busy EXCEPT ![r] = @ - 1]
    /\ UNCHANGED <<db, pc, left, limit, todo, score, faults>>

\* Mutant: the slot is given back by the code that counts and by the defer.
CountTwiceReleased(r, c) ==
    /\ GoJob(r, c, "count", "done")
    /\ tally' = [tally EXCEPT ![r] = Counted(@, Passed(r, c))]
    /\ busy' = [busy EXCEPT ![r] = @ - 2]
    /\ UNCHANGED <<db, pc, left, limit, todo, score, faults>>

\* Mutant: a case that failed keeps its slot.
CountLeaking(r, c) ==
    /\ GoJob(r, c, "count", "done")
    /\ tally' = [tally EXCEPT ![r] = Counted(@, Passed(r, c))]
    /\ busy' = IF Passed(r, c) THEN [busy EXCEPT ![r] = @ - 1] ELSE busy
    /\ UNCHANGED <<db, pc, left, limit, todo, score, faults>>

\* Under the mutex; then the slot is given back.
Count(r, c) ==
    /\ GoJob(r, c, "count", "done")
    /\ tally' = [tally EXCEPT ![r] = Counted(@, Passed(r, c))]
    /\ busy' = [busy EXCEPT ![r] = @ - 1]
    /\ UNCHANGED <<db, pc, left, limit, todo, score, faults>>

\* After wg.Wait.
UpdateEvalRun(r) ==
    /\ Go(r, "run", "done")
    /\ \A c \in todo[r] : job[r][c] = "done"
    /\ \/ /\ row' = IF row[r].there /\ r \notin left
                    THEN [row EXCEPT ![r] = Row(tally[r])]
                    ELSE row
          /\ UNCHANGED faults
       \/ UNCHANGED row /\ Fault
    /\ UNCHANGED <<suite, threshold, case, results, left, local>>

-----------------------------------------------------------------------------
\* The client of run r leaves, or its connection is cut.
Leave(r) ==
    /\ pc[r] \in Active /\ r \notin left
    /\ left' = left \cup {r}
    /\ UNCHANGED <<db, pc, local, faults>>

\* The gateway ends, and every run with it.
ProcessEnds ==
    /\ pc' = [r \in Runs |-> IF pc[r] \in Active THEN "crashed" ELSE pc[r]]
    /\ UNCHANGED <<db, left, local>>

\* The URL of the LLM (the request's base_url) or of the scorer is malformed: the
\* error of NewRequestWithContext is ignored and the request is nil.  The panic
\* is in a goroutine of the run's own, where nothing recovers it.
Panic(r, c) ==
    /\ pc[r] = "run" /\ job[r][c] = "work"
    /\ ProcessEnds /\ UNCHANGED faults

Crash ==
    /\ Fault
    /\ \E r \in Runs : pc[r] \in Active
    /\ ProcessEnds

Job(r, c)  == Acquire(r, c) \/ Assess(r, c) \/ CreateEvalResult(r, c) \/ Count(r, c)
Handler(r) == GetSuite(r) \/ ListCases(r) \/ CreateEvalRun(r) \/ UpdateEvalRun(r)

Next ==
    \/ CreateSuite \/ DeleteSuite
    \/ \E c \in Cases : CreateCase(c) \/ DeleteCase(c)
    \/ \E r \in Runs :
          \/ Start(r) \/ Handler(r) \/ Leave(r)
          \/ \E c \in Cases : Job(r, c) \/ Panic(r, c)
    \/ Crash

Spec == Init /\ [][Next]_vars

\* The goroutines are scheduled, and their calls end: the HTTP clients have
\* timeouts of 60 s and 45 s.
FairSpec ==
    /\ Spec
    /\ \A r \in Runs : WF_vars(Handler(r))
    /\ \A r \in Runs, c \in Cases : WF_vars(Job(r, c))

-----------------------------------------------------------------------------
\* What the dashboard is shown of a run (handlers.go:1320-1340): its row has
\* no counts yet, or counts every case that the run read with its verdict.
\* The results agree with them: each says what was counted, and one is only
\* missing when a statement failed, the client left or its case was deleted.
RunRowIsHonest ==
    \A r \in Runs :
        /\ row[r].there /\ row[r].pass + row[r].fail > 0 =>
              /\ row[r].pass = Cardinality({c \in todo[r] : Passed(r, c)})
              /\ row[r].pass + row[r].fail = Cardinality(todo[r])
        /\ \A c \in todo[r] :
              /\ job[r][c] \in {"count", "done"} /\ row[r].there /\ case[c] = "there"
              /\ r \notin left /\ faults = 0
              => Result(r, c) \in results
        /\ \A x \in results : x.run = r => x = Result(r, x.case)

\* What may pass in run r: the scored answers, and under a negative threshold,
\* which createEvalSuiteHandler does not refuse, an answer of which the scorer
\* has said nothing in JSON.
Passable(r) == IF limit[r] < 0 THEN Scored \cup {Blank} ELSE Scored

\* No case passes that has not been answered and scored, whichever of the two
\* calls failed and however (handlers.go:1242-1291), unless the suite's threshold
\* is negative and the scorer has answered with JSON of another kind.  A case
\* whose LLM or scorer call failed outright passes under no threshold.
UnscoredNeverPasses ==
    \A r \in Runs :
        /\ \A x \in results : x.run = r /\ x.passed => score[r][x.case] \in Passable(r)
        /\ tally[r].pass <= Cardinality({c \in todo[r] : score[r][c] \in Passable(r)})

\* wg.Wait returns (handlers.go:1212-1220, 1320): each goroutine gives back its
\* slot, whatever becomes of its case, of the client or of the suite.
RunsEnd == \A r \in Runs : pc[r] = "run" ~> pc[r] \in {"done", "crashed"}
=============================================================================
