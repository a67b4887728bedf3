---------------------------- MODULE EvalRunProofs ----------------------------
(***************************************************************************)
(* Proofs about the runs of an evaluation suite, for any number of runs,   *)
(* cases and slots: what the dashboard is shown of a run is what its       *)
(* goroutines have counted, and nothing passes that has not been scored.   *)
(*                                                                         *)
(* The slots taken and the verdicts counted are the numbers of goroutines  *)
(* in certain control states; a goroutine's verdict rests on a score and   *)
(* a threshold that do not change any more once it has them.               *)
(***************************************************************************)
EXTENDS EvalRun, FiniteSetTheorems, TLAPS

RunStates == Active \cup {"new", "refused", "done", "crashed"}
JobStates == {"wait", "work", "insert", "count", "done"}

\* The cases of run r that hold a slot, and those that have been counted.
Doing(r)      == {c \in Cases : job[r][c] \in {"work", "insert", "count"}}
DonePassed(r) == {c \in Cases : job[r][c] = "done" /\ Passed(r, c)}
DoneFailed(r) == {c \in Cases : job[r][c] = "done" /\ ~Passed(r, c)}

\* Goroutines run for what the run has read, and a run that has ended ended them.
PhaseInv ==
    \A r \in Runs :
        /\ \A c \in Cases : job[r][c] # "wait" => c \in todo[r] /\ pc[r] \in {"run", "done", "crashed"}
        /\ pc[r] = "done" => \A c \in todo[r] : job[r][c] = "done"

\* The counts of a row are the final ones.
RowInv ==
    \A r \in Runs :
        row[r].pass + row[r].fail > 0 =>
            pc[r] = "done" /\ row[r].pass = tally[r].pass /\ row[r].fail = tally[r].fail

\* No run works with the threshold 0, which is the quality of what failed.
LimitInv ==
    /\ suite = "there" => threshold # 0
    /\ \A r \in Runs :
          /\ pc[r] \in {"list", "create", "run", "done"} => limit[r] # 0
          /\ \A c \in Cases : job[r][c] # "wait" => limit[r] # 0

\* What a run has read had been created.
CaseInv == \A r \in Runs : \A c \in todo[r] : case[c] # "none"

CountsOf(r) ==
    /\ busy[r] = Cardinality(Doing(r))
    /\ tally[r].pass = Cardinality(DonePassed(r))
    /\ tally[r].fail = Cardinality(DoneFailed(r))
CountInv == \A r \in Runs : CountsOf(r)

\* A result is its case's verdict, and is only missing for a reason.
ResultInv ==
    /\ \A x \in results : /\ x = Result(x.run, x.case)
                          /\ job[x.run][x.case] \in {"count", "done"}
    /\ \A r \in Runs : \A c \in todo[r] :
          /\ job[r][c] \in {"count", "done"} /\ row[r].there /\ case[c] = "there"
          /\ r \notin left /\ faults = 0
          => Result(r, c) \in results

IInv == TypeOK /\ PhaseInv /\ RowInv /\ LimitInv /\ CaseInv /\ CountInv /\ ResultInv

-----------------------------------------------------------------------------
(* Counting.                                                               *)

LEMMA FiniteCounts ==
    ASSUME NEW r
    PROVE  /\ IsFiniteSet(Doing(r)) /\ Cardinality(Doing(r)) \in Nat
           /\ IsFiniteSet(DonePassed(r)) /\ Cardinality(DonePassed(r)) \in Nat
           /\ IsFiniteSet(DoneFailed(r)) /\ Cardinality(DoneFailed(r)) \in Nat
<1>1. Doing(r) \in SUBSET Cases /\ DonePassed(r) \in SUBSET Cases /\ DoneFailed(r) \in SUBSET Cases
    BY DEF Doing, DonePassed, DoneFailed
<1>2. IsFiniteSet(Doing(r)) /\ IsFiniteSet(DonePassed(r)) /\ IsFiniteSet(DoneFailed(r))
    BY <1>1, FS_Subset, EvalRunAssumption DEF EvalRunAssumption
<1> QED BY <1>2, FS_CardinalityType

\* A run whose goroutines and verdicts are left alone keeps its counts.
LEMMA SameCounts ==
    ASSUME NEW r \in Runs, CountsOf(r), \A c \in Cases : job'[r][c] = job[r][c],
           UNCHANGED <<busy[r], tally[r]>>,
           \A c \in Cases : job[r][c] = "done" => (Passed(r, c)' <=> Passed(r, c))
    PROVE  CountsOf(r)'
<1>1. Doing(r)' = Doing(r)
    BY DEF Doing
<1>2. DonePassed(r)' = DonePassed(r)
    BY DEF DonePassed
<1>3. DoneFailed(r)' = DoneFailed(r)
    BY DEF DoneFailed
<1> QED BY <1>1, <1>2, <1>3 DEF CountsOf

\* What a step leaves of the counts that touches no goroutine: a threshold is
\* only read by a run that has none yet.
LEMMA NoGoroutine ==
    ASSUME IInv, UNCHANGED <<job, score, busy, tally>>,
           \A r \in Runs : limit'[r] = limit[r] \/ pc[r] = "suite"
    PROVE  CountInv'
<1> SUFFICES ASSUME NEW r \in Runs
             PROVE  CountsOf(r)'
    BY DEF CountInv
<1>1. \A c \in Cases : job[r][c] = "done" => limit'[r] = limit[r]
    BY DEF IInv, PhaseInv
<1>2. \A c \in Cases : job[r][c] = "done" => (Passed(r, c)' <=> Passed(r, c))
    BY <1>1 DEF Passed
<1> QED BY <1>2, SameCounts DEF IInv, CountInv

LEMMA InitInv == Init => IInv
<1> SUFFICES ASSUME Init PROVE IInv
    OBVIOUS
<1>1. TypeOK
    BY EvalRunAssumption
       DEF Init, TypeOK, NoRow, NoTally, None, Active, EvalRunAssumption
<1>2. PhaseInv /\ RowInv /\ LimitInv /\ CaseInv /\ ResultInv
    BY DEF Init, PhaseInv, RowInv, LimitInv, CaseInv, ResultInv, NoRow
<1>3. ASSUME NEW r \in Runs
      PROVE  CountsOf(r)
  <2>1. Doing(r) = {} /\ DonePassed(r) = {} /\ DoneFailed(r) = {}
      BY DEF Init, Doing, DonePassed, DoneFailed
  <2> QED BY <2>1, FS_EmptySet DEF Init, CountsOf, NoTally
<1> QED BY <1>1, <1>2, <1>3 DEF IInv, CountInv

-----------------------------------------------------------------------------
(* The suite and its cases.                                                *)

LEMMA SuiteStep ==
    ASSUME IInv, CreateSuite \/ DeleteSuite
    PROVE  IInv'
<1> USE DEF IInv
<1>1. UNCHANGED <<pc, left, limit, todo, job, score, busy, tally, faults>>
    BY DEF CreateSuite, DeleteSuite, local
<1>2. TypeOK'
  <2>1. threshold' \in Int /\ suite' \in {"none", "there", "gone"}
      BY EvalRunAssumption DEF EvalRunAssumption, CreateSuite, DeleteSuite, ThresholdFor, TypeOK
  <2>2. case' \in [Cases -> {"none", "there", "gone"}]
      BY DEF CreateSuite, DeleteSuite, TypeOK
  <2>3. row' \in [Runs -> [there : BOOLEAN, pass : Nat, fail : Nat]]
    <3>1. NoRow \in [there : BOOLEAN, pass : Nat, fail : Nat]
        BY DEF NoRow
    <3>2. row' = row \/ row' = [r \in Runs |-> NoRow]
        BY DEF CreateSuite, DeleteSuite
    <3> QED BY <3>1, <3>2 DEF TypeOK
  <2>4. results' \subseteq [run : Runs, case : Cases, passed : BOOLEAN]
      BY DEF CreateSuite, DeleteSuite, TypeOK
  <2> QED BY <1>1, <2>1, <2>2, <2>3, <2>4 DEF TypeOK
<1>3. PhaseInv'
    BY <1>1 DEF PhaseInv
<1>4. RowInv'
    BY <1>1 DEF RowInv, CreateSuite, DeleteSuite, NoRow
<1>5. LimitInv'
  <2>1. suite' = "there" => threshold' # 0
      BY EvalRunAssumption DEF EvalRunAssumption, CreateSuite, DeleteSuite, ThresholdFor
  <2> QED BY <1>1, <2>1 DEF LimitInv
<1>6. CaseInv'
    BY <1>1 DEF CaseInv, CreateSuite, DeleteSuite, TypeOK
<1>7. CountInv'
    BY <1>1, NoGoroutine
<1>8. ResultInv'
  <2>1. CASE CreateSuite
      BY <1>1, <2>1 DEF ResultInv, CreateSuite, Result, Passed
  <2>2. CASE DeleteSuite
      BY <1>1, <2>2 DEF ResultInv, DeleteSuite, NoRow
  <2> QED BY <2>1, <2>2
<1> QED BY <1>2, <1>3, <1>4, <1>5, <1>6, <1>7, <1>8

LEMMA CaseStep ==
    ASSUME IInv, NEW c \in Cases, CreateCase(c) \/ DeleteCase(c)
    PROVE  IInv'
<1> USE DEF IInv
<1>1. UNCHANGED <<suite, threshold, row, pc, left, limit, todo, job, score, busy, tally, faults>>
    BY DEF CreateCase, DeleteCase, local
<1>2. \/ case[c] = "none" /\ case' = [case EXCEPT ![c] = "there"] /\ UNCHANGED results
      \/ /\ case' = [case EXCEPT ![c] = "gone"]
         /\ results' = {x \in results : x.case # c}
    BY DEF CreateCase, DeleteCase
<1>3. TypeOK'
    BY <1>1, <1>2 DEF TypeOK
<1>4. PhaseInv' /\ RowInv' /\ LimitInv'
    BY <1>1 DEF PhaseInv, RowInv, LimitInv
<1>5. CaseInv'
    BY <1>1, <1>2 DEF CaseInv, TypeOK
<1>6. CountInv'
    BY <1>1, NoGoroutine
<1>7. ResultInv'
  <2>1. \A r, d : Result(r, d)' = Result(r, d) /\ Result(r, d).case = d
      BY <1>1 DEF Result, Passed
  <2>2. results' \subseteq results
      BY <1>2
  <2>3. \A x \in results' : /\ x = Result(x.run, x.case)'
                            /\ job'[x.run][x.case] \in {"count", "done"}
      BY <1>1, <2>1, <2>2 DEF ResultInv
  <2>4. ASSUME NEW r \in Runs, NEW d \in todo[r], job[r][d] \in {"count", "done"}, row[r].there,
               case'[d] = "there", r \notin left, faults = 0
        PROVE  Result(r, d) \in results'
    <3>1. d \in Cases /\ case[d] # "none"
        BY DEF TypeOK, CaseInv
    <3>2. case[d] = "there" /\ (results' = results \/ d # c)
        BY <1>2, <2>4, <3>1 DEF TypeOK
    <3>3. Result(r, d) \in results
        BY <2>4, <3>2 DEF ResultInv
    <3> QED BY <1>2, <2>1, <3>2, <3>3
  <2> QED BY <1>1, <2>1, <2>3, <2>4 DEF ResultInv
<1> QED BY <1>3, <1>4, <1>5, <1>6, <1>7

-----------------------------------------------------------------------------
(* A run, but for its goroutines.                                          *)

\* A step of the run's control that leaves the tables and goroutines alone.
Moves(r, from, to) ==
    /\ Go(r, from, to) /\ from \in {"new", "suite", "list", "create"}
    /\ \/ to \in {"suite", "refused"} /\ UNCHANGED <<limit, todo>>
       \/ /\ from = "suite" /\ to = "list" /\ suite = "there"
          /\ limit' = [limit EXCEPT ![r] = threshold] /\ UNCHANGED todo
       \/ /\ from = "list" /\ to = "create"
          /\ todo' = [todo EXCEPT ![r] = ThereNow] /\ UNCHANGED limit

LEMMA PhaseStep ==
    ASSUME IInv, NEW r \in Runs, NEW from, NEW to, Moves(r, from, to),
           UNCHANGED <<db, left, job, score, busy, tally>>,
           faults' \in 0..MaxFaults, faults' >= faults
    PROVE  IInv'
<1> USE DEF IInv, Moves, Go
<1>0. /\ pc[r] \in {"new", "suite", "list", "create"} /\ pc' = [pc EXCEPT ![r] = to]
      /\ to \in {"suite", "refused", "list", "create"}
    OBVIOUS
<1>1. UNCHANGED <<suite, threshold, case, row, results>>
    BY DEF db
<1>2. \A c \in Cases : job[r][c] = "wait"
    BY DEF PhaseInv
<1>3. \A s \in Runs \ {r} : pc'[s] = pc[s] /\ limit'[s] = limit[s] /\ todo'[s] = todo[s]
    BY DEF TypeOK
<1>4. pc'[r] = to
    BY DEF TypeOK
<1>5. TypeOK'
  <2>1. ThereNow \in SUBSET Cases
      BY DEF ThereNow
  <2>2. limit' \in [Runs -> Int]
      BY DEF TypeOK
  <2>3. todo' \in [Runs -> SUBSET Cases]
      BY <2>1 DEF TypeOK
  <2>4. pc' \in [Runs -> RunStates]
      BY DEF TypeOK, RunStates, Active
  <2> QED BY <1>1, <2>2, <2>3, <2>4 DEF TypeOK, RunStates
<1>6. PhaseInv'
    BY <1>2, <1>3, <1>4 DEF PhaseInv
<1>7. RowInv'
    BY <1>1, <1>3 DEF RowInv
<1>8. LimitInv'
  <2>1. to \in {"list", "create"} => limit'[r] # 0
      BY DEF LimitInv, TypeOK
  <2> QED BY <1>1, <1>2, <1>3, <1>4, <2>1 DEF LimitInv
<1>9. CaseInv'
  <2>1. \A c \in todo'[r] : case[c] # "none"
      BY DEF CaseInv, TypeOK, ThereNow
  <2> QED BY <1>1, <1>3, <2>1 DEF CaseInv
<1>10. CountInv'
  <2>1. \A s \in Runs : limit'[s] = limit[s] \/ pc[s] = "suite"
      BY <1>3
  <2> QED BY <2>1, NoGoroutine
<1>11. ResultInv'
  <2>1. \A x \in results : x.run \in Runs \ {r} /\ x.case \in Cases
      BY <1>2 DEF ResultInv, TypeOK
  <2>2. \A s \in Runs \ {r}, c \in Cases : Result(s, c)' = Result(s, c)
      BY <1>3 DEF Result, Passed
  <2>3. faults' = 0 => faults = 0
      BY DEF TypeOK
  <2>4. \A c \in todo'[r] : job'[r][c] \notin {"count", "done"}
      BY <1>2, <1>5 DEF TypeOK
  <2>5. \A s \in Runs \ {r} : \A c \in todo[s] : c \in Cases
      BY DEF TypeOK
  <2> QED BY <1>1, <1>3, <2>1, <2>2, <2>3, <2>4, <2>5 DEF ResultInv
<1> QED BY <1>5, <1>6, <1>7, <1>8, <1>9, <1>10, <1>11

\* The row is inserted, and the goroutines start or the reply is lost.
LEMMA RowInserted ==
    ASSUME IInv, NEW r \in Runs, InsertRow(r), NEW to \in {"run", "refused"}, Go(r, "create", to),
           UNCHANGED <<left, local>>, faults' \in 0..MaxFaults, faults' >= faults
    PROVE  IInv'
<1> USE DEF IInv
<1>1. UNCHANGED <<suite, threshold, case, results, left, limit, todo, job, score, busy, tally>>
    BY DEF InsertRow, local
<1>2. pc[r] = "create" /\ pc' = [pc EXCEPT ![r] = to]
    BY DEF Go
<1>3. \A c \in Cases : job[r][c] = "wait"
    BY <1>2 DEF PhaseInv
<1>4. /\ row' = [row EXCEPT ![r] = Row(NoTally)]
      /\ row' \in [Runs -> [there : BOOLEAN, pass : Nat, fail : Nat]]
  <2>1. Row(NoTally) \in [there : BOOLEAN, pass : Nat, fail : Nat]
      BY DEF Row, NoTally
  <2> QED BY <2>1 DEF InsertRow, TypeOK
<1>5. \A s \in Runs \ {r} : pc'[s] = pc[s] /\ row'[s] = row[s]
    BY <1>2, <1>4 DEF TypeOK
<1>6. pc'[r] = to /\ row'[r].pass + row'[r].fail = 0
    BY <1>2, <1>4 DEF TypeOK, Row, NoTally
<1>7. TypeOK'
  <2>1. pc' \in [Runs -> RunStates]
      BY <1>2 DEF TypeOK, RunStates, Active
  <2> QED BY <1>1, <1>4, <2>1 DEF TypeOK, RunStates
<1>8. PhaseInv'
    BY <1>1, <1>3, <1>5, <1>6 DEF PhaseInv
<1>9. RowInv'
    BY <1>1, <1>5, <1>6 DEF RowInv
<1>10. LimitInv' /\ CaseInv'
    BY <1>1, <1>2, <1>5, <1>6 DEF LimitInv, CaseInv
<1>11. CountInv'
    BY <1>1, NoGoroutine
<1>12. ResultInv'
  <2>1. \A s, c : Result(s, c)' = Result(s, c)
      BY <1>1 DEF Result, Passed
  <2>2. faults' = 0 => faults = 0
      BY DEF TypeOK
  <2>3. \A c \in todo[r] : job[r][c] \notin {"count", "done"}
      BY <1>3 DEF TypeOK
  <2> QED BY <1>1, <1>5, <2>1, <2>2, <2>3 DEF ResultInv
<1> QED BY <1>7, <1>8, <1>9, <1>10, <1>11, <1>12

LEMMA EarlyStep ==
    ASSUME IInv, NEW r \in Runs, Start(r) \/ GetSuite(r) \/ ListCases(r) \/ CreateEvalRun(r)
    PROVE  IInv'
<1>1. faults \in 0..MaxFaults /\ MaxFaults \in Nat
    BY EvalRunAssumption DEF EvalRunAssumption, IInv, TypeOK
<1>2. Fault \/ UNCHANGED faults => faults' \in 0..MaxFaults /\ faults' >= faults
    BY <1>1 DEF Fault
<1>3. ASSUME NEW from \in {"suite", "list", "create"}, Refuse(r, from), Fault \/ UNCHANGED faults
      PROVE  IInv'
  <2>1. Moves(r, from, "refused")
      BY <1>3 DEF Refuse, Moves, local
  <2>2. UNCHANGED <<db, left, job, score, busy, tally>>
      BY <1>3 DEF Refuse, local
  <2> QED BY <1>2, <1>3, <2>1, <2>2, PhaseStep
<1>4. CASE Start(r)
  <2>1. Moves(r, "new", "suite")
      BY <1>4 DEF Start, Moves, local
  <2>2. UNCHANGED <<db, left, job, score, busy, tally, faults>>
      BY <1>4 DEF Start, local
  <2> QED BY <1>2, <2>1, <2>2, PhaseStep
<1>5. CASE GetSuite(r)
  <2>1. CASE /\ suite = "there" /\ Go(r, "suite", "list")
             /\ limit' = [limit EXCEPT ![r] = threshold]
             /\ UNCHANGED <<db, left, todo, job, score, busy, tally, faults>>
    <3>1. Moves(r, "suite", "list")
        BY <2>1 DEF Moves
    <3> QED BY <1>2, <2>1, <3>1, PhaseStep
  <2> QED BY <1>3, <1>5, <2>1 DEF GetSuite
<1>6. CASE ListCases(r)
  <2>1. CASE /\ Go(r, "list", "create")
             /\ todo' = [todo EXCEPT ![r] = ThereNow]
             /\ UNCHANGED <<db, left, limit, job, score, busy, tally, faults>>
    <3>1. Moves(r, "list", "create")
        BY <2>1 DEF Moves
    <3> QED BY <1>2, <2>1, <3>1, PhaseStep
  <2> QED BY <1>3, <1>6, <2>1 DEF ListCases
<1>7. CASE CreateEvalRun(r)
  <2>1. CASE InsertRow(r) /\ Go(r, "create", "run") /\ UNCHANGED <<left, local, faults>>
      BY <1>2, <2>1, RowInserted
  <2>2. CASE InsertRow(r) /\ Fault /\ Go(r, "create", "refused") /\ UNCHANGED <<left, local>>
      BY <1>2, <2>2, RowInserted
  <2> QED BY <1>3, <1>7, <2>1, <2>2 DEF CreateEvalRun
<1> QED BY <1>4, <1>5, <1>6, <1>7

\* The counts are written to the row, or are not.
LEMMA UpdateStep ==
    ASSUME IInv, NEW r \in Runs, UpdateEvalRun(r)
    PROVE  IInv'
<1> USE DEF IInv
<1>1. UNCHANGED <<suite, threshold, case, results, left, limit, todo, job, score, busy, tally>>
    BY DEF UpdateEvalRun, local
<1>2. pc[r] = "run" /\ pc' = [pc EXCEPT ![r] = "done"] /\ \A c \in todo[r] : job[r][c] = "done"
    BY DEF UpdateEvalRun, Go
<1>3. /\ \A s \in Runs \ {r} : pc'[s] = pc[s] /\ row'[s] = row[s]
      /\ pc'[r] = "done"
    BY <1>2 DEF TypeOK, UpdateEvalRun
<1>4. /\ row' \in [Runs -> [there : BOOLEAN, pass : Nat, fail : Nat]]
      /\ row'[r].there <=> row[r].there
      /\ \/ row'[r] = row[r]
         \/ row'[r].pass = tally[r].pass /\ row'[r].fail = tally[r].fail
  <2>1. CASE UNCHANGED row
      BY <2>1 DEF TypeOK
  <2>2. CASE row[r].there /\ row' = [row EXCEPT ![r] = Row(tally[r])]
    <3>1. Row(tally[r]) \in [there : BOOLEAN, pass : Nat, fail : Nat]
        BY DEF TypeOK, Row
    <3>2. row'[r] = Row(tally[r])
        BY <2>2 DEF TypeOK
    <3>3. row'[r].there <=> row[r].there
        BY <2>2, <3>2 DEF Row
    <3>4. row' \in [Runs -> [there : BOOLEAN, pass : Nat, fail : Nat]]
        BY <2>2, <3>1 DEF TypeOK
    <3> QED BY <3>2, <3>3, <3>4 DEF Row
  <2> QED BY <2>1, <2>2 DEF UpdateEvalRun
<1>5. faults' \in 0..MaxFaults /\ faults' >= faults
    BY EvalRunAssumption DEF EvalRunAssumption, TypeOK, UpdateEvalRun, Fault
<1>6. TypeOK'
  <2>1. pc' \in [Runs -> RunStates]
      BY <1>2 DEF TypeOK, RunStates
  <2> QED BY <1>1, <1>4, <1>5, <2>1 DEF TypeOK, RunStates
<1>7. PhaseInv'
    BY <1>1, <1>2, <1>3 DEF PhaseInv
<1>8. RowInv'
    BY <1>1, <1>2, <1>3, <1>4 DEF RowInv
<1>9. LimitInv' /\ CaseInv'
    BY <1>1, <1>2, <1>3 DEF LimitInv, CaseInv
<1>10. CountInv'
    BY <1>1, NoGoroutine
<1>11. ResultInv'
  <2>1. \A s, c : Result(s, c)' = Result(s, c)
      BY <1>1 DEF Result, Passed
  <2>2. faults' = 0 => faults = 0
      BY <1>5 DEF TypeOK
  <2>3. \A s \in Runs : row'[s].there <=> row[s].there
      BY <1>3, <1>4
  <2> QED BY <1>1, <2>1, <2>2, <2>3 DEF ResultInv
<1> QED BY <1>6, <1>7, <1>8, <1>9, <1>10, <1>11

\* A client leaves, or the gateway crashes, of itself or of a goroutine's panic.
LEMMA BreakStep ==
    ASSUME IInv, \/ Crash
                 \/ \E r \in Runs : Leave(r)
                 \/ \E r \in Runs, c \in Cases : Panic(r, c)
    PROVE  IInv'
<1> USE DEF IInv, ProcessEnds
<1>1. UNCHANGED <<suite, threshold, case, row, results, limit, todo, job, score, busy, tally>>
    BY DEF Crash, Leave, Panic, db, local
<1>2. /\ pc' \in [Runs -> RunStates]
      /\ \A r \in Runs : pc'[r] = pc[r] \/ (pc[r] \in Active /\ pc'[r] = "crashed")
    BY DEF TypeOK, RunStates, Crash, Leave, Panic
<1>3. /\ left \subseteq left' /\ left' \subseteq Runs
      /\ faults' \in 0..MaxFaults /\ faults' >= faults
    BY EvalRunAssumption DEF EvalRunAssumption, TypeOK, Crash, Leave, Panic, Fault
<1>4. TypeOK'
    BY <1>1, <1>2, <1>3 DEF TypeOK, RunStates
<1>5. PhaseInv' /\ RowInv' /\ LimitInv' /\ CaseInv'
    BY <1>1, <1>2 DEF PhaseInv, RowInv, LimitInv, CaseInv, Active
<1>6. CountInv'
    BY <1>1, NoGoroutine
<1>7. ResultInv'
  <2>1. \A s, c : Result(s, c)' = Result(s, c)
      BY <1>1 DEF Result, Passed
  <2>2. faults' = 0 => faults = 0
      BY <1>3 DEF TypeOK
  <2> QED BY <1>1, <1>3, <2>1, <2>2 DEF ResultInv
<1> QED BY <1>4, <1>5, <1>6, <1>7

-----------------------------------------------------------------------------
(* The goroutines.                                                         *)

\* A goroutine of r goes from one control state to another.
LEMMA JobMoves ==
    ASSUME TypeOK, NEW r \in Runs, NEW c \in Cases, NEW from, NEW to \in JobStates,
           GoJob(r, c, from, to)
    PROVE  /\ pc[r] = "run" /\ c \in todo[r] /\ job[r][c] = from
           /\ job' \in [Runs -> [Cases -> JobStates]]
           /\ job'[r][c] = to
           /\ \A d \in Cases \ {c} : job'[r][d] = job[r][d]
           /\ \A s \in Runs \ {r} : job'[s] = job[s]
<1>1. job \in [Runs -> [Cases -> JobStates]]
    BY DEF TypeOK, JobStates
<1>2. job[r] \in [Cases -> JobStates] /\ job' = [job EXCEPT ![r] = [job[r] EXCEPT ![c] = to]]
    BY <1>1 DEF GoJob
<1>3. [job[r] EXCEPT ![c] = to] \in [Cases -> JobStates]
    BY <1>2
<1>4. job'[r] = [job[r] EXCEPT ![c] = to]
    BY <1>1, <1>2
<1> QED BY <1>1, <1>2, <1>3, <1>4 DEF GoJob

\* What such a step leaves alone, but for the counts and results.
LEMMA JobKeeps ==
    ASSUME IInv, NEW r \in Runs, NEW c \in Cases, NEW from \in JobStates, NEW to \in JobStates \ {"wait"},
           GoJob(r, c, from, to), from # "done",
           UNCHANGED <<suite, threshold, case, row, pc, limit, todo>>,
           UNCHANGED tally
    PROVE  PhaseInv' /\ RowInv' /\ LimitInv' /\ CaseInv'
<1> USE DEF IInv
<1>1. /\ pc[r] = "run" /\ c \in todo[r]
      /\ \A d \in Cases \ {c} : job'[r][d] = job[r][d]
      /\ \A s \in Runs \ {r} : job'[s] = job[s]
    BY JobMoves
<1>2. PhaseInv'
    BY <1>1 DEF PhaseInv
<1>3. RowInv' /\ CaseInv'
    BY DEF RowInv, CaseInv
<1>4. LimitInv'
    BY <1>1 DEF LimitInv
<1> QED BY <1>2, <1>3, <1>4

\* A step that does not decide a case, as regards the results.
LEMMA ResultsKept ==
    ASSUME IInv, NEW r \in Runs, NEW c \in Cases, NEW from \in {"wait", "work"}, NEW to \in {"work", "insert"},
           GoJob(r, c, from, to),
           UNCHANGED <<case, row, results, left, limit, todo, faults>>,
           \A s \in Runs, d \in Cases : <<s, d>> # <<r, c>> => score'[s][d] = score[s][d]
    PROVE  ResultInv'
<1> USE DEF IInv
<1>1. /\ job[r][c] = from /\ job'[r][c] = to
      /\ \A d \in Cases \ {c} : job'[r][d] = job[r][d]
      /\ \A s \in Runs \ {r} : job'[s] = job[s]
    BY JobMoves DEF JobStates
<1>2. \A s \in Runs, d \in Cases : <<s, d>> # <<r, c>> => Result(s, d)' = Result(s, d) /\ job'[s][d] = job[s][d]
    BY <1>1 DEF Result, Passed
<1>3. \A x \in results : x.run \in Runs /\ x.case \in Cases /\ <<x.run, x.case>> # <<r, c>>
    BY <1>1 DEF ResultInv, TypeOK
<1>4. \A s \in Runs : \A d \in todo[s] : d \in Cases
    BY DEF TypeOK
<1> QED BY <1>1, <1>2, <1>3, <1>4 DEF ResultInv

LEMMA AcquireStep ==
    ASSUME IInv, NEW r \in Runs, NEW c \in Cases, Acquire(r, c)
    PROVE  IInv'
<1> USE DEF IInv
<1>1. /\ GoJob(r, c, "wait", "work") /\ busy[r] < Slots /\ busy' = [busy EXCEPT ![r] = @ + 1]
      /\ UNCHANGED <<suite, threshold, case, row, results, pc, left, limit, todo, score, tally, faults>>
    BY DEF Acquire, db
<1>2. /\ job[r][c] = "wait" /\ job'[r][c] = "work"
      /\ job' \in [Runs -> [Cases -> JobStates]]
      /\ \A d \in Cases \ {c} : job'[r][d] = job[r][d]
      /\ \A s \in Runs \ {r} : job'[s] = job[s]
    BY <1>1, JobMoves DEF JobStates
<1>3. /\ busy' \in [Runs -> 0..Slots] /\ busy'[r] = busy[r] + 1
      /\ \A s \in Runs \ {r} : busy'[s] = busy[s]
    BY <1>1, EvalRunAssumption DEF EvalRunAssumption, TypeOK
<1>4. TypeOK'
    BY <1>1, <1>2, <1>3 DEF TypeOK, JobStates
<1>5. PhaseInv' /\ RowInv' /\ LimitInv' /\ CaseInv'
    BY <1>1, JobKeeps DEF JobStates
<1>6. CountsOf(r)'
  <2>1. Doing(r)' = Doing(r) \cup {c} /\ c \notin Doing(r)
      BY <1>2 DEF Doing
  <2>2. Cardinality(Doing(r)') = Cardinality(Doing(r)) + 1
      BY <2>1, FiniteCounts, FS_AddElement
  <2>3. DonePassed(r)' = DonePassed(r) /\ DoneFailed(r)' = DoneFailed(r)
      BY <1>1, <1>2 DEF DonePassed, DoneFailed, Passed
  <2> QED BY <1>1, <1>3, <2>2, <2>3 DEF CountInv, CountsOf
<1>7. ASSUME NEW s \in Runs \ {r}
      PROVE  CountsOf(s)'
    BY <1>1, <1>2, <1>3, SameCounts DEF CountInv, Passed
<1>8. CountInv'
    BY <1>6, <1>7 DEF CountInv
<1>9. ResultInv'
    BY <1>1, ResultsKept
<1> QED BY <1>4, <1>5, <1>8, <1>9

LEMMA AssessStep ==
    ASSUME IInv, NEW r \in Runs, NEW c \in Cases, Assess(r, c)
    PROVE  IInv'
<1> USE DEF IInv
<1>1. /\ GoJob(r, c, "work", "insert")
      /\ UNCHANGED <<suite, threshold, case, row, results, pc, left, limit, todo, busy, tally, faults>>
    BY DEF Assess, db
<1>2. /\ job[r][c] = "work" /\ job'[r][c] = "insert"
      /\ job' \in [Runs -> [Cases -> JobStates]]
      /\ \A d \in Cases \ {c} : job'[r][d] = job[r][d]
      /\ \A s \in Runs \ {r} : job'[s] = job[s]
    BY <1>1, JobMoves DEF JobStates
<1>3. PICK v \in Scored \cup {None, Blank} : score' = [score EXCEPT ![r] = [score[r] EXCEPT ![c] = v]]
    BY DEF Assess, TypeOK
<1>4. /\ score' \in [Runs -> [Cases -> Scored \cup {None, Blank}]]
      /\ \A s \in Runs, d \in Cases : <<s, d>> # <<r, c>> => score'[s][d] = score[s][d]
  <2> DEFINE new == [score[r] EXCEPT ![c] = v]
  <2>1. score \in [Runs -> [Cases -> Scored \cup {None, Blank}]]
      BY DEF TypeOK
  <2>2. new \in [Cases -> Scored \cup {None, Blank}] /\ \A d \in Cases \ {c} : new[d] = score[r][d]
      BY <2>1
  <2>3. score' = [score EXCEPT ![r] = new]
      BY <1>3
  <2> HIDE DEF new
  <2> QED BY <2>1, <2>2, <2>3
<1>5. TypeOK'
    BY <1>1, <1>2, <1>4 DEF TypeOK, JobStates
<1>6. PhaseInv' /\ RowInv' /\ LimitInv' /\ CaseInv'
    BY <1>1, JobKeeps DEF JobStates
<1>7. CountsOf(r)'
  <2>1. Doing(r)' = Doing(r)
      BY <1>2 DEF Doing
  <2>2. DonePassed(r)' = DonePassed(r) /\ DoneFailed(r)' = DoneFailed(r)
      BY <1>1, <1>2, <1>4 DEF DonePassed, DoneFailed, Passed
  <2>3. busy' = busy /\ tally' = tally
      BY <1>1
  <2>4. CountsOf(r)
      BY DEF CountInv
  <2> QED BY <2>1, <2>2, <2>3, <2>4 DEF CountsOf
<1>8. ASSUME NEW s \in Runs \ {r}
      PROVE  CountsOf(s)'
    BY <1>1, <1>2, <1>4, SameCounts DEF CountInv, Passed
<1>9. CountInv'
    BY <1>7, <1>8 DEF CountInv
<1>10. ResultInv'
    BY <1>1, <1>4, ResultsKept
<1> QED BY <1>5, <1>6, <1>9, <1>10

LEMMA ResultStep ==
    ASSUME IInv, NEW r \in Runs, NEW c \in Cases, CreateEvalResult(r, c)
    PROVE  IInv'
<1> USE DEF IInv
<1>1. /\ GoJob(r, c, "insert", "count")
      /\ UNCHANGED <<suite, threshold, case, row, pc, left, limit, todo, score, busy, tally>>
    BY DEF CreateEvalResult
<1>2. /\ c \in todo[r] /\ job[r][c] = "insert" /\ job'[r][c] = "count"
      /\ job' \in [Runs -> [Cases -> JobStates]]
      /\ \A d \in Cases \ {c} : job'[r][d] = job[r][d]
      /\ \A s \in Runs \ {r} : job'[s] = job[s]
    BY <1>1, JobMoves DEF JobStates
<1>3. /\ results \subseteq results' /\ results' \subseteq results \cup {Result(r, c)}
      /\ faults' \in 0..MaxFaults /\ faults' >= faults
      /\ faults' = 0 => faults = 0 /\ (Storable(r, c) => Result(r, c) \in results')
    BY EvalRunAssumption DEF EvalRunAssumption, CreateEvalResult, Fault, TypeOK
<1>4. TypeOK'
  <2>1. Result(r, c) \in [run : Runs, case : Cases, passed : BOOLEAN]
      BY DEF Result, Passed
  <2>2. results' \subseteq [run : Runs, case : Cases, passed : BOOLEAN]
      BY <1>3, <2>1 DEF TypeOK
  <2> QED BY <1>1, <1>2, <1>3, <2>2 DEF TypeOK, JobStates
<1>5. PhaseInv' /\ RowInv' /\ LimitInv' /\ CaseInv'
    BY <1>1, JobKeeps DEF JobStates
<1>6. CountInv'
  <2>1. Doing(r)' = Doing(r) /\ DonePassed(r)' = DonePassed(r) /\ DoneFailed(r)' = DoneFailed(r)
      BY <1>1, <1>2 DEF Doing, DonePassed, DoneFailed, Passed
  <2>2. CountsOf(r)'
      BY <1>1, <2>1 DEF CountInv, CountsOf
  <2>3. ASSUME NEW s \in Runs \ {r}
        PROVE  CountsOf(s)'
      BY <1>1, <1>2, SameCounts DEF CountInv, Passed
  <2> QED BY <2>2, <2>3 DEF CountInv
<1>7. ResultInv'
  <2>1. \A s, d : Result(s, d)' = Result(s, d)
      BY <1>1 DEF Result, Passed
  <2>2. \A s \in Runs, d \in Cases : job[s][d] \in {"count", "done"} => job'[s][d] \in {"count", "done"}
      BY <1>2
  <2>3. \A x \in results : x.run \in Runs /\ x.case \in Cases
      BY DEF TypeOK
  <2>4. Result(r, c).run = r /\ Result(r, c).case = c
      BY DEF Result
  <2>5. \A x \in results' : /\ x = Result(x.run, x.case)'
                            /\ job'[x.run][x.case] \in {"count", "done"}
      BY <1>2, <1>3, <2>1, <2>2, <2>3, <2>4 DEF ResultInv
  <2>6. ASSUME NEW s \in Runs, NEW d \in todo[s], job'[s][d] \in {"count", "done"}, row[s].there,
               case[d] = "there", s \notin left, faults' = 0
        PROVE  Result(s, d) \in results'
    <3>1. CASE s = r /\ d = c
        BY <1>3, <2>6, <3>1 DEF Storable
    <3>2. CASE ~(s = r /\ d = c)
      <4>1. d \in Cases
          BY DEF TypeOK
      <4>2. job[s][d] = job'[s][d]
          BY <1>2, <3>2, <4>1
      <4> QED BY <1>3, <2>6, <4>2 DEF ResultInv
    <3> QED BY <3>1, <3>2
  <2> QED BY <1>1, <2>1, <2>5, <2>6 DEF ResultInv
<1> QED BY <1>4, <1>5, <1>6, <1>7

LEMMA CountStep ==
    ASSUME IInv, NEW r \in Runs, NEW c \in Cases, Count(r, c)
    PROVE  IInv'
<1> USE DEF IInv
<1>1. /\ GoJob(r, c, "count", "done")
      /\ tally' = [tally EXCEPT ![r] = Counted(@, Passed(r, c))]
      /\ busy' = [busy EXCEPT ![r] = @ - 1]
      /\ UNCHANGED <<suite, threshold, case, row, results, pc, left, limit, todo, score, faults>>
    BY DEF Count, db
<1>2. /\ pc[r] = "run" /\ c \in todo[r] /\ job[r][c] = "count" /\ job'[r][c] = "done"
      /\ job' \in [Runs -> [Cases -> JobStates]]
      /\ \A d \in Cases \ {c} : job'[r][d] = job[r][d]
      /\ \A s \in Runs \ {r} : job'[s] = job[s]
    BY <1>1, JobMoves DEF JobStates
<1>3. Doing(r) = Doing(r)' \cup {c} /\ c \notin Doing(r)'
    BY <1>2 DEF Doing
<1>4. Cardinality(Doing(r)) = Cardinality(Doing(r)') + 1 /\ Cardinality(Doing(r)') \in Nat
  <2>1. Doing(r)' = Doing(r) \ {c} /\ c \in Doing(r)
      BY <1>3
  <2>2. /\ IsFiniteSet(Doing(r) \ {c}) /\ Cardinality(Doing(r) \ {c}) \in Nat
        /\ Cardinality(Doing(r) \ {c}) = Cardinality(Doing(r)) - 1
      BY <2>1, FiniteCounts, FS_RemoveElement, FS_CardinalityType
  <2>3. Cardinality(Doing(r)) \in Nat
      BY FiniteCounts
  <2> QED BY <2>1, <2>2, <2>3
<1>5. /\ busy'[r] = Cardinality(Doing(r)') /\ busy'[r] \in 0..Slots
      /\ \A s \in Runs \ {r} : busy'[s] = busy[s]
      /\ busy' \in [Runs -> 0..Slots]
  <2>1. busy[r] \in 0..Slots /\ busy[r] = Cardinality(Doing(r)) /\ Slots \in Nat
      BY EvalRunAssumption DEF EvalRunAssumption, TypeOK, CountInv, CountsOf
  <2>2. busy'[r] = busy[r] - 1
      BY <1>1 DEF TypeOK
  <2>3. busy'[r] \in 0..Slots /\ busy'[r] = Cardinality(Doing(r)')
      BY <1>4, <2>1, <2>2
  <2> QED BY <1>1, <2>3 DEF TypeOK
<1>6. \A d \in Cases : Passed(r, d)' <=> Passed(r, d)
    BY <1>1 DEF Passed
<1>7. /\ tally' \in [Runs -> [pass : Nat, fail : Nat]]
      /\ \A s \in Runs \ {r} : tally'[s] = tally[s]
      /\ Passed(r, c) => tally'[r].pass = tally[r].pass + 1 /\ tally'[r].fail = tally[r].fail
      /\ ~Passed(r, c) => tally'[r].pass = tally[r].pass /\ tally'[r].fail = tally[r].fail + 1
  <2>1. tally[r] \in [pass : Nat, fail : Nat]
      BY DEF TypeOK
  <2>2. Counted(tally[r], Passed(r, c)) \in [pass : Nat, fail : Nat]
      BY <2>1 DEF Counted
  <2>3. tally'[r] = Counted(tally[r], Passed(r, c))
      BY <1>1 DEF TypeOK
  <2> QED BY <1>1, <2>1, <2>2, <2>3 DEF TypeOK, Counted
<1>8. CountsOf(r)'
  <2>1. CASE Passed(r, c)
    <3>1. DonePassed(r)' = DonePassed(r) \cup {c} /\ c \notin DonePassed(r) /\ DoneFailed(r)' = DoneFailed(r)
        BY <1>2, <1>6, <2>1 DEF DonePassed, DoneFailed
    <3>2. Cardinality(DonePassed(r)') = Cardinality(DonePassed(r)) + 1
        BY <3>1, FiniteCounts, FS_AddElement
    <3> QED BY <1>5, <1>7, <2>1, <3>1, <3>2 DEF CountInv, CountsOf
  <2>2. CASE ~Passed(r, c)
    <3>1. DoneFailed(r)' = DoneFailed(r) \cup {c} /\ c \notin DoneFailed(r) /\ DonePassed(r)' = DonePassed(r)
        BY <1>2, <1>6, <2>2 DEF DonePassed, DoneFailed
    <3>2. Cardinality(DoneFailed(r)') = Cardinality(DoneFailed(r)) + 1
        BY <3>1, FiniteCounts, FS_AddElement
    <3> QED BY <1>5, <1>7, <2>2, <3>1, <3>2 DEF CountInv, CountsOf
  <2> QED BY <2>1, <2>2
<1>9. CountInv'
  <2>1. ASSUME NEW s \in Runs \ {r}
        PROVE  CountsOf(s)'
      BY <1>1, <1>2, <1>5, <1>7, SameCounts DEF CountInv, Passed
  <2> QED BY <1>8, <2>1 DEF CountInv
<1>10. TypeOK'
    BY <1>1, <1>2, <1>5, <1>7 DEF TypeOK, JobStates
<1>11. PhaseInv' /\ LimitInv' /\ CaseInv'
    BY <1>1, <1>2 DEF PhaseInv, LimitInv, CaseInv
<1>12. RowInv'
    BY <1>1, <1>2, <1>7 DEF RowInv
<1>13. ResultInv'
  <2>1. \A s, d : Result(s, d)' = Result(s, d)
      BY <1>1 DEF Result, Passed
  <2>2. \A s \in Runs, d \in Cases : job'[s][d] \in {"count", "done"} <=> job[s][d] \in {"count", "done"}
      BY <1>2
  <2>3. \A x \in results : x.run \in Runs /\ x.case \in Cases
      BY DEF TypeOK
  <2>4. \A s \in Runs : \A d \in todo[s] : d \in Cases
      BY DEF TypeOK
  <2> QED BY <1>1, <2>1, <2>2, <2>3, <2>4 DEF ResultInv
<1> QED BY <1>9, <1>10, <1>11, <1>12, <1>13

-----------------------------------------------------------------------------
LEMMA NextInv ==
    ASSUME IInv, Next
    PROVE  IInv'
<1>1. CASE CreateSuite \/ DeleteSuite
    BY <1>1, SuiteStep
<1>2. CASE \E c \in Cases : CreateCase(c) \/ DeleteCase(c)
    BY <1>2, CaseStep
<1>3. ASSUME NEW r \in Runs, Start(r) \/ Handler(r) \/ Leave(r)
      PROVE  IInv'
    BY <1>3, EarlyStep, UpdateStep, BreakStep DEF Handler
<1>4. ASSUME NEW r \in Runs, NEW c \in Cases, Job(r, c) \/ Panic(r, c)
      PROVE  IInv'
    BY <1>4, AcquireStep, AssessStep, ResultStep, CountStep, BreakStep DEF Job
<1>5. CASE Crash
    BY <1>5, BreakStep
<1> QED BY <1>1, <1>2, <1>3, <1>4, <1>5 DEF Next

\* The invariant holds for any runs, cases, slots and faults.
THEOREM Invariance == Spec => []IInv
<1>1. ASSUME IInv, UNCHANGED vars
      PROVE  IInv'
  <2>1. \A r : Doing(r)' = Doing(r) /\ DonePassed(r)' = DonePassed(r) /\ DoneFailed(r)' = DoneFailed(r)
      BY <1>1 DEF vars, local, Doing, DonePassed, DoneFailed, Passed
  <2>2. TypeOK'
      BY <1>1 DEF IInv, TypeOK, vars, db, local
  <2>3. CountInv'
      BY <1>1, <2>1 DEF IInv, CountInv, CountsOf, vars, local
  <2>4. PhaseInv' /\ RowInv' /\ LimitInv' /\ CaseInv' /\ ResultInv'
      BY <1>1 DEF IInv, PhaseInv, RowInv, LimitInv, CaseInv, ResultInv, Result, Passed, vars, db, local
  <2> QED BY <2>2, <2>3, <2>4 DEF IInv
<1> QED BY InitInv, NextInv, <1>1, PTL DEF Spec

\* The tables, runs, goroutines and slots are type correct: the slots taken are
\* never fewer than none nor more than there are.
THEOREM TypeCorrect == Spec => []TypeOK
<1>1. IInv => TypeOK
    BY DEF IInv
<1> QED BY Invariance, <1>1, PTL

\* A failure passes only what has a negative threshold, and that only if the
\* scorer has answered.
LEMMA PassedIsScored ==
    ASSUME TypeOK, NEW r \in Runs, NEW c \in Cases, limit[r] # 0, Passed(r, c)
    PROVE  score[r][c] \in Passable(r)
<1>1. score[r][c] \in Scored \cup {None, Blank} /\ limit[r] \in Int
    BY DEF TypeOK
<1>2. score[r][c] # None
    BY <1>1 DEF Passed, None
<1>3. score[r][c] = Blank => limit[r] < 0
    BY <1>1 DEF Passed, Blank
<1> QED BY <1>1, <1>2, <1>3 DEF Passable

\* No case passes that has not been answered and scored, whichever calls failed
\* (handlers.go:1242-1291) - unless the suite asks for a negative threshold and
\* the scorer has answered with JSON of another kind.
THEOREM NothingPassesUnscored == Spec => []UnscoredNeverPasses
<1>1. ASSUME IInv
      PROVE  UnscoredNeverPasses
  <2> SUFFICES ASSUME NEW r \in Runs
               PROVE  /\ \A x \in results : x.run = r /\ x.passed => score[r][x.case] \in Passable(r)
                      /\ tally[r].pass <= Cardinality({c \in todo[r] : score[r][c] \in Passable(r)})
      BY DEF UnscoredNeverPasses
  <2> USE <1>1 DEF IInv
  <2>1. \A c \in Cases : job[r][c] # "wait" /\ Passed(r, c) => c \in todo[r] /\ score[r][c] \in Passable(r)
      BY PassedIsScored DEF PhaseInv, LimitInv
  <2>2. \A x \in results : x.run = r /\ x.passed => score[r][x.case] \in Passable(r)
    <3> SUFFICES ASSUME NEW x \in results, x.run = r, x.passed
                 PROVE  score[r][x.case] \in Passable(r)
        OBVIOUS
    <3>1. x = Result(r, x.case) /\ job[r][x.case] \in {"count", "done"} /\ x.case \in Cases
        BY DEF ResultInv, TypeOK
    <3>2. Passed(r, x.case)
        BY <3>1 DEF Result
    <3> QED BY <2>1, <3>1, <3>2
  <2>3. tally[r].pass <= Cardinality({c \in todo[r] : score[r][c] \in Passable(r)})
    <3> DEFINE answered == {c \in todo[r] : score[r][c] \in Passable(r)}
    <3>1. DonePassed(r) \in SUBSET answered
        BY <2>1 DEF DonePassed
    <3>2. answered \in SUBSET Cases
        BY DEF TypeOK
    <3>3. IsFiniteSet(answered)
        BY <3>2, FS_Subset, EvalRunAssumption DEF EvalRunAssumption
    <3>4. Cardinality(DonePassed(r)) <= Cardinality(answered)
        BY <3>1, <3>3, FS_Subset
    <3> QED BY <3>4 DEF CountInv, CountsOf
  <2> QED BY <2>2, <2>3
<1> QED BY Invariance, <1>1, PTL

\* What the dashboard is shown of a run is what its goroutines have counted, and
\* its results agree with it (handlers.go:1320-1340).
THEOREM RowsAreHonest == Spec => []RunRowIsHonest
<1>1. ASSUME IInv
      PROVE  RunRowIsHonest
  <2> USE <1>1 DEF IInv
  <2>1. ASSUME NEW r \in Runs, row[r].there, row[r].pass + row[r].fail > 0
        PROVE  /\ row[r].pass = Cardinality({c \in todo[r] : Passed(r, c)})
               /\ row[r].pass + row[r].fail = Cardinality(todo[r])
    <3>1. /\ pc[r] = "done" /\ row[r].pass = tally[r].pass /\ row[r].fail = tally[r].fail
        BY <2>1 DEF RowInv
    <3>2. \A c \in Cases : c \in todo[r] <=> job[r][c] = "done"
        BY <3>1, <2>1 DEF PhaseInv
    <3>3. todo[r] \in SUBSET Cases
        BY DEF TypeOK
    <3>4. {c \in todo[r] : Passed(r, c)} = DonePassed(r)
        BY <3>2, <3>3 DEF DonePassed
    <3>5. todo[r] = DonePassed(r) \cup DoneFailed(r) /\ DonePassed(r) \cap DoneFailed(r) = {}
        BY <3>2, <3>3 DEF DonePassed, DoneFailed
    <3>6. Cardinality(todo[r]) = Cardinality(DonePassed(r)) + Cardinality(DoneFailed(r))
      <4>1. Cardinality(DonePassed(r) \cap DoneFailed(r)) = 0
          BY <3>5, FS_EmptySet
      <4>2. Cardinality(DonePassed(r) \cup DoneFailed(r))
              = Cardinality(DonePassed(r)) + Cardinality(DoneFailed(r))
                  - Cardinality(DonePassed(r) \cap DoneFailed(r))
          BY FiniteCounts, FS_Union
      <4> QED BY <3>5, <4>1, <4>2, FiniteCounts
    <3> QED BY <3>1, <3>4, <3>6 DEF CountInv, CountsOf
  <2>2. \A r \in Runs : \A c \in todo[r] :
            /\ job[r][c] \in {"count", "done"} /\ row[r].there /\ case[c] = "there"
            /\ r \notin left /\ faults = 0
            => Result(r, c) \in results
      BY DEF ResultInv
  <2>3. \A r \in Runs : \A x \in results : x.run = r => x = Result(r, x.case)
      BY DEF ResultInv
  <2> QED BY <2>1, <2>2, <2>3 DEF RunRowIsHonest
<1> QED BY Invariance, <1>1, PTL
=============================================================================
