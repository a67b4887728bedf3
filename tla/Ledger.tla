------------------------------- MODULE Ledger --------------------------------
(***************************************************************************)
(* What the buffer of an agent session promises: a trace is entered once,  *)
(* and closing the session makes a row of all that has been entered since  *)
(* the last one, at one stroke.  When AddTraces and closes overlap, the    *)
(* traces a row counts and those it lists need not be the same any more,   *)
(* only that it counts and lists none of another row and that its steps    *)
(* are as many as it counts; after a fault, only that rows stay.           *)
(***************************************************************************)
EXTENDS Naturals, Sequences, FiniteSets

CONSTANTS
    Traces,
    Total(_)   \* the cost of a set of traces

VARIABLES
    open,      \* the traces entered since the last close
    closed,    \* the rows
    weather    \* "calm", "crowded" or "faulty"

Closed == UNION {closed[i].traces : i \in 1..Len(closed)}
CountedIn == UNION {closed[i].counted : i \in 1..Len(closed)}

LInit == open = {} /\ closed = <<>> /\ weather = "calm"

Enter(t) ==
    /\ weather = "calm" /\ weather' = "calm"
    /\ t \notin open \cup Closed \cup CountedIn
    /\ open' = open \cup {t}
    /\ UNCHANGED closed

Close ==
    /\ weather = "calm" /\ weather' = "calm"
    /\ open # {} /\ open \cap (Closed \cup CountedIn) = {}
    /\ closed' = Append(closed, [steps |-> Cardinality(open), cost |-> Total(open),
                                 counted |-> open, traces |-> open])
    /\ open' = {}

\* A row more, or none.
Grows ==
    \/ closed' = closed
    \/ /\ Len(closed') = Len(closed) + 1
       /\ \A i \in 1..Len(closed) : closed'[i] = closed[i]

Crowd ==
    /\ weather # "faulty" /\ weather' = "crowded"
    /\ Grows
    /\ \/ closed' = closed
       \/ LET row == closed'[Len(closed')]
          IN  /\ row.traces \cap Closed = {} /\ row.counted \cap CountedIn = {}
              /\ row.steps = Cardinality(row.counted)

Fail == weather' = "faulty" /\ Grows

LNext == (\E t \in Traces : Enter(t)) \/ Close \/ Crowd \/ Fail

LSpec == LInit /\ [][LNext]_<<open, closed, weather>>
=============================================================================
