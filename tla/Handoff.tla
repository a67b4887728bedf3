------------------------------- MODULE Handoff -------------------------------
(***************************************************************************)
(* What the rest of the gateway relies on when it hands a traced request   *)
(* to the background pool: an event offered is either accepted or dropped  *)
(* at once, an accepted event is finished exactly once, and the pool       *)
(* closes only when nothing it accepted is left.  An event that arrives    *)
(* after the pool has closed is stranded: nobody will finish it.           *)
(***************************************************************************)
CONSTANT Events

VARIABLES
    backlog,    \* accepted, not finished
    finished,   \* their process function has returned
    dropped,    \* refused at the offer
    stranded,   \* accepted when the pool was already closed
    closed      \* the pool takes nothing any more

hvars == <<backlog, finished, dropped, stranded, closed>>

\* The events that were never offered.
Fresh == Events \ (backlog \cup finished \cup dropped \cup stranded)

HInit ==
    /\ backlog = {}
    /\ finished = {}
    /\ dropped = {}
    /\ stranded = {}
    /\ closed = FALSE

Offer(e) ==
    /\ e \in Fresh
    /\ \/ /\ ~closed
          /\ backlog' = backlog \cup {e}
          /\ UNCHANGED <<dropped, stranded>>
       \/ /\ closed
          /\ stranded' = stranded \cup {e}
          /\ UNCHANGED <<backlog, dropped>>
       \/ /\ dropped' = dropped \cup {e}
          /\ UNCHANGED <<backlog, stranded>>
    /\ UNCHANGED <<finished, closed>>

Finish(e) ==
    /\ e \in backlog
    /\ backlog' = backlog \ {e}
    /\ finished' = finished \cup {e}
    /\ UNCHANGED <<dropped, stranded, closed>>

Close ==
    /\ backlog = {}
    /\ closed' = TRUE
    /\ UNCHANGED <<backlog, finished, dropped, stranded>>

HNext == Close \/ \E e \in Events : Offer(e) \/ Finish(e)

HSpec == HInit /\ [][HNext]_hvars
=============================================================================
