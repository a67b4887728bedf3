----------------------------- MODULE DailyAlert ------------------------------
(***************************************************************************)
(* What a daily limit on spending promises: the day's cost only grows, and *)
(* the alert is raised at most once a day, for a cost that is over the     *)
(* limit.                                                                  *)
(***************************************************************************)
EXTENDS Naturals

CONSTANT Limit

VARIABLES total, alerts

DInit == total = 0 /\ alerts = 0

Spend ==
    /\ total' \in {total + 1, total + 2}
    /\ UNCHANGED alerts

Raise ==
    /\ total > Limit
    /\ alerts = 0
    /\ alerts' = 1
    /\ UNCHANGED total

DNext == Spend \/ Raise

DSpec == DInit /\ [][DNext]_<<total, alerts>>
=============================================================================
