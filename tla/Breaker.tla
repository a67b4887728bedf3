------------------------------- MODULE Breaker -------------------------------
(***************************************************************************)
(* What self-healing promises about a provider: calls start only while the *)
(* provider is in use, it is put out of use only by a call that is in      *)
(* flight, and the passing of time brings it back.  A gate that cannot     *)
(* read the state lets the call through.                                   *)
(***************************************************************************)
EXTENDS Naturals

CONSTANT Requests

VARIABLES
    open,      \* the provider is out of use
    calling,   \* requests whose call of the provider is not settled
    blind      \* how often a gate failed to read the state

bvars == <<open, calling, blind>>

BInit == open = FALSE /\ calling = {} /\ blind = 0

Start(r) ==
    /\ ~open
    /\ r \notin calling
    /\ calling' = calling \cup {r}
    /\ UNCHANGED <<open, blind>>

StartBlind(r) ==
    /\ r \notin calling
    /\ calling' = calling \cup {r}
    /\ blind' = blind + 1
    /\ UNCHANGED open

Settle(r) ==
    /\ r \in calling
    /\ calling' = calling \ {r}
    /\ UNCHANGED <<open, blind>>

\* The call's failure is the one too many.
Trip(r) ==
    /\ r \in calling
    /\ calling' = calling \ {r}
    /\ open' = TRUE
    /\ UNCHANGED blind

Recover ==
    /\ open' = FALSE
    /\ UNCHANGED <<calling, blind>>

BNext == Recover \/ \E r \in Requests : Start(r) \/ StartBlind(r) \/ Settle(r) \/ Trip(r)

BSpec == BInit /\ [][BNext]_bvars
=============================================================================
