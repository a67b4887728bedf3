------------------------------ MODULE Settings -------------------------------
(***************************************************************************)
(* The settings of internal/db/postgres.go and who reads and writes them:  *)
(* the two tables of PostgreSQL, the maps in memory that the request path  *)
(* reads instead (RefreshCache, RefreshUserCache), the POST handlers of    *)
(* cmd/gateway/handlers.go and the refresh loop of main.go.                *)
(*                                                                         *)
(* A refresh is a query and, later, a swap of the maps under the lock: in  *)
(* between it holds a snapshot that others may overtake.  A row's columns  *)
(* are one value.  The provider keys and the SMTP configuration, which no  *)
(* map in memory holds, are there as a step of the POST that saves them.   *)
(***************************************************************************)
EXTENDS Naturals

CONSTANTS
    Rows,       \* [table -> its possible keys]: "features" and "users"
    Values,     \* [table -> what its rows may say]
    Posts,      \* POST requests
    Off,        \* the value that a user's row has when its budget is zero
    NoRow,      \* there is no row
    MaxFaults   \* bound: failed statements

Tables == {"features", "users"}

ASSUME SettingsAssumption ==
    /\ DOMAIN Rows = Tables /\ DOMAIN Values = Tables
    /\ \A t \in Tables : NoRow \notin Values[t]
    /\ "ticker" \notin Posts
    /\ MaxFaults \in Nat

VARIABLES
    table,    \* PostgreSQL
    cache,    \* Store.thresholds, webhooks, featureSettings; userSettings
    pc,       \* of each POST and of the refresh loop
    of,       \* the table each of them is at
    todo,     \* rows a POST has still to upsert
    mine,     \* history: rows a POST has upserted, and no other since
    snapshot, \* what the query of a refresh has returned
    behind,   \* history: rows saved between the query of a refresh and its swap
    faults,
    past      \* history: what each table has been

vars == <<table, cache, pc, of, todo, mine, snapshot, behind, faults, past>>

Actors     == Posts \cup {"ticker"}
Content(t) == [Rows[t] -> Values[t] \cup {NoRow}]
Empty(t)   == [r \in Rows[t] |-> NoRow]
\* The rows of a payload, to be saved in any order.
Payload(t) == UNION {[S -> Values[t]] : S \in SUBSET Rows[t]}
Without(f, r) == [x \in DOMAIN f \ {r} |-> f[x]]
\* What a query returns: GetUserSettings selects users with a budget only.
Selected(t, content) ==
    [r \in Rows[t] |-> IF t = "users" /\ content[r] = Off THEN NoRow ELSE content[r]]

PcState == {"idle", "upsert", "others", "query", "swap", "done"}

TypeOK ==
    /\ table \in [Tables -> UNION {Content(t) : t \in Tables}]
    /\ cache \in [Tables -> UNION {Content(t) : t \in Tables}]
    /\ \A t \in Tables : table[t] \in Content(t) /\ cache[t] \in Content(t)
    /\ pc \in [Actors -> PcState]
    /\ of \in [Actors -> Tables]
    /\ \A a \in Actors :
          /\ pc[a] = "swap" => snapshot[a] \in Content(of[a])
          /\ pc[a] = "upsert" => a # "ticker" /\ todo[a] \in Payload(of[a])
          /\ mine[a] \subseteq Rows[of[a]]
    /\ \A a \in Actors : behind[a] \subseteq Rows[of[a]]
    /\ faults \in 0..MaxFaults
    /\ \A t \in Tables : past[t] \subseteq Content(t)

\* The gateway starts: RefreshCache is called, and may fail; RefreshUserCache is
\* not.
Load(content) == [features |-> content, users |-> Empty("users")]
Idle ==
    /\ pc = [a \in Actors |-> "idle"]
    /\ of = [a \in Actors |-> "features"]
    /\ todo = [a \in Actors |-> <<>>]
    /\ mine = [a \in Actors |-> {}]
    /\ snapshot = [a \in Actors |-> <<>>]
    /\ behind = [a \in Actors |-> {}]

Init ==
    /\ \E f \in Content("features"), u \in Content("users") :
          table = [features |-> f, users |-> u]
    /\ \/ cache = Load(table["features"]) /\ faults = 0
       \/ cache = Load(Empty("features")) /\ faults = 1 /\ MaxFaults > 0
    /\ Idle
    /\ past = [t \in Tables |-> {Empty(t), Selected(t, table[t])}]

Go(a, from, to) == pc[a] = from /\ pc' = [pc EXCEPT ![a] = to]
Fault == faults < MaxFaults /\ faults' = faults + 1

-----------------------------------------------------------------------------
(* POST /settings and POST /settings/users.                                *)

\* What comes after the rows of table t.
AfterRows(t) == IF t = "features" THEN "others" ELSE "query"

\* A request with rows of one table arrives, or with none.
Post(p, t) ==
    /\ pc[p] = "idle"
    /\ \E rows \in Payload(t) :
          /\ todo' = [todo EXCEPT ![p] = rows]
          /\ pc' = [pc EXCEPT ![p] = IF DOMAIN rows = {} THEN AfterRows(t) ELSE "upsert"]
    /\ of' = [of EXCEPT ![p] = t]
    /\ UNCHANGED <<table, cache, mine, snapshot, behind, faults, past>>

\* What an upsert of row r changes.
Save(p, r) ==
    LET t == of[p]
    IN  /\ table' = [table EXCEPT ![t][r] = todo[p][r]]
        /\ past' = [past EXCEPT ![t] = @ \cup {Selected(t, table'[t])}]
        /\ mine' = [a \in Actors |-> IF a = p THEN mine[a] \cup {r}
                                     ELSE IF of[a] = t THEN mine[a] \ {r} ELSE mine[a]]
        /\ behind' = [a \in Actors |-> IF pc[a] = "swap" /\ of[a] = t THEN behind[a] \cup {r}
                                       ELSE behind[a]]
        /\ todo' = [todo EXCEPT ![p] = Without(@, r)]

\* Mutant: the query of the refresh does not wait for the last upsert.
UpsertAfterQuery(p, r) ==
    LET last == DOMAIN todo[p] = {r}
    IN  /\ Save(p, r)
        /\ snapshot' = [snapshot EXCEPT ![p] = IF last THEN Selected(of[p], table[of[p]]) ELSE @]
        /\ Go(p, "upsert", IF last THEN "swap" ELSE "upsert")
        /\ UNCHANGED <<of, cache, faults>>

\* Mutant: the row is written through to the map in memory.
UpsertThrough(p, r) ==
    /\ Save(p, r)
    /\ cache' = [cache EXCEPT ![of[p]][r] = Selected(of[p], table'[of[p]])[r]]
    /\ Go(p, "upsert", IF DOMAIN todo[p] = {r} THEN AfterRows(of[p]) ELSE "upsert")
    /\ UNCHANGED <<of, snapshot, faults>>

\* The next row is upserted: each is a transaction of its own.
Upsert(p, r) ==
    /\ Save(p, r)
    /\ Go(p, "upsert", IF DOMAIN todo[p] = {r} THEN AfterRows(of[p]) ELSE "upsert")
    /\ UNCHANGED <<of, cache, snapshot, faults>>

\* An upsert fails, or the connection does after it: the request ends, without a
\* refresh.
UpsertFails(p, r) ==
    /\ Fault
    /\ Save(p, r) \/ UNCHANGED <<table, past, mine, behind, todo>>
    /\ Go(p, "upsert", "done")
    /\ UNCHANGED <<of, cache, snapshot>>

\* The payload's provider keys and SMTP configuration are saved, as far as it has
\* any.
SaveOthers(p) ==
    /\ Go(p, "others", "query")
    /\ UNCHANGED <<table, cache, of, todo, mine, snapshot, behind, faults, past>>

\* One of these fails: the request ends without a refresh, although its rows are
\* all saved.
OthersFail(p) ==
    /\ Fault
    /\ Go(p, "others", "done")
    /\ UNCHANGED <<table, cache, of, todo, mine, snapshot, behind, past>>

-----------------------------------------------------------------------------
(* Refreshing.                                                             *)

\* The loop's tick: first the features, then the users.
Tick ==
    /\ Go("ticker", "idle", "query")
    /\ UNCHANGED <<table, cache, of, todo, mine, snapshot, behind, faults, past>>

\* Mutant: the loop refreshes the features only.
FeaturesOnly(a) ==
    /\ pc' = [pc EXCEPT ![a] = IF a = "ticker" THEN "idle" ELSE "done"]
    /\ UNCHANGED of

\* A refresh is over: a POST is answered, the loop goes on to the users or waits
\* for its next tick.
Onward(a) ==
    /\ pc' = [pc EXCEPT ![a] = IF a # "ticker" THEN "done"
                               ELSE IF of[a] = "features" THEN "query" ELSE "idle"]
    /\ of' = IF a # "ticker" THEN of
             ELSE [of EXCEPT ![a] = IF @ = "features" THEN "users" ELSE "features"]

\* GetSettings or GetUserSettings.  An error is logged or ignored, and the map
\* stays as it is.
Query(a) ==
    /\ pc[a] = "query"
    /\ \/ /\ snapshot' = [snapshot EXCEPT ![a] = Selected(of[a], table[of[a]])]
          /\ pc' = [pc EXCEPT ![a] = "swap"]
          /\ UNCHANGED <<of, faults>>
       \/ Fault /\ Onward(a) /\ UNCHANGED snapshot
    /\ UNCHANGED <<table, cache, todo, mine, behind, past>>

\* Mutant: both maps are replaced by what the one query has returned.
SwapBoth(a) ==
    /\ pc[a] = "swap"
    /\ cache' = [t \in Tables |-> snapshot[a]]
    /\ snapshot' = [snapshot EXCEPT ![a] = <<>>]
    /\ behind' = [behind EXCEPT ![a] = {}]
    /\ Onward(a)
    /\ UNCHANGED <<table, todo, mine, faults, past>>

\* The maps are replaced under the lock.
Swap(a) ==
    /\ pc[a] = "swap"
    /\ cache' = [cache EXCEPT ![of[a]] = snapshot[a]]
    /\ snapshot' = [snapshot EXCEPT ![a] = <<>>]
    /\ behind' = [behind EXCEPT ![a] = {}]
    /\ Onward(a)
    /\ UNCHANGED <<table, todo, mine, faults, past>>

\* The gateway is restarted, by whatever cause; PostgreSQL stays.
Restart ==
    /\ Fault
    /\ cache' \in {Load(table["features"]), Load(Empty("features"))}
    /\ pc' = [a \in Actors |-> IF a = "ticker" \/ pc[a] = "idle" THEN "idle" ELSE "done"]
    /\ of' = [of EXCEPT !["ticker"] = "features"]
    /\ snapshot' = [a \in Actors |-> <<>>]
    /\ behind' = [a \in Actors |-> {}]
    /\ UNCHANGED <<table, todo, mine, past>>

-----------------------------------------------------------------------------
SaveNext(p) ==
    \/ pc[p] = "upsert" /\ \E r \in DOMAIN todo[p] : Upsert(p, r)
    \/ SaveOthers(p)
SaveFails(p) ==
    \/ pc[p] = "upsert" /\ \E r \in DOMAIN todo[p] : UpsertFails(p, r)
    \/ OthersFail(p)
Refresh(a) == Query(a) \/ Swap(a)

Next ==
    \/ \E p \in Posts, t \in Tables : Post(p, t)
    \/ \E p \in Posts : SaveNext(p) \/ SaveFails(p)
    \/ Tick
    \/ \E a \in Actors : Refresh(a)
    \/ Restart

\* The loop ticks for ever, and statements end: with an answer or an error.
Fairness ==
    /\ WF_vars(Tick)
    /\ \A a \in Actors : WF_vars(Refresh(a))
    /\ \A p \in Posts : WF_vars(SaveNext(p))

Spec == Init /\ [][Next]_vars
FairSpec == Spec /\ Fairness

-----------------------------------------------------------------------------
(* Properties.                                                             *)

\* What the request path reads is never a mixture: all rows of a map are from
\* one state of its table (or the map is still empty), although rows are saved
\* one by one and refreshes overtake each other.
CacheWasTable == \A t \in Tables : cache[t] \in past[t]

\* A row of the map says what the table says.
Shown(t, r) == cache[t][r] = Selected(t, table[t])[r]

\* The refresh of a POST shows the rows that the POST has saved, those that
\* another request has saved since excepted.  And a row that is shown stays
\* shown, until it is saved with another value, until a refresh is swapped in
\* that had read the table before the row was last saved, or until a restart
\* that leaves the map empty: no other step of anyone takes it back.
SavedIsVisible ==
    [][/\ \A p \in Posts :
             Swap(p) => \A r \in mine[p] :
                           cache'[of[p]][r] = Selected(of[p], table[of[p]])[r]
       /\ \A t \in Tables : \A r \in Rows[t] :
             Shown(t, r) /\ ~Shown(t, r)' =>
                \/ table'[t][r] # table[t][r]
                \/ \E a \in Actors : Swap(a) /\ of[a] = t /\ r \in behind[a]
                \/ Restart /\ cache'[t] = Empty(t)]_vars

\* Settings take effect without a restart (main.go, the refresh loop), users'
\* budgets included, although an overtaken refresh may put an old snapshot back
\* and a failed POST saves rows without a refresh: when the table stops
\* changing, the gateway comes to use it and stays with it.
Converges ==
    \A t \in Tables : \A c \in Content(t) :
        <>[](table[t] = c) => <>[](cache[t] = Selected(t, c))
=============================================================================
