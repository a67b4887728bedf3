--------------------------- MODULE SettingsProofs ----------------------------
(***************************************************************************)
(* Proofs about the settings, for any rows, values and number of POST      *)
(* requests: what the gateway reads is always one state of the table, and  *)
(* what a save has made visible is taken back in three ways only.          *)
(***************************************************************************)
EXTENDS Settings, TLAPS

\* The variables are functions.
ShapeInv ==
    /\ table = [t \in Tables |-> table[t]] /\ cache = [t \in Tables |-> cache[t]]
    /\ past = [t \in Tables |-> past[t]]
    /\ pc = [a \in Actors |-> pc[a]]
    /\ of \in [Actors -> Tables]
    /\ todo = [a \in Actors |-> todo[a]] /\ mine = [a \in Actors |-> mine[a]]
    /\ snapshot = [a \in Actors |-> snapshot[a]]
    /\ behind = [a \in Actors |-> behind[a]]

\* A table's content and the empty map are among its past states, and so is what
\* a refresh is about to install.
PastInv ==
    /\ table["features"] \in Content("features")
    /\ \A t \in Tables : Selected(t, table[t]) \in past[t] /\ Empty(t) \in past[t]
    /\ \A a \in Actors : pc[a] = "swap" => snapshot[a] \in past[of[a]]

\* A refresh that has still to be installed agrees with the table on the rows
\* that its POST has saved and nobody has saved since.
MineInv ==
    /\ \A a \in Actors : mine[a] \subseteq Rows[of[a]]
    /\ \A a \in Actors : pc[a] = "idle" \/ a = "ticker" => mine[a] = {}
    /\ \A a \in Actors : pc[a] = "swap" =>
          \A r \in mine[a] : snapshot[a][r] = Selected(of[a], table[of[a]])[r]

\* It agrees with the table on every row that has not been saved since its query.
BehindInv ==
    /\ \A a \in Actors : behind[a] \subseteq Rows[of[a]]
    /\ \A a \in Actors : pc[a] # "swap" => behind[a] = {}
    /\ \A a \in Actors : pc[a] = "swap" =>
          \A r \in Rows[of[a]] \ behind[a] :
             snapshot[a][r] = Selected(of[a], table[of[a]])[r]

\* What is to be saved is rows of the table it is meant for.
TodoInv ==
    \A a \in Actors : pc[a] = "upsert" => a \in Posts /\ todo[a] \in Payload(of[a])

IInv == ShapeInv /\ PastInv /\ MineInv /\ BehindInv /\ TodoInv /\ CacheWasTable

\* All rows of the features are selected.
LEMMA FeaturesSelected ==
    ASSUME NEW content \in Content("features")
    PROVE  Selected("features", content) = content
BY DEF Content, Selected

\* A payload without one of its rows is a payload.
LEMMA WithoutIsPayload ==
    ASSUME NEW t, NEW f \in Payload(t), NEW r
    PROVE  Without(f, r) \in Payload(t)
<1>1. PICK S \in SUBSET Rows[t] : f \in [S -> Values[t]]
    BY DEF Payload
<1>2. Without(f, r) \in [S \ {r} -> Values[t]]
    BY <1>1 DEF Without
<1> QED BY <1>2 DEF Payload

-----------------------------------------------------------------------------
\* The initial states satisfy the invariant.
LEMMA InitIInv == Init => IInv
<1> SUFFICES ASSUME Init PROVE IInv
    OBVIOUS
<1>1. PICK f \in Content("features"), u \in Content("users") : table = [features |-> f, users |-> u]
    BY DEF Init
<1>2. table["features"] \in Content("features") /\ table = [t \in Tables |-> table[t]]
    BY <1>1 DEF Tables
<1>3. cache \in {Load(table["features"]), Load(Empty("features"))}
    BY DEF Init
<1>4. past = [t \in Tables |-> {Empty(t), Selected(t, table[t])}]
    BY DEF Init
<1>5. CacheWasTable
  <2>1. cache["features"] \in {table["features"], Empty("features")} /\ cache["users"] = Empty("users")
      BY <1>3 DEF Load
  <2>2. cache["features"] \in past["features"]
      BY <1>2, <1>4, <2>1, FeaturesSelected DEF Tables
  <2> QED BY <1>4, <2>1, <2>2 DEF CacheWasTable, Tables
<1>6. ShapeInv
  <2>1. cache = [t \in Tables |-> cache[t]]
      BY <1>3 DEF Load, Tables
  <2>2. of \in [Actors -> Tables]
      BY DEF Init, Idle, Tables
  <2> QED BY <1>2, <1>4, <2>1, <2>2 DEF ShapeInv, Init, Idle
<1>7. PastInv
    BY <1>2, <1>4 DEF PastInv, Init, Idle
<1>8. MineInv /\ BehindInv /\ TodoInv
    BY DEF MineInv, BehindInv, TodoInv, Init, Idle
<1> QED BY <1>5, <1>6, <1>7, <1>8 DEF IInv

-----------------------------------------------------------------------------
(* The steps.                                                              *)

\* What a row says after an upsert changes what is selected at that row only,
\* and the table's new state joins the past ones.
LEMMA SaveKeeps ==
    ASSUME IInv, NEW p \in Posts, pc[p] = "upsert", NEW r \in DOMAIN todo[p], Save(p, r),
           UNCHANGED <<of, cache, snapshot>>,
           NEW to \in {"upsert", "others", "query", "done"}, pc' = [pc EXCEPT ![p] = to]
    PROVE  IInv'
<1> USE DEF IInv
<1> DEFINE t == of[p]
<1>1. t \in Tables /\ p \in Actors
    BY DEF ShapeInv, Actors
<1>2. r \in Rows[t] /\ todo[p][r] \in Values[t]
    BY DEF TodoInv, Payload, Actors
<1>3. /\ table' = [table EXCEPT ![t][r] = todo[p][r]]
      /\ past' = [past EXCEPT ![t] = @ \cup {Selected(t, table'[t])}]
      /\ mine' = [a \in Actors |-> IF a = p THEN mine[a] \cup {r}
                                   ELSE IF of[a] = t THEN mine[a] \ {r} ELSE mine[a]]
      /\ behind' = [a \in Actors |-> IF pc[a] = "swap" /\ of[a] = t THEN behind[a] \cup {r}
                                     ELSE behind[a]]
      /\ todo' = [todo EXCEPT ![p] = Without(@, r)]
    BY DEF Save
<1>4. ShapeInv'
  <2>1. table' = [x \in Tables |-> table'[x]]
      BY <1>1, <1>3 DEF ShapeInv
  <2>2. past' = [x \in Tables |-> past'[x]]
      BY <1>1, <1>3 DEF ShapeInv
  <2>3. pc' = [a \in Actors |-> pc'[a]]
      BY <1>1 DEF ShapeInv
  <2>4. mine' = [a \in Actors |-> mine'[a]]
      BY <1>3
  <2>5. todo' = [a \in Actors |-> todo'[a]]
      BY <1>1, <1>3 DEF ShapeInv
  <2>6. behind' = [a \in Actors |-> behind'[a]]
      BY <1>3
  <2> QED BY <2>1, <2>2, <2>3, <2>4, <2>5, <2>6 DEF ShapeInv
<1>5. /\ \A x \in Tables \ {t} : table'[x] = table[x] /\ past'[x] = past[x]
      /\ table'[t] = [table[t] EXCEPT ![r] = todo[p][r]]
      /\ past'[t] = past[t] \cup {Selected(t, table'[t])}
    BY <1>1, <1>3 DEF ShapeInv
<1>6. \A x \in Tables : past[x] \subseteq past'[x]
    BY <1>5
<1>7. \A a \in Actors : pc'[a] = "swap" => pc[a] = "swap" /\ a # p
    BY <1>1 DEF ShapeInv
<1>8. PastInv'
  <2>1. table'["features"] \in Content("features")
    <3>1. CASE t = "features"
        BY <1>2, <1>5, <3>1 DEF PastInv, Content
    <3>2. CASE t # "features"
        BY <1>5, <3>2 DEF PastInv, Tables
    <3> QED BY <3>1, <3>2
  <2>2. \A x \in Tables : Selected(x, table'[x]) \in past'[x]
      BY <1>5 DEF PastInv
  <2>3. \A x \in Tables : Empty(x) \in past'[x]
      BY <1>6 DEF PastInv
  <2>4. \A a \in Actors : pc'[a] = "swap" => snapshot'[a] \in past'[of'[a]]
      BY <1>6, <1>7 DEF PastInv, ShapeInv
  <2> QED BY <2>1, <2>2, <2>3, <2>4 DEF PastInv
<1>9. MineInv'
  <2>1. \A a \in Actors : pc'[a] = "idle" \/ a = "ticker" => mine'[a] = {}
    <3>1. p # "ticker"
        BY SettingsAssumption DEF SettingsAssumption
    <3>2. \A a \in Actors : pc'[a] = "idle" => pc[a] = "idle" /\ a # p
        BY <1>1 DEF ShapeInv
    <3> QED BY <1>3, <3>1, <3>2 DEF MineInv
  <2>2. ASSUME NEW a \in Actors, pc'[a] = "swap", NEW s \in mine'[a]
        PROVE  snapshot'[a][s] = Selected(of'[a], table'[of'[a]])[s]
    <3>1. a # p /\ pc[a] = "swap" /\ of[a] \in Tables /\ of'[a] = of[a]
        BY <1>7, <2>2 DEF ShapeInv
    <3>2. s \in mine[a] /\ s \in Rows[of[a]] /\ (of[a] = t => s # r)
        BY <1>3, <2>2, <3>1 DEF MineInv
    <3>3. snapshot[a][s] = Selected(of[a], table[of[a]])[s]
        BY <3>1, <3>2 DEF MineInv
    <3>4. CASE of[a] # t
        BY <1>5, <3>1, <3>3, <3>4
    <3>5. CASE of[a] = t
      <4>1. table'[t][s] = table[t][s]
          BY <1>5, <3>2, <3>5
      <4>2. Selected(t, table'[t])[s] = Selected(t, table[t])[s]
          BY <3>2, <3>5, <4>1 DEF Selected
      <4> QED BY <3>1, <3>3, <3>5, <4>2
    <3> QED BY <3>4, <3>5
  <2>3. \A a \in Actors : mine'[a] \subseteq Rows[of'[a]]
      BY <1>2, <1>3 DEF MineInv
  <2> QED BY <2>1, <2>2, <2>3 DEF MineInv
<1>10. TodoInv'
  <2>1. \A a \in Actors : pc'[a] = "upsert" => IF a = p THEN to = "upsert" ELSE pc[a] = "upsert"
      BY <1>1 DEF ShapeInv
  <2>2. \A a \in Actors : a # p => todo'[a] = todo[a]
      BY <1>3
  <2>3. todo'[p] \in Payload(t)
    <3>1. todo[p] \in Payload(t)
        BY <1>1 DEF TodoInv
    <3>2. todo'[p] = Without(todo[p], r)
        BY <1>1, <1>3 DEF ShapeInv
    <3> QED BY <3>1, <3>2, WithoutIsPayload
  <2> QED BY <2>1, <2>2, <2>3 DEF TodoInv
<1>11. CacheWasTable'
    BY <1>6 DEF CacheWasTable
<1>12. BehindInv'
  <2>1. \A a \in Actors : behind'[a] \subseteq Rows[of'[a]]
      BY <1>2, <1>3 DEF BehindInv
  <2>2. \A a \in Actors : pc'[a] # "swap" => behind'[a] = {}
    <3>1. \A a \in Actors : pc'[a] # "swap" => pc[a] # "swap"
        BY <1>1 DEF ShapeInv
    <3> QED BY <1>3, <3>1 DEF BehindInv
  <2>3. ASSUME NEW a \in Actors, pc'[a] = "swap", NEW s \in Rows[of'[a]] \ behind'[a]
        PROVE  snapshot'[a][s] = Selected(of'[a], table'[of'[a]])[s]
    <3>1. a # p /\ pc[a] = "swap" /\ of[a] \in Tables /\ of'[a] = of[a]
        BY <1>7, <2>3 DEF ShapeInv
    <3>2. s \in Rows[of[a]] \ behind[a] /\ (of[a] = t => s # r)
        BY <1>3, <2>3, <3>1
    <3>3. snapshot[a][s] = Selected(of[a], table[of[a]])[s]
        BY <3>1, <3>2 DEF BehindInv
    <3>4. CASE of[a] # t
        BY <1>5, <3>1, <3>3, <3>4
    <3>5. CASE of[a] = t
      <4>1. table'[t][s] = table[t][s]
          BY <1>5, <3>2, <3>5
      <4>2. Selected(t, table'[t])[s] = Selected(t, table[t])[s]
          BY <3>2, <3>5, <4>1 DEF Selected
      <4> QED BY <3>1, <3>3, <3>5, <4>2
    <3> QED BY <3>4, <3>5
  <2> QED BY <2>1, <2>2, <2>3 DEF BehindInv
<1> QED BY <1>4, <1>8, <1>9, <1>10, <1>11, <1>12

\* Only the control of one actor moves, and not to an upsert or a swap.
LEMMA ControlStep ==
    ASSUME IInv, NEW a \in Actors, NEW to \in {"idle", "query", "done"},
           to = "idle" => a = "ticker", pc[a] # "swap",
           pc' = [pc EXCEPT ![a] = to],
           of' \in [Actors -> Tables],
           of' = of \/ (a = "ticker" /\ \E t \in Tables : of' = [of EXCEPT ![a] = t]),
           UNCHANGED <<table, todo, mine, snapshot, behind, past>>,
           CacheWasTable', cache' = [t \in Tables |-> cache'[t]]
    PROVE  IInv'
<1> USE DEF IInv
<1>1. \A b \in Actors : pc'[b] = IF b = a THEN to ELSE pc[b]
    BY DEF ShapeInv
<1>2. \A b \in Actors : b # a => of'[b] = of[b]
    BY DEF ShapeInv
<1>3. ShapeInv'
    BY <1>1 DEF ShapeInv
<1>4. PastInv'
    BY <1>1, <1>2 DEF PastInv
<1>5. MineInv'
  <2>1. \A b \in Actors : mine'[b] \subseteq Rows[of'[b]]
      BY <1>2 DEF MineInv
  <2>2. \A b \in Actors : pc'[b] = "idle" \/ b = "ticker" => mine'[b] = {}
      BY <1>1 DEF MineInv
  <2>3. \A b \in Actors : pc'[b] = "swap" =>
            \A r \in mine'[b] : snapshot'[b][r] = Selected(of'[b], table'[of'[b]])[r]
      BY <1>1, <1>2 DEF MineInv
  <2> QED BY <2>1, <2>2, <2>3 DEF MineInv
<1>6. TodoInv'
    BY <1>1, <1>2 DEF TodoInv
<1>7. BehindInv'
  <2>1. behind[a] = {} /\ behind' = behind
      BY DEF BehindInv
  <2>2. \A b \in Actors : behind'[b] \subseteq Rows[of'[b]]
      BY <1>2, <2>1 DEF BehindInv
  <2>3. \A b \in Actors : pc'[b] # "swap" => behind'[b] = {}
      BY <1>1, <2>1 DEF BehindInv
  <2>4. \A b \in Actors : pc'[b] = "swap" =>
            \A r \in Rows[of'[b]] \ behind'[b] :
               snapshot'[b][r] = Selected(of'[b], table'[of'[b]])[r]
      BY <1>1, <1>2, <2>1 DEF BehindInv
  <2> QED BY <2>2, <2>3, <2>4 DEF BehindInv
<1> QED BY <1>3, <1>4, <1>5, <1>6, <1>7

\* Saving a row, whether the request is told or not.
LEMMA UpsertStep ==
    ASSUME IInv, NEW p \in Posts, pc[p] = "upsert", NEW r \in DOMAIN todo[p],
           Upsert(p, r) \/ UpsertFails(p, r)
    PROVE  IInv'
<1>1. CASE Upsert(p, r)
    BY <1>1, SaveKeeps DEF Upsert, Go, AfterRows
<1>2. CASE UpsertFails(p, r) /\ Save(p, r)
    BY <1>2, SaveKeeps DEF UpsertFails, Go
<1>3. CASE UpsertFails(p, r) /\ UNCHANGED <<table, past, mine, behind, todo>>
  <2>1. UNCHANGED <<table, cache, of, todo, mine, snapshot, behind, past>> /\ pc' = [pc EXCEPT ![p] = "done"]
      BY <1>3 DEF UpsertFails, Go
  <2>2. of' \in [Actors -> Tables] /\ CacheWasTable' /\ cache' = [t \in Tables |-> cache'[t]]
      BY <2>1 DEF IInv, ShapeInv, CacheWasTable
  <2> QED BY <2>1, <2>2, ControlStep DEF Actors
<1> QED BY <1>1, <1>2, <1>3 DEF UpsertFails

\* A POST arrives.
LEMMA PostStep ==
    ASSUME IInv, NEW p \in Posts, NEW t \in Tables, Post(p, t)
    PROVE  IInv'
<1> USE DEF IInv
<1>1. PICK rows \in Payload(t) :
          /\ todo' = [todo EXCEPT ![p] = rows]
          /\ pc' = [pc EXCEPT ![p] = IF DOMAIN rows = {} THEN AfterRows(t) ELSE "upsert"]
    BY DEF Post
<1>2. pc[p] = "idle" /\ of' = [of EXCEPT ![p] = t] /\ UNCHANGED <<table, cache, mine, snapshot, behind, past>>
    BY DEF Post
<1>3. p \in Actors /\ mine[p] = {}
    BY <1>2 DEF Actors, MineInv
<1>4. /\ \A a \in Actors : a # p => pc'[a] = pc[a] /\ of'[a] = of[a] /\ todo'[a] = todo[a]
      /\ pc'[p] \in {"query", "others", "upsert"} /\ of'[p] = t /\ todo'[p] = rows
    BY <1>1, <1>2, <1>3 DEF ShapeInv, AfterRows
<1>5. ShapeInv'
    BY <1>1, <1>2, <1>3 DEF ShapeInv
<1>6. PastInv'
    BY <1>2, <1>4 DEF PastInv
<1>7. MineInv'
    BY <1>2, <1>3, <1>4 DEF MineInv
<1>8. TodoInv'
    BY <1>4 DEF TodoInv
<1>9. CacheWasTable'
    BY <1>2 DEF CacheWasTable
<1>10. BehindInv'
    BY <1>2, <1>3, <1>4 DEF BehindInv
<1> QED BY <1>5, <1>6, <1>7, <1>8, <1>9, <1>10

\* The keys and the mail settings are saved, or not.
LEMMA OthersStep ==
    ASSUME IInv, NEW p \in Posts, SaveOthers(p) \/ OthersFail(p)
    PROVE  IInv'
<1>1. PICK to \in {"query", "done"} : pc[p] # "swap" /\ pc' = [pc EXCEPT ![p] = to]
    BY DEF SaveOthers, OthersFail, Go
<1>2. UNCHANGED <<table, cache, of, todo, mine, snapshot, behind, past>>
    BY DEF SaveOthers, OthersFail
<1>3. of' \in [Actors -> Tables] /\ CacheWasTable' /\ cache' = [t \in Tables |-> cache'[t]]
    BY <1>2 DEF IInv, ShapeInv, CacheWasTable
<1> QED BY <1>1, <1>2, <1>3, ControlStep DEF Actors

\* What Onward does to the control.
LEMMA OnwardMoves ==
    ASSUME IInv, NEW a \in Actors, Onward(a)
    PROVE  /\ \E to \in {"idle", "query", "done"} :
                 pc' = [pc EXCEPT ![a] = to] /\ (to = "idle" => a = "ticker")
           /\ of' \in [Actors -> Tables]
           /\ of' = of \/ (a = "ticker" /\ \E t \in Tables : of' = [of EXCEPT ![a] = t])
BY DEF Onward, IInv, ShapeInv, Tables

\* A query: what it returns is the table as it is.
LEMMA QueryStep ==
    ASSUME IInv, NEW a \in Actors, Query(a)
    PROVE  IInv'
<1> USE DEF IInv
<1>1. pc[a] = "query" /\ UNCHANGED <<table, cache, todo, mine, behind, past>>
    BY DEF Query
<1>2. CASE Onward(a) /\ UNCHANGED snapshot
  <2>1. CacheWasTable' /\ cache' = [t \in Tables |-> cache'[t]]
      BY <1>1 DEF CacheWasTable, ShapeInv
  <2> QED BY <1>1, <1>2, <2>1, OnwardMoves, ControlStep
<1>3. CASE /\ snapshot' = [snapshot EXCEPT ![a] = Selected(of[a], table[of[a]])]
           /\ pc' = [pc EXCEPT ![a] = "swap"] /\ UNCHANGED of
  <2>1. \A b \in Actors : /\ pc'[b] = IF b = a THEN "swap" ELSE pc[b]
                          /\ snapshot'[b] = IF b = a THEN Selected(of[a], table[of[a]]) ELSE snapshot[b]
      BY <1>3 DEF ShapeInv
  <2>2. ShapeInv'
      BY <1>1, <1>3 DEF ShapeInv
  <2>3. PastInv'
      BY <1>1, <1>3, <2>1 DEF PastInv, ShapeInv
  <2>4. MineInv'
      BY <1>1, <1>3, <2>1 DEF MineInv
  <2>5. TodoInv' /\ CacheWasTable'
      BY <1>1, <1>3, <2>1 DEF TodoInv, CacheWasTable
  <2>6. BehindInv'
      BY <1>1, <1>3, <2>1 DEF BehindInv
  <2> QED BY <2>2, <2>3, <2>4, <2>5, <2>6
<1> QED BY <1>2, <1>3 DEF Query

\* A swap: what is installed was the table when it was queried, and agrees with
\* it where the POST's rows are concerned.
LEMMA SwapStep ==
    ASSUME IInv, NEW a \in Actors, Swap(a)
    PROVE  /\ IInv'
           /\ \A r \in mine[a] : cache'[of[a]][r] = Selected(of[a], table[of[a]])[r]
           /\ \A r \in Rows[of[a]] \ behind[a] :
                 cache'[of[a]][r] = Selected(of[a], table[of[a]])[r]
           /\ \A t \in Tables \ {of[a]} : cache'[t] = cache[t]
<1> USE DEF IInv
<1>1. /\ pc[a] = "swap" /\ UNCHANGED <<table, todo, mine, past>>
      /\ cache' = [cache EXCEPT ![of[a]] = snapshot[a]]
      /\ snapshot' = [snapshot EXCEPT ![a] = <<>>]
      /\ behind' = [behind EXCEPT ![a] = {}]
      /\ Onward(a)
    BY DEF Swap
<1>2. of[a] \in Tables /\ snapshot[a] \in past[of[a]]
    BY <1>1 DEF ShapeInv, PastInv
<1>3. cache' = [t \in Tables |-> cache'[t]] /\ cache'[of[a]] = snapshot[a]
    BY <1>1, <1>2 DEF ShapeInv
<1>0. \A t \in Tables \ {of[a]} : cache'[t] = cache[t]
    BY <1>1, <1>2 DEF ShapeInv
<1>4. CacheWasTable'
    BY <1>0, <1>1, <1>2, <1>3 DEF CacheWasTable
<1>5. PICK to \in {"idle", "query", "done"} : pc' = [pc EXCEPT ![a] = to] /\ (to = "idle" => a = "ticker")
    BY <1>1, OnwardMoves
<1>6. \A b \in Actors : /\ pc'[b] = IF b = a THEN to ELSE pc[b]
                        /\ b # a => snapshot'[b] = snapshot[b] /\ of'[b] = of[b]
    BY <1>1, <1>5, OnwardMoves DEF ShapeInv
<1>7. ShapeInv'
  <2>1. /\ pc' = [b \in Actors |-> pc'[b]] /\ snapshot' = [b \in Actors |-> snapshot'[b]]
        /\ behind' = [b \in Actors |-> behind'[b]]
      BY <1>1, <1>5 DEF ShapeInv
  <2> QED BY <1>1, <1>3, <2>1, OnwardMoves DEF ShapeInv
<1>8. PastInv'
    BY <1>1, <1>6 DEF PastInv
<1>9. a = "ticker" \/ of' = of
    BY <1>1, OnwardMoves
<1>10. MineInv'
  <2>1. \A b \in Actors : mine'[b] \subseteq Rows[of'[b]]
      BY <1>1, <1>6, <1>9 DEF MineInv
  <2>2. \A b \in Actors : pc'[b] = "idle" \/ b = "ticker" => mine'[b] = {}
      BY <1>1, <1>5, <1>6 DEF MineInv
  <2>3. \A b \in Actors : pc'[b] = "swap" =>
            \A r \in mine'[b] : snapshot'[b][r] = Selected(of'[b], table'[of'[b]])[r]
      BY <1>1, <1>6 DEF MineInv
  <2> QED BY <2>1, <2>2, <2>3 DEF MineInv
<1>11. TodoInv'
    BY <1>1, <1>6 DEF TodoInv
<1>12. \A r \in mine[a] : cache'[of[a]][r] = Selected(of[a], table[of[a]])[r]
    BY <1>1, <1>3 DEF MineInv
<1>13. \A r \in Rows[of[a]] \ behind[a] : cache'[of[a]][r] = Selected(of[a], table[of[a]])[r]
    BY <1>1, <1>3 DEF BehindInv
<1>14. BehindInv'
  <2>1. \A b \in Actors : behind'[b] = IF b = a THEN {} ELSE behind[b]
      BY <1>1 DEF ShapeInv
  <2>2. \A b \in Actors : behind'[b] \subseteq Rows[of'[b]]
      BY <1>6, <2>1 DEF BehindInv
  <2>3. \A b \in Actors : pc'[b] # "swap" => behind'[b] = {}
      BY <1>6, <2>1 DEF BehindInv
  <2>4. \A b \in Actors : pc'[b] = "swap" =>
            \A r \in Rows[of'[b]] \ behind'[b] :
               snapshot'[b][r] = Selected(of'[b], table'[of'[b]])[r]
      BY <1>1, <1>6, <2>1 DEF BehindInv
  <2> QED BY <2>2, <2>3, <2>4 DEF BehindInv
<1> QED BY <1>0, <1>4, <1>7, <1>8, <1>10, <1>11, <1>12, <1>13, <1>14

\* A tick of the loop.
LEMMA TickStep ==
    ASSUME IInv, Tick
    PROVE  IInv'
<1>1. "ticker" \in Actors /\ pc["ticker"] # "swap" /\ pc' = [pc EXCEPT !["ticker"] = "query"]
      /\ UNCHANGED <<table, cache, of, todo, mine, snapshot, behind, past>>
    BY DEF Tick, Go, Actors
<1>2. of' \in [Actors -> Tables] /\ CacheWasTable' /\ cache' = [t \in Tables |-> cache'[t]]
    BY <1>1 DEF IInv, ShapeInv, CacheWasTable
<1> QED BY <1>1, <1>2, ControlStep

\* A restart: the features are loaded from the table as it is, or not at all.
LEMMA RestartStep ==
    ASSUME IInv, Restart
    PROVE  IInv'
<1> USE DEF IInv
<1>1. /\ UNCHANGED <<table, todo, mine, past>>
      /\ cache' \in {Load(table["features"]), Load(Empty("features"))}
      /\ pc' = [a \in Actors |-> IF a = "ticker" \/ pc[a] = "idle" THEN "idle" ELSE "done"]
      /\ of' = [of EXCEPT !["ticker"] = "features"]
      /\ snapshot' = [a \in Actors |-> <<>>]
      /\ behind' = [a \in Actors |-> {}]
    BY DEF Restart
<1>2. CacheWasTable'
  <2>1. cache'["features"] \in {table["features"], Empty("features")} /\ cache'["users"] = Empty("users")
      BY <1>1 DEF Load
  <2>2. table["features"] \in past["features"]
      BY FeaturesSelected DEF PastInv, Tables
  <2> QED BY <1>1, <2>1, <2>2 DEF CacheWasTable, PastInv, Tables
<1>3. ShapeInv'
  <2>1. cache' = [t \in Tables |-> cache'[t]]
      BY <1>1 DEF Load, Tables
  <2>2. of' \in [Actors -> Tables]
      BY <1>1 DEF ShapeInv, Tables
  <2> QED BY <1>1, <2>1, <2>2 DEF ShapeInv
<1>4. \A a \in Actors : pc'[a] \in {"idle", "done"}
    BY <1>1
<1>5. PastInv' /\ BehindInv' /\ TodoInv'
    BY <1>1, <1>4 DEF PastInv, BehindInv, TodoInv
<1>6. MineInv'
  <2>1. \A a \in Actors : a # "ticker" => of'[a] = of[a]
      BY <1>1 DEF ShapeInv
  <2>2. \A a \in Actors : pc'[a] = "idle" => a = "ticker" \/ pc[a] = "idle"
      BY <1>1
  <2> QED BY <1>1, <1>4, <2>1, <2>2 DEF MineInv
<1> QED BY <1>2, <1>3, <1>5, <1>6

-----------------------------------------------------------------------------
(* The theorems.                                                           *)

\* Every step preserves the invariant.
LEMMA NextIInv == IInv /\ [Next]_vars => IInv'
<1> SUFFICES ASSUME IInv, [Next]_vars PROVE IInv'
    OBVIOUS
<1>1. ASSUME NEW p \in Posts, NEW t \in Tables, Post(p, t) PROVE IInv'
    BY <1>1, PostStep
<1>2. ASSUME NEW p \in Posts, SaveNext(p) PROVE IInv'
    BY <1>2, UpsertStep, OthersStep DEF SaveNext
<1>3. ASSUME NEW p \in Posts, SaveFails(p) PROVE IInv'
    BY <1>3, UpsertStep, OthersStep DEF SaveFails
<1>4. ASSUME NEW a \in Actors, Refresh(a) PROVE IInv'
    BY <1>4, QueryStep, SwapStep DEF Refresh
<1>5. CASE UNCHANGED vars
  <2>1. /\ UNCHANGED <<table, cache, pc, of>> /\ UNCHANGED <<todo, mine, snapshot>>
        /\ UNCHANGED <<behind, past>>
      BY <1>5 DEF vars
  <2>2. ShapeInv' /\ PastInv'
      BY <2>1 DEF IInv, ShapeInv, PastInv
  <2>3. MineInv' /\ BehindInv'
      BY <2>1 DEF IInv, MineInv, BehindInv
  <2>4. TodoInv' /\ CacheWasTable'
      BY <2>1 DEF IInv, TodoInv, CacheWasTable
  <2> QED BY <2>2, <2>3, <2>4 DEF IInv
<1> QED BY <1>1, <1>2, <1>3, <1>4, <1>5, TickStep, RestartStep DEF Next

\* The invariant holds in every state, for any rows, values and requests.
THEOREM Invariance == Spec => []IInv
BY InitIInv, NextIInv, PTL DEF Spec

\* The maps that the request path reads are always one state of their table (or
\* empty), however the refreshes of POSTs and of the loop overtake each other.
THEOREM NeverAMixture == Spec => []CacheWasTable
<1>1. IInv => CacheWasTable
    BY DEF IInv
<1> QED BY <1>1, Invariance, PTL

\* A row that is shown is lost to a save, to the swap of a refresh that was
\* overtaken by one, or to a restart that loads nothing, and to no other step.
LEMMA ShownStays ==
    ASSUME IInv, [Next]_vars, NEW t \in Tables, NEW r \in Rows[t],
           Shown(t, r), ~Shown(t, r)', table'[t][r] = table[t][r]
    PROVE  \/ \E a \in Actors : Swap(a) /\ of[a] = t /\ r \in behind[a]
           \/ Restart /\ cache'[t] = Empty(t)
<1>1. Selected(t, table'[t])[r] = Selected(t, table[t])[r]
    BY DEF Selected
<1>2. cache'[t][r] # cache[t][r]
    BY <1>1 DEF Shown
<1>3. cache' # cache
    BY <1>2
<1>4. CASE \E a \in Actors : Swap(a)
  <2>1. PICK a \in Actors : Swap(a)
      BY <1>4
  <2>2. of[a] = t
      BY <1>2, <2>1, SwapStep
  <2>3. ASSUME r \notin behind[a] PROVE FALSE
    <3>1. cache'[t][r] = Selected(t, table[t])[r]
        BY <2>1, <2>2, <2>3, SwapStep
    <3> QED BY <1>2, <3>1 DEF Shown
  <2> QED BY <2>1, <2>2, <2>3
<1>5. CASE Restart
  <2>1. cache' \in {Load(table["features"]), Load(Empty("features"))}
      BY <1>5 DEF Restart
  <2>2. CASE t = "users"
      BY <1>5, <2>1, <2>2 DEF Load
  <2>3. CASE t = "features" /\ cache' = Load(table["features"])
    <3>1. cache'[t] = Selected(t, table[t])
        BY <2>3, FeaturesSelected DEF Load, IInv, PastInv
    <3> QED BY <1>2, <3>1 DEF Shown
  <2>4. CASE t = "features" /\ cache' = Load(Empty("features"))
      BY <1>5, <2>4 DEF Load
  <2> QED BY <2>1, <2>2, <2>3, <2>4 DEF Tables
<1>6. CASE ~(\E a \in Actors : Swap(a)) /\ ~Restart
  <2>1. UNCHANGED cache
      BY <1>6 DEF Next, vars, Post, SaveNext, SaveFails, Upsert, UpsertFails, SaveOthers,
                  OthersFail, Tick, Refresh, Query
  <2> QED BY <1>3, <2>1
<1> QED BY <1>4, <1>5, <1>6

\* The refresh of a POST shows the rows the POST has saved, unless another request
\* has saved them since; and what is shown is lost only to another save, to a
\* refresh that was overtaken, or to a restart that loads nothing.
THEOREM SavedRowsAreInUse == Spec => SavedIsVisible
<1> DEFINE Own == \A p \in Posts :
                      Swap(p) => \A r \in mine[p] :
                                    cache'[of[p]][r] = Selected(of[p], table[of[p]])[r]
           Stays == \A t \in Tables : \A r \in Rows[t] :
                      Shown(t, r) /\ ~Shown(t, r)' =>
                         \/ table'[t][r] # table[t][r]
                         \/ \E a \in Actors : Swap(a) /\ of[a] = t /\ r \in behind[a]
                         \/ Restart /\ cache'[t] = Empty(t)
<1>1. IInv /\ [Next]_vars => Own
    BY SwapStep DEF Actors
<1>2. IInv /\ [Next]_vars => Stays
    BY ShownStays
<1>3. IInv /\ [Next]_vars => [Own /\ Stays]_vars
    BY <1>1, <1>2
<1> QED BY <1>3, Invariance, PTL DEF Spec, SavedIsVisible

-----------------------------------------------------------------------------
(* Type correctness.                                                       *)

\* Tables hold what they may, now and in the past; the rest of the types that
\* the invariant above does not need.
ContentInv ==
    /\ \A t \in Tables : table[t] \in Content(t) /\ past[t] \subseteq Content(t)
    /\ pc \in [Actors -> PcState]
    /\ faults \in 0..MaxFaults

\* What a query selects is a content of the table.
LEMMA SelectedIsContent ==
    ASSUME NEW t, NEW content \in Content(t)
    PROVE  Selected(t, content) \in Content(t)
BY DEF Selected, Content

LEMMA EmptyIsContent == ASSUME NEW t PROVE Empty(t) \in Content(t)
BY DEF Empty, Content

LEMMA InitContent == Init => ContentInv
<1> SUFFICES ASSUME Init PROVE ContentInv
    OBVIOUS
<1>1. PICK f \in Content("features"), u \in Content("users") : table = [features |-> f, users |-> u]
    BY DEF Init
<1>2. \A t \in Tables : table[t] \in Content(t)
    BY <1>1 DEF Tables
<1>3. \A t \in Tables : past[t] = {Empty(t), Selected(t, table[t])}
    BY DEF Init
<1>4. \A t \in Tables : past[t] \subseteq Content(t)
    BY <1>2, <1>3, SelectedIsContent, EmptyIsContent
<1>5. faults \in 0..MaxFaults
    BY SettingsAssumption DEF Init, SettingsAssumption
<1> QED BY <1>2, <1>4, <1>5 DEF ContentInv, Init, Idle, PcState

\* An upsert leaves a content of the table.
LEMMA SaveContent ==
    ASSUME IInv, ContentInv, NEW p \in Posts, pc[p] = "upsert", NEW r \in DOMAIN todo[p], Save(p, r)
    PROVE  \A x \in Tables : table'[x] \in Content(x) /\ past'[x] \subseteq Content(x)
<1> DEFINE t == of[p]
<1>1. t \in Tables /\ p \in Actors
    BY DEF IInv, ShapeInv, Actors
<1>2. r \in Rows[t] /\ todo[p][r] \in Values[t]
    BY <1>1 DEF IInv, TodoInv, Payload
<1>3. /\ \A x \in Tables \ {t} : table'[x] = table[x] /\ past'[x] = past[x]
      /\ table'[t] = [table[t] EXCEPT ![r] = todo[p][r]]
      /\ past'[t] = past[t] \cup {Selected(t, table'[t])}
    BY <1>1 DEF Save, IInv, ShapeInv
<1>4. table[t] \in Content(t)
    BY <1>1 DEF ContentInv
<1>5. table'[t] \in Content(t)
    BY <1>2, <1>3, <1>4 DEF Content
<1>6. Selected(t, table'[t]) \in Content(t)
    BY <1>5, SelectedIsContent
<1> QED BY <1>3, <1>5, <1>6 DEF ContentInv

\* The control stays in its range, and faults below their bound.
LEMMA GoTypes ==
    ASSUME ContentInv, NEW a, NEW to \in PcState,
           pc' = [pc EXCEPT ![a] = to]
    PROVE  pc' \in [Actors -> PcState]
BY DEF ContentInv

LEMMA FaultTypes == ContentInv /\ Fault => faults' \in 0..MaxFaults
BY SettingsAssumption DEF ContentInv, Fault, SettingsAssumption

LEMMA OnwardTypes ==
    ASSUME ContentInv, NEW a, Onward(a)
    PROVE  pc' \in [Actors -> PcState]
BY DEF Onward, ContentInv, PcState

LEMMA NextContent == IInv /\ ContentInv /\ [Next]_vars => ContentInv'
<1> SUFFICES ASSUME IInv, ContentInv, [Next]_vars PROVE ContentInv'
    OBVIOUS
<1>0. ASSUME UNCHANGED <<table, past>>
      PROVE  \A x \in Tables : table'[x] \in Content(x) /\ past'[x] \subseteq Content(x)
    BY <1>0 DEF ContentInv
<1>1. ASSUME NEW p \in Posts, NEW t \in Tables, Post(p, t) PROVE ContentInv'
  <2>1. pc' \in [Actors -> PcState]
      BY <1>1 DEF Post, ContentInv, AfterRows, PcState
  <2> QED BY <1>0, <1>1, <2>1 DEF Post, ContentInv
<1>2. ASSUME NEW p \in Posts, pc[p] = "upsert", NEW r \in DOMAIN todo[p], Upsert(p, r)
      PROVE  ContentInv'
  <2>1. pc' \in [Actors -> PcState]
      BY <1>2 DEF Upsert, Go, ContentInv, AfterRows, PcState
  <2> QED BY <1>2, <2>1, SaveContent DEF Upsert, ContentInv
<1>3. ASSUME NEW p \in Posts, pc[p] = "upsert", NEW r \in DOMAIN todo[p], UpsertFails(p, r)
      PROVE  ContentInv'
  <2>1. pc' \in [Actors -> PcState]
      BY <1>3 DEF UpsertFails, Go, ContentInv, PcState
  <2>2. \A x \in Tables : table'[x] \in Content(x) /\ past'[x] \subseteq Content(x)
      BY <1>0, <1>3, SaveContent DEF UpsertFails
  <2> QED BY <1>3, <2>1, <2>2, FaultTypes DEF UpsertFails, ContentInv
<1>4. ASSUME Tick PROVE ContentInv'
  <2>1. pc' \in [Actors -> PcState]
      BY <1>4 DEF Tick, Go, ContentInv, PcState
  <2> QED BY <1>0, <1>4, <2>1 DEF Tick, ContentInv
<1>5. ASSUME NEW a \in Actors, Query(a) PROVE ContentInv'
  <2>1. pc' \in [Actors -> PcState]
      BY <1>5, GoTypes, OnwardTypes DEF Query, PcState
  <2>2. faults' \in 0..MaxFaults
      BY <1>5, FaultTypes DEF Query, ContentInv
  <2> QED BY <1>0, <1>5, <2>1, <2>2 DEF Query, ContentInv
<1>6. ASSUME NEW a \in Actors, Swap(a) PROVE ContentInv'
    BY <1>0, <1>6, OnwardTypes DEF Swap, ContentInv
<1>7. ASSUME Restart PROVE ContentInv'
  <2>1. pc' \in [Actors -> PcState]
      BY <1>7 DEF Restart, PcState
  <2> QED BY <1>0, <1>7, <2>1, FaultTypes DEF Restart, ContentInv
<1>8. CASE UNCHANGED vars
    BY <1>0, <1>8 DEF vars, ContentInv
<1>9. ASSUME NEW p \in Posts, SaveOthers(p) \/ OthersFail(p) PROVE ContentInv'
  <2>1. pc' \in [Actors -> PcState]
      BY <1>9, GoTypes DEF SaveOthers, OthersFail, Go, PcState
  <2>2. faults' \in 0..MaxFaults
      BY <1>9, FaultTypes DEF SaveOthers, OthersFail, ContentInv
  <2> QED BY <1>0, <1>9, <2>1, <2>2 DEF SaveOthers, OthersFail, ContentInv
<1> QED BY <1>1, <1>2, <1>3, <1>4, <1>5, <1>6, <1>7, <1>8, <1>9 DEF Next, SaveNext, SaveFails, Refresh

\* Both invariants together give the types: what is in a map or in a refresh's
\* hands is a past state of the table.
LEMMA InvTypes == IInv /\ ContentInv => TypeOK
<1> SUFFICES ASSUME IInv, ContentInv PROVE TypeOK
    OBVIOUS
<1>1. \A t \in Tables : table[t] \in Content(t) /\ cache[t] \in Content(t)
    BY DEF ContentInv, IInv, CacheWasTable
<1>2. /\ table \in [Tables -> UNION {Content(t) : t \in Tables}]
      /\ cache \in [Tables -> UNION {Content(t) : t \in Tables}]
  <2>1. table = [t \in Tables |-> table[t]] /\ cache = [t \in Tables |-> cache[t]]
      BY DEF IInv, ShapeInv
  <2>2. \A t \in Tables : /\ table[t] \in UNION {Content(x) : x \in Tables}
                          /\ cache[t] \in UNION {Content(x) : x \in Tables}
      BY <1>1
  <2> HIDE DEF Content
  <2> QED BY <2>1, <2>2
<1>3. \A a \in Actors :
          /\ pc[a] = "swap" => snapshot[a] \in Content(of[a])
          /\ pc[a] = "upsert" => a # "ticker" /\ todo[a] \in Payload(of[a])
          /\ mine[a] \subseteq Rows[of[a]] /\ behind[a] \subseteq Rows[of[a]]
  <2>1. of \in [Actors -> Tables] /\ "ticker" \notin Posts
      BY SettingsAssumption DEF SettingsAssumption, IInv, ShapeInv
  <2> QED BY <2>1 DEF ContentInv, IInv, PastInv, TodoInv, MineInv, BehindInv
<1> QED BY <1>1, <1>2, <1>3 DEF ContentInv, IInv, ShapeInv, TypeOK

\* Tables, maps, snapshots and payloads have their types in every state.
THEOREM TypeCorrect == Spec => []TypeOK
<1>1. Spec => []ContentInv
    BY InitContent, NextContent, Invariance, PTL DEF Spec
<1> QED BY <1>1, Invariance, InvTypes, PTL
=============================================================================
