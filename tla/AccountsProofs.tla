--------------------------- MODULE AccountsProofs ----------------------------
(***************************************************************************)
(* Proofs about registrations, logins and logouts, for any number of       *)
(* requests, names and addresses: what concurrent and failing requests     *)
(* cannot break.                                                           *)
(*                                                                         *)
(* A request writes rows that it names, so that the argument follows each  *)
(* row back to its request: what the request was sent does not change once *)
(* it has begun, and whom it works for does not once it has been found.    *)
(***************************************************************************)
EXTENDS Accounts, TLAPS

States == {"new", "login", "session"} \cup Registering \cup Ended

Forms == [slug : Slugs \cup {"none"}, email : Emails \cup {"none"},
          password : Requests \cup {"wrong", "none"}]

\* The tables and the requests are type correct.
TypeInv ==
    /\ orgs \subseteq [id : Requests, slug : Slugs]
    /\ users \subseteq [id : Requests, org : Requests, email : Emails, password : Requests]
    /\ sessions \subseteq [token : Requests, user : Requests, org : Requests, expires : Nat]
    /\ now \in Nat /\ faults \in Nat
    /\ pc \in [Requests -> States]
    /\ form \in [Requests -> Forms]
    /\ found \in [Requests -> users \cup {NoUser}]

\* A registration works with what it was sent.
FormInv ==
    \A q \in Requests :
        pc[q] \in Registering => /\ form[q].slug \in Slugs
                                 /\ form[q].email \in Emails
                                 /\ form[q].password = q

\* An organisation is its registration's, which is past inserting it.
OrgInv ==
    /\ \A o \in orgs : /\ o = [id |-> o.id, slug |-> form[o.id].slug]
                       /\ pc[o.id] \in {"user", "session", "registered", "loggedIn", "failed"}
    /\ \A q \in Requests : pc[q] = "user" => \E o \in orgs : o.id = q

\* A user is its registration's, and so is the organisation.
UserInv ==
    \A u \in users : /\ u = Owner(u.id)
                     /\ pc[u.id] # "new"
                     /\ \E o \in orgs : o.id = u.id

UniqueInv ==
    /\ \A o, p \in orgs : o.slug = p.slug => o = p
    /\ \A u, v \in users : u.email = v.email => u = v

\* Whom request q has found is a user that it may act for.
HasShown(q) ==
    /\ found[q] \in users
    /\ found[q].email = form[q].email
    /\ found[q].password = form[q].password

\* A session is one of whom its request had found.
SessionInv ==
    /\ \A q \in Requests : pc[q] = "session" => HasShown(q)
    /\ \A s \in sessions : /\ s.user = found[s.token].id /\ s.org = found[s.token].org
                           /\ pc[s.token] \in {"registered", "loggedIn", "failed"}
                           /\ HasShown(s.token)

\* Why an organisation has no owner, if it has none.
OrphanInv ==
    \A o \in orgs :
        \/ \E u \in users : u.org = o.id
        \/ pc[o.id] = "user"
        \/ pc[o.id] = "failed" /\ (faults > 0 \/ UsersOf(form[o.id].email) # {})

IInv == TypeInv /\ FormInv /\ OrgInv /\ UserInv /\ UniqueInv /\ SessionInv /\ OrphanInv

-----------------------------------------------------------------------------
LEMMA InitInv == Init => IInv
BY AccountsAssumption
   DEF Init, IInv, TypeInv, FormInv, OrgInv, UserInv, UniqueInv, SessionInv, OrphanInv,
       States, Registering, Ended, Forms, NoForm, NoUser, AccountsAssumption

\* The statements that fail, and the look-ups: a request moves on and changes
\* nothing, or ends.
LEMMA Moves ==
    ASSUME IInv, NEW q \in Requests, NEW from \in States, NEW to \in States, Go(q, from, to),
           UNCHANGED <<tables, now, form, found>>,
           faults' \in Nat, faults' >= faults,
           \/ to = "failed" /\ (from \in {"user"} => faults' > 0 \/ UsersOf(form[q].email) # {})
           \/ to = "refused" /\ from \in {"slug", "email", "login"}
           \/ <<from, to>> \in {<<"slug", "email">>, <<"email", "org">>}
    PROVE  IInv'
<1> USE DEF IInv
<1>1. pc' = [pc EXCEPT ![q] = to] /\ pc[q] = from /\ UNCHANGED <<orgs, users, sessions, form, found>>
    BY DEF Go, tables
<1>2. TypeInv'
    BY <1>1 DEF TypeInv
<1>3. FormInv'
    BY <1>1 DEF TypeInv, FormInv, Registering
<1>4. OrgInv'
    BY <1>1 DEF TypeInv, OrgInv
<1>5. UserInv'
    BY <1>1 DEF TypeInv, UserInv, Owner
<1>6. UniqueInv'
    BY <1>1 DEF UniqueInv
<1>7. SessionInv'
    BY <1>1 DEF TypeInv, SessionInv, HasShown
<1>8. OrphanInv'
    BY <1>1 DEF TypeInv, OrgInv, OrphanInv, UsersOf
<1> QED BY <1>2, <1>3, <1>4, <1>5, <1>6, <1>7, <1>8

\* A request arrives: nothing is its own yet.
LEMMA Arrives ==
    ASSUME IInv, NEW q \in Requests, Register(q) \/ Login(q)
    PROVE  IInv'
<1> USE DEF IInv
<1>1. PICK f \in Forms, to \in {"slug", "login"} :
          /\ pc[q] = "new" /\ pc' = [pc EXCEPT ![q] = to]
          /\ form' = [form EXCEPT ![q] = f]
          /\ to = "slug" => f.slug \in Slugs /\ f.email \in Emails /\ f.password = q
    BY DEF Register, Login, Go, Forms
<1>2. UNCHANGED <<orgs, users, sessions, now, found, faults>>
    BY DEF Register, Login, tables
<1>3. TypeInv'
    BY <1>1, <1>2 DEF TypeInv, States, Registering
<1>4. FormInv'
    BY <1>1, <1>2 DEF TypeInv, FormInv, Registering
<1>5. \A r \in Requests \ {q} : form'[r] = form[r] /\ pc'[r] = pc[r]
    BY <1>1 DEF TypeInv
<1>6. \A o \in orgs : o.id \in Requests \ {q}
    BY <1>1 DEF TypeInv, OrgInv
<1>7. \A u \in users : u.id \in Requests \ {q}
    BY <1>1 DEF TypeInv, UserInv
<1>8. OrgInv' /\ OrphanInv'
  <2>1. pc'[q] # "user"
      BY <1>1 DEF TypeInv
  <2>2. OrgInv'
      BY <1>2, <1>5, <1>6, <2>1 DEF OrgInv
  <2>3. OrphanInv'
      BY <1>2, <1>5, <1>6 DEF OrphanInv, UsersOf
  <2> QED BY <2>2, <2>3
<1>9. UserInv' /\ UniqueInv'
    BY <1>2, <1>5, <1>7 DEF UserInv, UniqueInv, Owner
<1>10. SessionInv'
  <2>1. \A s \in sessions : s.token \in Requests \ {q}
      BY <1>1 DEF TypeInv, SessionInv
  <2>2. pc'[q] # "session"
      BY <1>1 DEF TypeInv
  <2> QED BY <1>2, <1>5, <2>1, <2>2 DEF SessionInv, HasShown
<1> QED BY <1>3, <1>4, <1>8, <1>9, <1>10

\* An organisation is inserted.
LEMMA OrgInserted ==
    ASSUME IInv, NEW q \in Requests, InsertOrg(q), NEW to \in {"user", "failed"}, Go(q, "org", to),
           UNCHANGED <<now, form, found>>, faults' \in Nat, faults' >= faults,
           to = "failed" => faults' > 0
    PROVE  IInv'
<1> USE DEF IInv
<1> DEFINE o == [id |-> q, slug |-> form[q].slug]
<1>1. /\ pc' = [pc EXCEPT ![q] = to] /\ pc[q] = "org"
      /\ orgs' = orgs \cup {o} /\ UNCHANGED <<users, sessions, form, found, now>>
      /\ \A p \in orgs : p.slug # form[q].slug
      /\ form[q].slug \in Slugs
    BY DEF Go, InsertOrg, OrgsNamed, FormInv, Registering
<1>2. TypeInv'
    BY <1>1 DEF TypeInv, States, Registering, Ended
<1>3. FormInv'
    BY <1>1 DEF TypeInv, FormInv, Registering
<1>4. OrgInv'
  <2>1. \A r \in Requests \ {q} : pc'[r] = pc[r]
      BY <1>1 DEF TypeInv
  <2>2. pc'[q] = to /\ o \in orgs' /\ o.id = q
      BY <1>1 DEF TypeInv
  <2>3. \A p \in orgs : p.id \in Requests \ {q}
      BY <1>1 DEF TypeInv, OrgInv
  <2> QED BY <1>1, <2>1, <2>2, <2>3 DEF OrgInv
<1>5. UserInv'
    BY <1>1 DEF TypeInv, UserInv, Owner
<1>6. UniqueInv'
    BY <1>1 DEF UniqueInv
<1>7. SessionInv'
    BY <1>1 DEF TypeInv, SessionInv, HasShown
<1>8. OrphanInv'
    BY <1>1 DEF TypeInv, OrgInv, OrphanInv, UsersOf
<1> QED BY <1>2, <1>3, <1>4, <1>5, <1>6, <1>7, <1>8

\* A user is inserted, and its request goes on to its session or fails.
LEMMA UserInserted ==
    ASSUME IInv, NEW q \in Requests, InsertUser(q), NEW to \in {"session", "failed"},
           Go(q, "user", to), UNCHANGED <<now, form>>, faults' \in Nat, faults' >= faults,
           to = "session" => found' = [found EXCEPT ![q] = Owner(q)],
           to = "failed" => faults' > 0 /\ UNCHANGED found
    PROVE  IInv'
<1> USE DEF IInv
<1>1. /\ pc' = [pc EXCEPT ![q] = to] /\ pc[q] = "user"
      /\ users' = users \cup {Owner(q)} /\ UNCHANGED <<orgs, sessions, form, now>>
      /\ \A u \in users : u.email # form[q].email
      /\ form[q].email \in Emails /\ form[q].password = q
      /\ \E o \in orgs : o.id = q
    BY DEF Go, InsertUser, UsersOf, FormInv, OrgInv, Registering
<1>2. \A r \in Requests \ {q} : found'[r] = found[r] /\ pc'[r] = pc[r]
    BY <1>1 DEF TypeInv
<1>3. found' \in [Requests -> users' \cup {NoUser}]
  <2>1. CASE to = "session"
      BY <1>1, <2>1 DEF TypeInv
  <2>2. CASE to = "failed"
      BY <1>1, <2>2 DEF TypeInv
  <2> QED BY <2>1, <2>2
<1>4. TypeInv'
  <2>1. Owner(q) \in [id : Requests, org : Requests, email : Emails, password : Requests]
      BY <1>1 DEF Owner
  <2>2. users' \subseteq [id : Requests, org : Requests, email : Emails, password : Requests]
      BY <1>1, <2>1 DEF TypeInv
  <2>3. pc' \in [Requests -> States]
      BY <1>1 DEF TypeInv, States, Registering, Ended
  <2> QED BY <1>1, <1>3, <2>2, <2>3 DEF TypeInv
<1>5. FormInv'
    BY <1>1 DEF TypeInv, FormInv, Registering
<1>6. OrgInv'
    BY <1>1 DEF TypeInv, OrgInv
<1>7. UserInv'
    BY <1>1 DEF TypeInv, UserInv, Owner
<1>8. UniqueInv'
    BY <1>1 DEF UniqueInv, Owner
<1>9. SessionInv'
  <2>1. \A s \in sessions : s.token \in Requests \ {q}
      BY <1>1 DEF TypeInv, SessionInv
  <2>2. \A r \in Requests \ {q} : HasShown(r) => HasShown(r)'
      BY <1>1, <1>2 DEF HasShown
  <2>3. to = "session" => HasShown(q)'
      BY <1>1 DEF HasShown, Owner, TypeInv
  <2>4. pc'[q] = to
      BY <1>1 DEF TypeInv
  <2> QED BY <1>1, <1>2, <2>1, <2>2, <2>3, <2>4 DEF SessionInv
<1>10. OrphanInv'
  <2>1. Owner(q) \in users' /\ Owner(q).org = q
      BY <1>1 DEF Owner
  <2>2. \A o \in orgs : o.id # q => o.id \in Requests /\ pc'[o.id] = pc[o.id]
      BY <1>1, <1>2 DEF TypeInv
  <2>3. \A e : UsersOf(e) \subseteq UsersOf(e)'
      BY <1>1 DEF UsersOf
  <2>4. faults > 0 => faults' > 0
      BY DEF TypeInv
  <2> QED BY <1>1, <2>1, <2>2, <2>3, <2>4 DEF OrphanInv
<1> QED BY <1>4, <1>5, <1>6, <1>7, <1>8, <1>9, <1>10

\* A login finds its user.
LEMMA UserFound ==
    ASSUME IInv, NEW q \in Requests, NEW u \in Authentic(q), Go(q, "login", "session"),
           found' = [found EXCEPT ![q] = u], UNCHANGED <<tables, now, form, faults>>
    PROVE  IInv'
<1> USE DEF IInv
<1>1. /\ pc' = [pc EXCEPT ![q] = "session"] /\ pc[q] = "login"
      /\ u \in users /\ u.email = form[q].email /\ u.password = form[q].password
      /\ UNCHANGED <<orgs, users, sessions, now, form, faults>>
    BY DEF Go, Authentic, UsersOf, tables
<1>2. \A r \in Requests \ {q} : found'[r] = found[r] /\ pc'[r] = pc[r]
    BY <1>1 DEF TypeInv
<1>3. TypeInv'
    BY <1>1 DEF TypeInv, States
<1>4. FormInv' /\ UniqueInv'
    BY <1>1 DEF TypeInv, FormInv, UniqueInv, Registering
<1>5. OrgInv' /\ OrphanInv'
  <2>1. \A o \in orgs : o.id \in Requests \ {q}
      BY <1>1 DEF TypeInv, OrgInv
  <2> QED BY <1>1, <1>2, <2>1 DEF OrgInv, OrphanInv, UsersOf
<1>6. UserInv'
    BY <1>1, <1>2 DEF TypeInv, UserInv, Owner
<1>7. SessionInv'
  <2>1. \A s \in sessions : s.token \in Requests \ {q}
      BY <1>1 DEF TypeInv, SessionInv
  <2>2. HasShown(q)'
      BY <1>1 DEF TypeInv, HasShown
  <2> QED BY <1>1, <1>2, <2>1, <2>2 DEF SessionInv, HasShown
<1> QED BY <1>3, <1>4, <1>5, <1>6, <1>7

\* A session is inserted.
LEMMA SessionInserted ==
    ASSUME IInv, NEW q \in Requests, InsertSession(q),
           NEW to \in {"registered", "loggedIn", "failed"}, Go(q, "session", to),
           UNCHANGED <<now, form, found>>, faults' \in Nat, faults' >= faults
    PROVE  IInv'
<1> USE DEF IInv
<1> DEFINE s == [token |-> q, user |-> found[q].id, org |-> found[q].org, expires |-> now + Lifetime]
<1>1. /\ pc' = [pc EXCEPT ![q] = to] /\ pc[q] = "session"
      /\ sessions' = sessions \cup {s} /\ UNCHANGED <<orgs, users, form, found, now>>
      /\ HasShown(q)
    BY DEF Go, InsertSession, SessionInv
<1>2. TypeInv'
    BY <1>1, AccountsAssumption
       DEF TypeInv, AccountsAssumption, States, Registering, Ended, HasShown
<1>3. FormInv' /\ UniqueInv'
    BY <1>1 DEF TypeInv, FormInv, UniqueInv, Registering
<1>4. OrgInv'
    BY <1>1 DEF TypeInv, OrgInv
<1>5. UserInv'
    BY <1>1 DEF TypeInv, UserInv, Owner
<1>6. SessionInv'
    BY <1>1 DEF TypeInv, SessionInv, HasShown
<1>7. OrphanInv'
    BY <1>1 DEF TypeInv, OrgInv, OrphanInv, UsersOf
<1> QED BY <1>2, <1>3, <1>4, <1>5, <1>6, <1>7

\* Sessions are deleted, and time passes.
LEMMA Ends ==
    ASSUME IInv, sessions' \subseteq sessions, now' \in Nat,
           UNCHANGED <<orgs, users, pc, form, found, faults>>
    PROVE  IInv'
<1>1. TypeInv'
    BY DEF IInv, TypeInv
<1>2. FormInv' /\ OrgInv' /\ UserInv' /\ UniqueInv' /\ OrphanInv'
    BY DEF IInv, FormInv, OrgInv, UserInv, UniqueInv, OrphanInv, Owner, UsersOf
<1>3. SessionInv'
    BY DEF IInv, SessionInv, HasShown
<1> QED BY <1>1, <1>2, <1>3 DEF IInv

-----------------------------------------------------------------------------
LEMMA NextInv ==
    ASSUME IInv, Next
    PROVE  IInv'
<1>1. faults \in Nat /\ now \in Nat
    BY DEF IInv, TypeInv
<1>2. ASSUME NEW q \in Requests, Register(q) \/ Login(q)
      PROVE  IInv'
    BY <1>2, Arrives
<1>3. ASSUME NEW q \in Requests, NEW from \in States, Fail(q, from), UNCHANGED tables
      PROVE  IInv'
    BY <1>1, <1>3, Moves DEF Fail, States, Ended
<1>4. ASSUME NEW q \in Requests, CheckSlug(q) \/ CheckEmail(q)
      PROVE  IInv'
  <2>1. CASE CheckSlug(q)
    <3>1. CASE Fail(q, "slug") /\ UNCHANGED tables
        BY <1>3, <3>1 DEF States, Registering
    <3>2. CASE Go(q, "slug", IF OrgsNamed(form[q].slug) # {} THEN "refused" ELSE "email")
               /\ UNCHANGED <<tables, now, form, found, faults>>
        BY <1>1, <3>2, Moves DEF States, Registering, Ended
    <3> QED BY <2>1, <3>1, <3>2 DEF CheckSlug
  <2>2. CASE CheckEmail(q)
    <3>1. CASE Fail(q, "email") /\ UNCHANGED tables
        BY <1>3, <3>1 DEF States, Registering
    <3>2. CASE Go(q, "email", IF UsersOf(form[q].email) # {} THEN "refused" ELSE "org")
               /\ UNCHANGED <<tables, now, form, found, faults>>
        BY <1>1, <3>2, Moves DEF States, Registering, Ended
    <3> QED BY <2>2, <3>1, <3>2 DEF CheckEmail
  <2> QED BY <1>4, <2>1, <2>2
<1>5. ASSUME NEW q \in Requests, CreateOrg(q)
      PROVE  IInv'
  <2>1. CASE InsertOrg(q) /\ Go(q, "org", "user") /\ UNCHANGED <<now, form, found, faults>>
      BY <1>1, <2>1, OrgInserted
  <2>2. CASE Go(q, "org", "failed") /\ UNCHANGED <<tables, now, form, found, faults>>
      BY <1>1, <2>2, Moves DEF States, Registering, Ended
  <2>3. CASE InsertOrg(q) /\ Fail(q, "org")
      BY <1>1, <2>3, OrgInserted DEF Fail
  <2>4. CASE Fail(q, "org") /\ UNCHANGED tables
      BY <1>3, <2>4 DEF States, Registering
  <2> QED BY <1>5, <2>1, <2>2, <2>3, <2>4 DEF CreateOrg
<1>6. ASSUME NEW q \in Requests, CreateUser(q)
      PROVE  IInv'
  <2>1. CASE /\ InsertUser(q) /\ Go(q, "user", "session")
             /\ found' = [found EXCEPT ![q] = Owner(q)] /\ UNCHANGED <<now, form, faults>>
    <3> DEFINE to == "session"
    <3>1. /\ to \in {"session", "failed"} /\ InsertUser(q) /\ Go(q, "user", to)
          /\ UNCHANGED <<now, form>> /\ faults' \in Nat /\ faults' >= faults
          /\ to = "session" => found' = [found EXCEPT ![q] = Owner(q)]
          /\ to = "failed" => faults' > 0 /\ UNCHANGED found
        BY <1>1, <2>1
    <3> HIDE DEF to
    <3> QED BY <3>1, UserInserted
  <2>2. CASE /\ UsersOf(form[q].email) # {} /\ Go(q, "user", "failed")
             /\ UNCHANGED <<tables, now, form, found, faults>>
      BY <1>1, <2>2, Moves DEF States, Registering, Ended
  <2>3. CASE InsertUser(q) /\ Fail(q, "user")
      BY <1>1, <2>3, UserInserted DEF Fail
  <2>4. CASE Fail(q, "user") /\ UNCHANGED tables
      BY <1>3, <2>4 DEF States, Registering
  <2> QED BY <1>6, <2>1, <2>2, <2>3, <2>4 DEF CreateUser
<1>7. ASSUME NEW q \in Requests, CreateSession(q)
      PROVE  IInv'
  <2>1. CASE /\ InsertSession(q)
             /\ Go(q, "session", IF form[q].password = q THEN "registered" ELSE "loggedIn")
             /\ UNCHANGED <<now, form, found, faults>>
      BY <1>1, <2>1, SessionInserted
  <2>2. CASE InsertSession(q) /\ Fail(q, "session")
      BY <1>1, <2>2, SessionInserted DEF Fail
  <2>3. CASE Fail(q, "session") /\ UNCHANGED tables
      BY <1>3, <2>3 DEF States
  <2> QED BY <1>7, <2>1, <2>2, <2>3 DEF CreateSession
<1>8. ASSUME NEW q \in Requests, Authenticate(q)
      PROVE  IInv'
  <2>1. CASE /\ \E u \in Authentic(q) : found' = [found EXCEPT ![q] = u]
             /\ Go(q, "login", "session") /\ UNCHANGED <<tables, now, form, faults>>
      BY <2>1, UserFound
  <2>2. CASE Go(q, "login", "refused") /\ UNCHANGED <<tables, now, form, found, faults>>
      BY <1>1, <2>2, Moves DEF States, Ended
  <2>3. CASE Fail(q, "login") /\ UNCHANGED tables
      BY <1>3, <2>3 DEF States
  <2> QED BY <1>8, <2>1, <2>2, <2>3 DEF Authenticate
<1>9. ASSUME NEW q \in Requests, Logout(q)
      PROVE  IInv'
    BY <1>1, <1>9, Ends DEF Logout, DeleteSession
<1>10. CASE Tick
    BY <1>1, <1>10, Ends DEF Tick, tables
<1> QED BY <1>2, <1>4, <1>5, <1>6, <1>7, <1>8, <1>9, <1>10 DEF Next

\* The invariant holds for any requests, names, addresses, clock and faults.
THEOREM Invariance == Spec => []IInv
<1>1. IInv /\ UNCHANGED vars => IInv'
    BY DEF vars, tables, IInv, TypeInv, FormInv, OrgInv, UserInv, UniqueInv, SessionInv, OrphanInv,
           HasShown, Owner, UsersOf
<1> QED BY InitInv, NextInv, <1>1, PTL DEF Spec

-----------------------------------------------------------------------------
(* What follows from it.                                                   *)

\* Names and addresses are taken once, whoever asks for them at the same time
\* (auth_handlers.go:105-126).
LEMMA TakenOnce == IInv => NamesAreTakenOnce
BY DEF IInv, OrgInv, UserInv, UniqueInv, NamesAreTakenOnce, OrgOf, Owner

\* Whom a token stands for is whom its request had found.
LEMMA TokenOfFound ==
    ASSUME IInv, NEW t \in Requests, NEW u \in Me(t)
    PROVE  /\ u = found[t] /\ HasShown(t)
           /\ \E s \in SessionsBy(t) : s.org = u.org
<1>1. PICK s \in SessionsBy(t) : u \in users /\ s.user = u.id
    BY DEF Me, SessionAndUser
<1>2. s \in sessions /\ s.token = t
    BY <1>1 DEF SessionsBy
<1>3. HasShown(t) /\ s.user = found[t].id /\ s.org = found[t].org
    BY <1>2 DEF IInv, SessionInv
<1>4. u = Owner(u.id) /\ found[t] = Owner(found[t].id)
    BY <1>1, <1>3 DEF IInv, UserInv, HasShown
<1> QED BY <1>1, <1>3, <1>4

LEMMA Identified == IInv => TokensIdentify
<1> SUFFICES ASSUME IInv, NEW t \in Requests, NEW u \in Me(t)
             PROVE  /\ u.email = form[t].email /\ u.password = form[t].password
                    /\ Me(t) = {u}
                    /\ \E s \in SessionsBy(t) : s.org = u.org
    BY DEF TokensIdentify
<1>1. \A v \in Me(t) : v = found[t]
    BY TokenOfFound
<1> QED BY <1>1, TokenOfFound DEF HasShown

LEMMA Explained == IInv => OrphansAreExplained
BY DEF IInv, OrphanInv, OrphansAreExplained, Ended

\* Concurrent and failing registrations, logins and logouts keep names and
\* addresses unique, give each token to who has shown the password, and leave an
\* organisation without an owner for two causes only.
THEOREM AccountsSound == Spec => []AccountsAreSound
<1>1. IInv => AccountsAreSound
    BY TakenOnce, Identified, Explained DEF AccountsAreSound
<1> QED BY Invariance, <1>1, PTL
=============================================================================
