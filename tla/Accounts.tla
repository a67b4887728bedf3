------------------------------ MODULE Accounts ------------------------------
(***************************************************************************)
(* Organisations, users and login sessions (cmd/gateway/auth_handlers.go,  *)
(* internal/db/postgres.go).  A registration looks for the name and the    *)
(* e-mail address, then inserts an organisation, its owner and a session,  *)
(* in three statements without a transaction; a login checks a password    *)
(* and inserts a session; a logout deletes one.  Several of them run at    *)
(* once, every statement is a step, and any may fail.                      *)
(*                                                                         *)
(* The ids and tokens that a request generates are random: they are named  *)
(* by the request.  So is the password of a registration: a login has that *)
(* of some registration, or none that is right.                            *)
(***************************************************************************)
EXTENDS Naturals, FiniteSets

CONSTANTS
    Requests,   \* registrations and logins
    Slugs,      \* names of organisations, as normalised
    Emails,     \* addresses, as normalised
    Lifetime,   \* of a session (30 days)
    MaxTime,    \* bound: the clock
    MaxFaults   \* bound: failed statements

ASSUME AccountsAssumption ==
    Lifetime \in Nat \ {0} /\ MaxTime \in Nat /\ MaxFaults \in Nat

VARIABLES
    orgs,      \* table orgs: [id, slug]
    users,     \* table users: [id, org, email, password]
    sessions,  \* table auth_sessions: [token, user, org, expires]
    now,
    pc,        \* control state of each request
    form,      \* what it was sent: [slug, email, password]
    found,     \* the user that a login or a registration works for
    faults

tables == <<orgs, users, sessions>>
vars   == <<tables, now, pc, form, found, faults>>

NoForm == [slug |-> "none", email |-> "none", password |-> "none"]
NoUser == [id |-> "none", org |-> "none", email |-> "none", password |-> "none"]

\* Registrations between their statements, and requests that have ended.
Registering == {"slug", "email", "org", "user"}
Ended       == {"registered", "loggedIn", "refused", "failed"}

Init ==
    /\ orgs = {} /\ users = {} /\ sessions = {}
    /\ now = 0
    /\ pc = [q \in Requests |-> "new"]
    /\ form = [q \in Requests |-> NoForm]
    /\ found = [q \in Requests |-> NoUser]
    /\ faults = 0

Go(q, from, to) == pc[q] = from /\ pc' = [pc EXCEPT ![q] = to]

\* The statement of q fails, and q with it: a lost connection, a client that
\* has left, a crash.  What it did before stays.
Fail(q, from) ==
    /\ faults < MaxFaults /\ faults' = faults + 1
    /\ Go(q, from, "failed")
    /\ UNCHANGED <<now, form, found>>

-----------------------------------------------------------------------------
(* POST /auth/register, with a name, an address and a password that are      *)
(* acceptable.                                                               *)

Register(q) ==
    /\ Go(q, "new", "slug")
    /\ \E s \in Slugs, e \in Emails :
          form' = [form EXCEPT ![q] = [slug |-> s, email |-> e, password |-> q]]
    /\ UNCHANGED <<tables, now, found, faults>>

OrgsNamed(s) == {o \in orgs : o.slug = s}

CheckSlug(q) ==
    \/ /\ Go(q, "slug", IF OrgsNamed(form[q].slug) # {} THEN "refused" ELSE "email")
       /\ UNCHANGED <<tables, now, form, found, faults>>
    \/ Fail(q, "slug") /\ UNCHANGED tables

UsersOf(email) == {u \in users : u.email = email}

CheckEmail(q) ==
    \/ /\ Go(q, "email", IF UsersOf(form[q].email) # {} THEN "refused" ELSE "org")
       /\ UNCHANGED <<tables, now, form, found, faults>>
    \/ Fail(q, "email") /\ UNCHANGED tables

\* Mutant: the table has no UNIQUE slug.
InsertOrgAnyway(q) ==
    /\ orgs' = orgs \cup {[id |-> q, slug |-> form[q].slug]}
    /\ UNCHANGED <<users, sessions>>

\* The slug is UNIQUE: the statement has no effect if it has been taken since.
InsertOrg(q) ==
    /\ OrgsNamed(form[q].slug) = {}
    /\ orgs' = orgs \cup {[id |-> q, slug |-> form[q].slug]}
    /\ UNCHANGED <<users, sessions>>

CreateOrg(q) ==
    \/ InsertOrg(q) /\ Go(q, "org", "user") /\ UNCHANGED <<now, form, found, faults>>
    \/ /\ OrgsNamed(form[q].slug) # {}
       /\ Go(q, "org", "failed")
       /\ UNCHANGED <<tables, now, form, found, faults>>
    \/ InsertOrg(q) /\ Fail(q, "org")      \* done, but its reply is lost
    \/ Fail(q, "org") /\ UNCHANGED tables

Owner(q) == [id |-> q, org |-> q, email |-> form[q].email, password |-> form[q].password]

InsertUser(q) ==
    /\ UsersOf(form[q].email) = {}
    /\ users' = users \cup {Owner(q)}
    /\ UNCHANGED <<orgs, sessions>>

CreateUser(q) ==
    \/ /\ InsertUser(q)
       /\ Go(q, "user", "session")
       /\ found' = [found EXCEPT ![q] = Owner(q)]
       /\ UNCHANGED <<now, form, faults>>
    \/ /\ UsersOf(form[q].email) # {}
       /\ Go(q, "user", "failed")
       /\ UNCHANGED <<tables, now, form, found, faults>>
    \/ InsertUser(q) /\ Fail(q, "user")
    \/ Fail(q, "user") /\ UNCHANGED tables

-----------------------------------------------------------------------------
(* authCreateSession, the end of a registration and of a login.              *)

InsertSession(q) ==
    /\ sessions' = sessions \cup {[token |-> q, user |-> found[q].id, org |-> found[q].org,
                                   expires |-> now + Lifetime]}
    /\ UNCHANGED <<orgs, users>>

CreateSession(q) ==
    \/ /\ InsertSession(q)
       /\ Go(q, "session", IF form[q].password = q THEN "registered" ELSE "loggedIn")
       /\ UNCHANGED <<now, form, found, faults>>
    \/ InsertSession(q) /\ Fail(q, "session")
    \/ Fail(q, "session") /\ UNCHANGED tables

-----------------------------------------------------------------------------
(* POST /auth/login.  "login" is the state before its query.                 *)

Login(q) ==
    /\ Go(q, "new", "login")
    /\ \E e \in Emails, p \in (Requests \ {q}) \cup {"wrong"} :
          form' = [form EXCEPT ![q] = [slug |-> "none", email |-> e, password |-> p]]
    /\ UNCHANGED <<tables, now, found, faults>>

Authentic(q) == {u \in UsersOf(form[q].email) : u.password = form[q].password}

Authenticate(q) ==
    \/ /\ \E u \in Authentic(q) : found' = [found EXCEPT ![q] = u]
       /\ Go(q, "login", "session")
       /\ UNCHANGED <<tables, now, form, faults>>
    \/ /\ Authentic(q) = {}
       /\ Go(q, "login", "refused")
       /\ UNCHANGED <<tables, now, form, found, faults>>
    \/ Fail(q, "login") /\ UNCHANGED tables

SessionsBy(t) == {s \in sessions : s.token = t}

DeleteSession(t) ==
    /\ sessions' = sessions \ SessionsBy(t)
    /\ UNCHANGED <<orgs, users>>

\* POST /auth/logout, with a token that was handed out.  An error is ignored.
Logout(q) ==
    /\ pc[q] \in {"registered", "loggedIn"}
    /\ SessionsBy(q) # {}
    /\ DeleteSession(q)
    /\ UNCHANGED <<now, pc, form, found, faults>>

Tick ==
    /\ now < MaxTime /\ now' = now + 1
    /\ UNCHANGED <<tables, pc, form, found, faults>>

Next ==
    \/ \E q \in Requests :
          \/ Register(q) \/ CheckSlug(q) \/ CheckEmail(q) \/ CreateOrg(q) \/ CreateUser(q)
          \/ CreateSession(q)
          \/ Login(q) \/ Authenticate(q) \/ Logout(q)
    \/ Tick

Spec == Init /\ [][Next]_vars

-----------------------------------------------------------------------------
(* GET /auth/me: whom a token stands for.  The session is joined with its    *)
(* user, expires after its lifetime, and the user's organisation is read.    *)

SessionAndUser(t) ==
    {x \in SessionsBy(t) \X users : x[1].user = x[2].id}

OrgOf(u) == {o \in orgs : o.id = u.org}

Me(t) == {x[2] : x \in {y \in SessionAndUser(t) : now <= y[1].expires /\ OrgOf(y[2]) # {}}}

\* Names and addresses belong to one registration each (auth_handlers.go:105-
\* 126), although two can pass the two look-ups at the same time, and a user
\* has the organisation that was created with it.
NamesAreTakenOnce ==
    /\ \A o, p \in orgs : o.slug = p.slug => o = p
    /\ \A u, v \in users : u.email = v.email => u = v
    /\ \A u \in users : \E o \in OrgOf(u) : o.slug = form[u.id].slug

\* A token stands for one user, whose password its request has shown
\* (auth_handlers.go:185-200), and for nobody once it has expired.
TokensIdentify ==
    \A t \in Requests : \A u \in Me(t) :
        /\ u.email = form[t].email /\ u.password = form[t].password
        /\ Me(t) = {u}
        /\ \E s \in SessionsBy(t) : s.org = u.org

\* An organisation whose registration has ended is left without an owner, and
\* its name taken for good, in two cases only (auth_handlers.go:137-151): a
\* statement failed, or another registration took the address between the
\* look-up and the insertion.
OrphansAreExplained ==
    \A o \in orgs :
        (pc[o.id] \in Ended /\ ~ \E u \in users : u.org = o.id)
        => faults > 0 \/ UsersOf(form[o.id].email) # {}

\* What concurrent and failing requests of auth_handlers.go cannot break: names
\* and addresses are taken once, a token stands for who has shown the password,
\* and an organisation without an owner has one of two causes.
AccountsAreSound == NamesAreTakenOnce /\ TokensIdentify /\ OrphansAreExplained
=============================================================================
