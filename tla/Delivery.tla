------------------------------ MODULE Delivery -------------------------------
(***************************************************************************)
(* The emitter together with the goroutines its process function leaves    *)
(* behind: the webhook of an alert (sendWebhook of cmd/gateway/main.go)    *)
(* and its e-mail (sendEmailAlert).  They have no context to cancel, and   *)
(* neither Stop nor main waits for them: the end of the process ends them. *)
(*                                                                         *)
(* A post may be lost, and so may its answer; a post that arrives when the *)
(* sender has given it up counts as one whose answer is lost.  An event    *)
(* raises at most one alert here; which alerts it raises, and how often a  *)
(* day, is module Pipeline's.                                              *)
(***************************************************************************)
EXTENDS Emitter, FiniteSets

CONSTANTS
    Alerting,    \* the events whose processing may raise an alert
    MaxAttempts  \* posts sendWebhook makes at most (4 in the code)

ASSUME DeliveryAssumption ==
    /\ Alerting \subseteq Events
    /\ MaxAttempts \in Nat \ {0}

VARIABLES
    hook,   \* per alert, the state of its sendWebhook goroutine
    tries,  \* posts it has made
    got,    \* those the receiver has taken in
    mail,   \* the state of its sendEmailAlert goroutine
    failed  \* history: the posts that have failed in the sender's eyes

delivery == <<hook, tries, got, mail, failed>>
dvars    == <<vars, delivery>>

HookState == {"none", "due", "posted", "delivered", "refused", "exhausted", "unsent"}
Settled   == {"delivered", "refused", "exhausted", "unsent"}
Attempts  == 1..MaxAttempts

DeliveryTypeOK ==
    /\ TypeOK
    /\ hook \in [Alerting -> HookState]
    /\ tries \in [Alerting -> 0..MaxAttempts]
    /\ got \in [Alerting -> SUBSET Attempts]
    /\ mail \in [Alerting -> {"none", "sending", "over"}]
    /\ failed \in [Alerting -> SUBSET Attempts]

DInit ==
    /\ Init
    /\ hook = [e \in Alerting |-> "none"]
    /\ tries = [e \in Alerting |-> 0]
    /\ got = [e \in Alerting |-> {}]
    /\ mail = [e \in Alerting |-> "none"]
    /\ failed = [e \in Alerting |-> {}]

-----------------------------------------------------------------------------
\* The process function comes upon an alert and spawns the webhook.  The e-mail
\* is spawned if there is an address and the SMTP settings can be read, for
\* which the worker's own context must not be cancelled.
Notify(w) ==
    /\ Running
    /\ pc[w] \in {"process", "drainProcess"}
    /\ cur[w] \in Alerting
    /\ hook[cur[w]] = "none"
    /\ hook' = [hook EXCEPT ![cur[w]] = "due"]
    /\ \/ UNCHANGED mail
       \/ /\ pc[w] = "process" => ~ctxDone
          /\ mail' = [mail EXCEPT ![cur[w]] = "sending"]
    /\ UNCHANGED <<tries, got, failed, vars>>

\* The next attempt: the first at once, the others after their delay.  The post
\* reaches a receiver that acts on it, or it does not.
Post(e) ==
    /\ Running
    /\ hook[e] = "due"
    /\ hook' = [hook EXCEPT ![e] = "posted"]
    /\ tries' = [tries EXCEPT ![e] = @ + 1]
    /\ got' \in {got, [got EXCEPT ![e] = @ \cup {tries[e] + 1}]}
    /\ UNCHANGED <<mail, failed, vars>>

\* The payload cannot be marshalled, or no request can be built for the URL: the
\* goroutine ends before its first post.
GiveUpUnsent(e) ==
    /\ Running
    /\ hook[e] = "due" /\ tries[e] = 0
    /\ hook' = [hook EXCEPT ![e] = "unsent"]
    /\ UNCHANGED <<tries, got, mail, failed, vars>>

\* What the sender makes of a post.
Conclude(e, outcome) ==
    /\ Running
    /\ hook[e] = "posted"
    /\ hook' = [hook EXCEPT ![e] = outcome]
    /\ UNCHANGED <<tries, got, mail, vars>>

\* Mutant: the loop goes on after a 2xx.
AcknowledgeAndGoOn(e) ==
    /\ tries[e] \in got[e]
    /\ Conclude(e, IF tries[e] < MaxAttempts THEN "due" ELSE "delivered")
    /\ UNCHANGED failed

\* 2xx from a receiver that has acted: the webhook is delivered.
Acknowledge(e) ==
    /\ tries[e] \in got[e]
    /\ Conclude(e, "delivered")
    /\ UNCHANGED failed

\* 4xx: not retried.
Refuse(e) ==
    /\ tries[e] \notin got[e]
    /\ Conclude(e, "refused")
    /\ UNCHANGED failed

\* Mutant: the client has no timeout, so that no error comes of a post that is
\* lost.
FailIfAnswered(e) ==
    /\ tries[e] \in got[e]
    /\ Conclude(e, IF tries[e] < MaxAttempts THEN "due" ELSE "exhausted")
    /\ failed' = [failed EXCEPT ![e] = @ \cup {tries[e]}]

\* Any other answer, or none: the connection broke, or the client's own timeout
\* has passed.  There is another attempt unless this was the last.
Fail(e) ==
    /\ Conclude(e, IF tries[e] < MaxAttempts THEN "due" ELSE "exhausted")
    /\ failed' = [failed EXCEPT ![e] = @ \cup {tries[e]}]

\* smtp.SendMail: one try, and no deadline; the outcome is only logged.
SendMail(e) ==
    /\ Running
    /\ mail[e] = "sending"
    /\ mail' = [mail EXCEPT ![e] = "over"]
    /\ UNCHANGED <<hook, tries, got, failed, vars>>

Courier(e) ==
    Post(e) \/ GiveUpUnsent(e) \/ Acknowledge(e) \/ Refuse(e) \/ Fail(e) \/ SendMail(e)

DNext ==
    \/ Next /\ UNCHANGED delivery
    \/ \E w \in Workers : Notify(w)
    \/ \E e \in Alerting : Courier(e)

DSpec == DInit /\ [][DNext]_dvars

\* The delays pass, and the client's timeout.  Nothing makes the receiver or the
\* mail server answer.
DFairness ==
    /\ Fairness
    /\ \A e \in Alerting :
          WF_dvars(Post(e) \/ GiveUpUnsent(e)) /\ WF_dvars(Fail(e))
DFairSpec == DSpec /\ DFairness

-----------------------------------------------------------------------------
(* Properties.                                                             *)

\* What sendWebhook concludes is what happened, though posts and answers are
\* lost or late: it says delivered only of an alert the receiver has, it gives
\* up only after MaxAttempts posts that failed one by one, and the receiver gets
\* an alert again only for posts that failed in the sender's eyes - a 2xx or 4xx
\* that is heard is never followed by another post.
OutcomeIsHonest ==
    \A e \in Alerting :
        /\ hook[e] = "delivered" => tries[e] \in got[e]
        /\ hook[e] = "exhausted" => failed[e] = Attempts
        /\ Cardinality(got[e]) <= Cardinality(failed[e]) + 1

\* A webhook that was spawned comes to its end, whatever the receiver and the
\* network do - unless the process does first, which waits for no webhook.
WebhooksSettle ==
    \A e \in Alerting : hook[e] # "none" ~> (hook[e] \in Settled \/ ~Running)
=============================================================================
