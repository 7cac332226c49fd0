----------------------------- MODULE Settlement -----------------------------
(***************************************************************************)
(* Payment intents, settled by staff or by the webhooks of a payment       *)
(* provider.                                                               *)
(*                                                                         *)
(* A provider delivers an event any number of times, at once and out of    *)
(* order, and stops redelivering it only when it has had an answer.  A     *)
(* request may fail or its process die between any two of its steps: the   *)
(* intent, the invoices and the event are each written in a transaction of *)
(* its own.  What an allocation does to the invoices is in Payments.       *)
(***************************************************************************)
EXTENDS Naturals

CONSTANTS
    Intents,    \* idempotency keys of the buyer: one intent each
    Events,     \* events of a provider
    Result,     \* what each event reports: an intent succeeded or failed
    About,      \* the intent an event is about
    Calls       \* concurrent requests to the payments module

ASSUME EventsAssumption ==
    /\ Result \in [Events -> {"succeeded", "failed"}]
    /\ About \in [Events -> Intents]

VARIABLES
    intent,     \* payments.payment_intent: status
    attempts,   \* payments.payment_attempt: rows of each intent
    allocated,  \* history: how often an intent's amount was allocated
    event,      \* payments.webhook_event: status
    answered,   \* events the provider has had an answer for
    call        \* what each request has read

settlementVars == <<intent, attempts, allocated, event, answered, call>>

-----------------------------------------------------------------------------
Terminal == {"succeeded", "failed"}
NoCall == [at |-> "idle"]

Answer(c, t) == call' = [call EXCEPT ![c] = t]

SettlementInit ==
    /\ intent = [i \in Intents |-> "none"]
    /\ attempts = [i \in Intents |-> 0]
    /\ allocated = [i \in Intents |-> 0]
    /\ event = [e \in Events |-> "none"]
    /\ answered = {}
    /\ call = [c \in Calls |-> NoCall]

\* A request fails, or its process dies.
Fail(c) ==
    /\ call[c] # NoCall
    /\ Answer(c, NoCall)
    /\ UNCHANGED <<intent, attempts, allocated, event, answered>>

-----------------------------------------------------------------------------
(* Intents *)

CreateIntent(c, i) ==
    /\ call[c] = NoCall
    /\ Answer(c, [at |-> "intent", intent |-> i])
    /\ UNCHANGED <<intent, attempts, allocated, event, answered>>

\* ON CONFLICT DO NOTHING: a known key is answered with the intent it has.
CreateIntentCommit(c) ==
    /\ call[c].at = "intent"
    /\ intent' = [intent EXCEPT ![call[c].intent] = IF @ = "none" THEN "requires_action" ELSE @]
    /\ Answer(c, NoCall)
    /\ UNCHANGED <<attempts, allocated, event, answered>>

\* Test variant: an intent that has an outcome is marked again.
MarkAny(i, outcome) ==
    /\ intent[i] # "none"
    /\ intent' = [intent EXCEPT ![i] = outcome]
    /\ attempts' = [attempts EXCEPT ![i] = @ + 1]

\* markIntentLocked: under the lock of the intent's row.
MarkIntentLocked(i, outcome) ==
    /\ intent[i] = "requires_action"
    /\ intent' = [intent EXCEPT ![i] = outcome]
    /\ attempts' = [attempts EXCEPT ![i] = @ + 1]

\* Staff settle an intent; a success is then allocated to the invoices.
MarkIntent(c, i, outcome) ==
    /\ call[c] = NoCall
    /\ MarkIntentLocked(i, outcome)
    /\ Answer(c, IF outcome = "succeeded" THEN [at |-> "allocate", intent |-> i] ELSE NoCall)
    /\ UNCHANGED <<allocated, event, answered>>

\* Test variant: an allocation whose answer is lost is tried again.
AllocateRetried(c) ==
    /\ call[c].at = "allocate"
    /\ allocated' = [allocated EXCEPT ![call[c].intent] = @ + 1]
    /\ UNCHANGED <<intent, attempts, event, answered, call>>

AllocatePayment(c) ==
    /\ call[c].at = "allocate"
    /\ allocated' = [allocated EXCEPT ![call[c].intent] = @ + 1]
    /\ Answer(c, NoCall)
    /\ UNCHANGED <<intent, attempts, event, answered>>

-----------------------------------------------------------------------------
(* Webhooks: HandleWebhook *)

InsertWebhookEvent(e) ==
    event' = [event EXCEPT ![e] = IF @ = "none" THEN "received" ELSE @]

\* Test variant: a delivery of an event that is known is answered at once.
DeliverOnce(c, e) ==
    /\ call[c] = NoCall
    /\ InsertWebhookEvent(e)
    /\ IF event[e] = "none"
       THEN Answer(c, [at |-> "apply", event |-> e]) /\ UNCHANGED answered
       ELSE answered' = answered \cup {e} /\ UNCHANGED call
    /\ UNCHANGED <<intent, attempts, allocated>>

\* An event that has been decided is answered with what was decided; one that
\* is only received is applied, by every delivery that finds it so.
Deliver(c, e) ==
    /\ call[c] = NoCall
    /\ InsertWebhookEvent(e)
    /\ IF event[e] \in {"none", "received"}
       THEN Answer(c, [at |-> "apply", event |-> e]) /\ UNCHANGED answered
       ELSE answered' = answered \cup {e} /\ UNCHANGED call
    /\ UNCHANGED <<intent, attempts, allocated>>

Decide(c, status) ==
    Answer(c, [at |-> "decide", event |-> call[c].event, status |-> status])

\* applyWebhook reads the intent without a lock.
ApplyWebhook(c) ==
    LET e == call[c].event i == About[e] IN
    /\ call[c].at = "apply"
    /\ CASE intent[i] = Result[e] -> Decide(c, "applied")
         [] intent[i] \in (Terminal \cup {"none"}) \ {Result[e]} -> Decide(c, "unmatched")
         [] OTHER -> Answer(c, [at |-> "mark", event |-> e])
    /\ UNCHANGED <<intent, attempts, allocated, event, answered>>

WebhookMarks(c) ==
    LET e == call[c].event IN
    /\ call[c].at = "mark"
    /\ MarkIntentLocked(About[e], Result[e])
    /\ Decide(c, "applied")
    /\ UNCHANGED <<allocated, event, answered>>

\* Test variant: whoever marked the intent first, the event counts as applied.
ConvergesAlways(c) ==
    /\ call[c].at = "mark"
    /\ intent[About[call[c].event]] \in Terminal
    /\ Decide(c, "applied")
    /\ UNCHANGED <<intent, attempts, allocated, event, answered>>

\* Test variant: the reply's status is written to the event too.
ConvergesInConflict(c) ==
    /\ call[c].at = "mark"
    /\ intent[About[call[c].event]] \in Terminal
    /\ Decide(c, "terminal_conflict")
    /\ UNCHANGED <<intent, attempts, allocated, event, answered>>

\* Another request marked the intent first: it is read again, which may fail.
WebhookConverges(c) ==
    LET e == call[c].event IN
    /\ call[c].at = "mark"
    /\ intent[About[e]] \in Terminal
    /\ \/ intent[About[e]] = Result[e] /\ Decide(c, "applied")
       \/ Decide(c, "unmatched")
    /\ UNCHANGED <<intent, attempts, allocated, event, answered>>

\* The event's status is written, or is not: the error is dropped, and the
\* provider has its answer.
WebhookAnswers(c) ==
    LET e == call[c].event IN
    /\ call[c].at = "decide"
    /\ event' \in {event, [event EXCEPT ![e] = call[c].status]}
    /\ answered' = answered \cup {e}
    /\ Answer(c, NoCall)
    /\ UNCHANGED <<intent, attempts, allocated>>

-----------------------------------------------------------------------------
WebhookStep(c) ==
    ApplyWebhook(c) \/ WebhookMarks(c) \/ WebhookConverges(c) \/ WebhookAnswers(c)

SettlementNext == \E c \in Calls :
    \/ CreateIntentCommit(c) \/ AllocatePayment(c) \/ WebhookStep(c) \/ Fail(c)
    \/ \E i \in Intents : CreateIntent(c, i) \/ \E o \in Terminal : MarkIntent(c, i, o)
    \/ \E e \in Events : Deliver(c, e)

\* The provider redelivers an event until it is answered, every request ends,
\* by a timeout if nothing else, and not all deliveries of an event fail: of
\* infinitely many one gets through each step.
Redelivered(e) ==
    SF_settlementVars(\E c \in Calls : e \notin answered /\ event[e] # "none" /\ Deliver(c, e))
SettlementFairness ==
    /\ \A e \in Events : Redelivered(e)
    /\ \A c \in Calls : /\ SF_settlementVars(ApplyWebhook(c))
                        /\ SF_settlementVars(WebhookMarks(c))
                        /\ WF_settlementVars(Fail(c))

SettlementSpec == SettlementInit /\ [][SettlementNext]_settlementVars /\ SettlementFairness

-----------------------------------------------------------------------------
(* Properties *)

CallType ==
    {NoCall} \cup [at : {"intent", "allocate"}, intent : Intents]
    \cup [at : {"apply", "mark"}, event : Events]
    \cup [at : {"decide"}, event : Events, status : {"applied", "unmatched"}]

SettlementTypeOK ==
    /\ intent \in [Intents -> Terminal \cup {"none", "requires_action"}]
    /\ attempts \in [Intents -> Nat]
    /\ allocated \in [Intents -> Nat]
    /\ event \in [Events -> {"none", "received", "applied", "unmatched"}]
    /\ answered \subseteq Events
    /\ call \in [Calls -> CallType]

\* A duplicated webhook, or one that races a manual settlement, settles an
\* intent no second time: one attempt gives it its outcome, and a success is
\* allocated to the invoices at most once, a failure never (markIntentLocked).
SettledOnce == \A i \in Intents :
    /\ attempts[i] = IF intent[i] \in Terminal THEN 1 ELSE 0
    /\ allocated[i] <= IF intent[i] = "succeeded" THEN 1 ELSE 0

\* An event counts as applied only if the intent has the outcome it reports:
\* of two events that contradict each other one is unmatched (applyWebhook).
AppliedIsTrue == \A e \in Events : event[e] = "applied" => intent[About[e]] = Result[e]

\* An event first delivered once its intent exists settles it in the end,
\* though requests crash between recording the event and applying it: an event
\* that is only received is applied by the next delivery (replayWebhook).
WebhooksSettle == \A e \in Events :
    [](event[e] = "none" /\ intent[About[e]] # "none" =>
         [](event[e] = "received" => <>(intent[About[e]] \in Terminal)))
=============================================================================
