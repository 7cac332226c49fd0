-------------------------- MODULE SettlementProofs --------------------------
(***************************************************************************)
(* Theorems about Settlement, for any intents, events and requests.        *)
(*                                                                         *)
(* The inductive invariant ties what a request remembers to the intent it  *)
(* remembers it of: a request that will allocate is the only one, and has  *)
(* not yet done so; one that will write "applied" has seen the outcome     *)
(* that its event reports, and outcomes do not change.                     *)
(***************************************************************************)
EXTENDS Settlement, TLAPS

Allocates(c, i) == call[c].at = "allocate" /\ call[c].intent = i

AllocatesOnce ==
    /\ \A c, d \in Calls, i \in Intents : Allocates(c, i) /\ Allocates(d, i) => c = d
    /\ \A c \in Calls, i \in Intents :
         Allocates(c, i) => intent[i] = "succeeded" /\ allocated[i] = 0

DecidesTruly == \A c \in Calls :
    call[c].at = "decide" /\ call[c].status = "applied" =>
        intent[About[call[c].event]] = Result[call[c].event]

SInv == SettlementTypeOK /\ SettledOnce /\ AppliedIsTrue /\ AllocatesOnce /\ DecidesTruly

-----------------------------------------------------------------------------
\* What a request remembers is told by the step it is at.
LEMMA CallKinds ==
    ASSUME NEW t \in CallType
    PROVE  /\ t.at \in {"intent", "allocate"} => t.intent \in Intents
           /\ t.at \in {"apply", "mark", "decide"} => t.event \in Events
           /\ t.at = "decide" => t.status \in {"applied", "unmatched"}
BY DEF CallType, NoCall

LEMMA CallsBack ==
    /\ NoCall \in CallType
    /\ \A i \in Intents : [at |-> "intent", intent |-> i] \in CallType
    /\ \A i \in Intents : [at |-> "allocate", intent |-> i] \in CallType
    /\ \A e \in Events : [at |-> "apply", event |-> e] \in CallType
    /\ \A e \in Events : [at |-> "mark", event |-> e] \in CallType
    /\ \A e \in Events, s \in {"applied", "unmatched"} :
          [at |-> "decide", event |-> e, status |-> s] \in CallType
BY DEF CallType, NoCall

LEMMA OutcomesAreReal ==
    ASSUME NEW e \in Events
    PROVE  About[e] \in Intents /\ Result[e] \in Terminal
BY EventsAssumption DEF Terminal

-----------------------------------------------------------------------------
\* A request that remembers nothing that commits it to anything.
LEMMA Forget ==
    ASSUME SInv, NEW c \in Calls, NEW t \in CallType, Answer(c, t),
           t.at # "allocate",
           t.at = "decide" /\ t.status = "applied" => intent[About[t.event]] = Result[t.event],
           UNCHANGED <<intent, attempts, allocated, event>>,
           answered' \subseteq Events
    PROVE  SInv'
<1>1. call' = [call EXCEPT ![c] = t] /\ call \in [Calls -> CallType]
  BY DEF Answer, SInv, SettlementTypeOK
<1>2. SettlementTypeOK'
  BY <1>1 DEF SInv, SettlementTypeOK
<1>3. SettledOnce' /\ AppliedIsTrue'
  BY DEF SInv, SettledOnce, AppliedIsTrue
<1>4. AllocatesOnce'
  <2>1. \A d \in Calls, i \in Intents : Allocates(d, i)' => Allocates(d, i)
    BY <1>1 DEF Allocates
  <2> QED
    BY <2>1 DEF SInv, AllocatesOnce
<1>5. DecidesTruly'
  BY <1>1 DEF SInv, DecidesTruly
<1> QED
  BY <1>2, <1>3, <1>4, <1>5 DEF SInv

\* An intent is marked once, and by whom remembers the true outcome.
LEMMA Mark ==
    ASSUME SInv, NEW c \in Calls, NEW t \in CallType, Answer(c, t),
           NEW i \in Intents, NEW o \in Terminal, MarkIntentLocked(i, o),
           t.at = "allocate" => t.intent = i /\ o = "succeeded",
           t.at = "decide" => About[t.event] = i /\ Result[t.event] = o,
           UNCHANGED <<allocated, event, answered>>
    PROVE  SInv'
<1>1. call' = [call EXCEPT ![c] = t] /\ call \in [Calls -> CallType]
  BY DEF Answer, SInv, SettlementTypeOK
<1>2. /\ intent[i] = "requires_action" /\ attempts[i] = 0 /\ allocated[i] = 0
      /\ intent' = [intent EXCEPT ![i] = o]
      /\ attempts' = [attempts EXCEPT ![i] = attempts[i] + 1]
  BY DEF MarkIntentLocked, SInv, SettledOnce, SettlementTypeOK, Terminal
<1>3. SettlementTypeOK'
  BY <1>1, <1>2 DEF SInv, SettlementTypeOK
<1>4. SettledOnce'
  BY <1>2 DEF SInv, SettledOnce, SettlementTypeOK, Terminal
<1>5. \A j \in Intents : intent[j] \in Terminal => intent'[j] = intent[j]
  BY <1>2 DEF SInv, SettlementTypeOK, Terminal
<1>6. \A e \in Events : intent[About[e]] = Result[e] => intent'[About[e]] = Result[e]
  BY <1>5, OutcomesAreReal
<1>7. AppliedIsTrue'
  BY <1>6 DEF SInv, AppliedIsTrue
<1>8. AllocatesOnce'
  <2>1. \A d \in Calls : ~Allocates(d, i)
    BY <1>2 DEF SInv, AllocatesOnce
  <2>2. \A d \in Calls, j \in Intents : Allocates(d, j)' =>
          \/ Allocates(d, j) /\ j # i
          \/ d = c /\ j = i /\ o = "succeeded"
    BY <1>1, <2>1 DEF Allocates
  <2> QED
    BY <2>1, <2>2, <1>2, <1>5 DEF SInv, AllocatesOnce, Terminal, SettlementTypeOK
<1>9. DecidesTruly'
  <2> SUFFICES ASSUME NEW d \in Calls, call'[d].at = "decide", call'[d].status = "applied"
               PROVE  intent'[About[call'[d].event]] = Result[call'[d].event]
    BY DEF DecidesTruly
  <2>1. CASE d = c
    <3>1. call'[d] = t
      BY <1>1, <2>1
    <3>2. intent'[i] = o
      BY <1>2, <1>3 DEF SInv, SettlementTypeOK
    <3> QED
      BY <3>1, <3>2
  <2>2. CASE d # c
    <3>1. call'[d] = call[d] /\ call[d].event \in Events
      BY <1>1, <2>2, CallKinds
    <3> QED
      BY <3>1, <1>6 DEF SInv, DecidesTruly
  <2> QED
    BY <2>1, <2>2
<1> QED
  BY <1>3, <1>4, <1>7, <1>8, <1>9 DEF SInv

-----------------------------------------------------------------------------
LEMMA SettlementStarts == SettlementInit => SInv
<1> SUFFICES ASSUME SettlementInit PROVE SInv
  OBVIOUS
<1>1. \A c \in Calls : call[c] = NoCall /\ call[c].at = "idle"
  BY DEF SettlementInit, NoCall
<1>2. SettlementTypeOK
  BY CallsBack DEF SettlementInit, SettlementTypeOK
<1>3. SettledOnce /\ AppliedIsTrue
  BY DEF SettlementInit, SettledOnce, AppliedIsTrue, Terminal
<1>4. AllocatesOnce /\ DecidesTruly
  BY <1>1 DEF AllocatesOnce, Allocates, DecidesTruly
<1> QED
  BY <1>2, <1>3, <1>4 DEF SInv

LEMMA CreateIntentCommitKeeps ==
    ASSUME SInv, NEW c \in Calls, CreateIntentCommit(c) PROVE SInv'
<1> DEFINE i == call[c].intent
<1>1. call \in [Calls -> CallType] /\ i \in Intents
  BY CallKinds DEF CreateIntentCommit, SInv, SettlementTypeOK
<1>2. call' = [call EXCEPT ![c] = NoCall]
  BY DEF CreateIntentCommit, Answer
<1>3. /\ \A j \in Intents : intent[j] \in Terminal => intent'[j] = intent[j]
      /\ \A j \in Intents : intent'[j] \in Terminal => intent[j] \in Terminal
      /\ intent' \in [Intents -> Terminal \cup {"none", "requires_action"}]
  BY <1>1 DEF CreateIntentCommit, SInv, SettlementTypeOK, Terminal
<1>4. SettlementTypeOK'
  BY <1>1, <1>2, <1>3, CallsBack DEF CreateIntentCommit, SInv, SettlementTypeOK
<1>5. SettledOnce'
  BY <1>3 DEF CreateIntentCommit, SInv, SettledOnce, Terminal
<1>6. \A e \in Events : intent[About[e]] = Result[e] => intent'[About[e]] = Result[e]
  BY <1>3, OutcomesAreReal
<1>7. AppliedIsTrue'
  BY <1>6 DEF CreateIntentCommit, SInv, AppliedIsTrue
<1>8. AllocatesOnce'
  <2>1. \A d \in Calls, j \in Intents : Allocates(d, j)' => Allocates(d, j)
    BY <1>1, <1>2 DEF Allocates, NoCall
  <2> QED
    BY <2>1, <1>3 DEF CreateIntentCommit, SInv, AllocatesOnce, Terminal
<1>9. DecidesTruly'
  BY <1>1, <1>2, <1>6, CallKinds DEF SInv, DecidesTruly, NoCall
<1> QED
  BY <1>4, <1>5, <1>7, <1>8, <1>9 DEF SInv

LEMMA AllocatePaymentKeeps ==
    ASSUME SInv, NEW c \in Calls, AllocatePayment(c) PROVE SInv'
<1> DEFINE i == call[c].intent
<1>1. call \in [Calls -> CallType] /\ i \in Intents
  BY CallKinds DEF AllocatePayment, SInv, SettlementTypeOK
<1>2. call' = [call EXCEPT ![c] = NoCall]
  BY DEF AllocatePayment, Answer
<1>3. Allocates(c, i) /\ intent[i] = "succeeded" /\ allocated[i] = 0
  BY <1>1 DEF AllocatePayment, Allocates, SInv, AllocatesOnce
<1>4. allocated' = [allocated EXCEPT ![i] = allocated[i] + 1]
  BY DEF AllocatePayment
<1>5. SettlementTypeOK'
  BY <1>1, <1>2, <1>4, CallsBack DEF AllocatePayment, SInv, SettlementTypeOK
<1>6. SettledOnce'
  BY <1>3, <1>4 DEF AllocatePayment, SInv, SettledOnce, SettlementTypeOK, Terminal
<1>7. AppliedIsTrue'
  BY DEF AllocatePayment, SInv, AppliedIsTrue
<1>8. AllocatesOnce'
  <2>1. \A d \in Calls, j \in Intents : Allocates(d, j)' => Allocates(d, j) /\ d # c
    BY <1>1, <1>2 DEF Allocates, NoCall
  <2>2. \A d \in Calls, j \in Intents : Allocates(d, j)' => j # i
    BY <2>1, <1>1, <1>3 DEF SInv, AllocatesOnce
  <2> QED
    BY <2>1, <2>2, <1>4 DEF AllocatePayment, SInv, AllocatesOnce, SettlementTypeOK
<1>9. DecidesTruly'
  BY <1>1, <1>2 DEF AllocatePayment, SInv, DecidesTruly, NoCall
<1> QED
  BY <1>5, <1>6, <1>7, <1>8, <1>9 DEF SInv

LEMMA MarkIntentKeeps ==
    ASSUME SInv, NEW c \in Calls, NEW i \in Intents, NEW o \in Terminal, MarkIntent(c, i, o)
    PROVE  SInv'
<1> DEFINE t == IF o = "succeeded" THEN [at |-> "allocate", intent |-> i] ELSE NoCall
<1>1. t \in CallType /\ t.at # "decide" /\ (t.at = "allocate" => t.intent = i /\ o = "succeeded")
  BY CallsBack DEF NoCall
<1>2. Answer(c, t) /\ MarkIntentLocked(i, o) /\ UNCHANGED <<allocated, event, answered>>
  BY DEF MarkIntent
<1> HIDE DEF t
<1> QED
  BY <1>1, <1>2, Mark

LEMMA DeliverKeeps ==
    ASSUME SInv, NEW c \in Calls, NEW e \in Events, Deliver(c, e) PROVE SInv'
<1>1. call' \in [Calls -> CallType] /\ answered' \subseteq Events
  BY CallsBack DEF Deliver, Answer, SInv, SettlementTypeOK
<1>2. SettlementTypeOK'
  BY <1>1 DEF Deliver, InsertWebhookEvent, SInv, SettlementTypeOK
<1>3. SettledOnce'
  BY DEF Deliver, SInv, SettledOnce
<1>4. AppliedIsTrue'
  BY DEF Deliver, InsertWebhookEvent, SInv, AppliedIsTrue, SettlementTypeOK
<1>5. \A d \in Calls : call'[d] = call[d] \/ call'[d].at = "apply"
  BY DEF Deliver, Answer, SInv, SettlementTypeOK
<1>6. AllocatesOnce'
  <2>1. \A d \in Calls, i \in Intents : Allocates(d, i)' => Allocates(d, i)
    BY <1>5 DEF Allocates
  <2> QED
    BY <2>1 DEF Deliver, SInv, AllocatesOnce
<1>7. DecidesTruly'
  BY <1>5 DEF Deliver, SInv, DecidesTruly
<1> QED
  BY <1>2, <1>3, <1>4, <1>6, <1>7 DEF SInv

LEMMA ApplyWebhookKeeps ==
    ASSUME SInv, NEW c \in Calls, ApplyWebhook(c) PROVE SInv'
<1> DEFINE e == call[c].event
<1>1. e \in Events /\ About[e] \in Intents /\ Result[e] \in Terminal
  BY CallKinds, OutcomesAreReal DEF ApplyWebhook, SInv, SettlementTypeOK
<1>2. UNCHANGED <<intent, attempts, allocated, event, answered>> /\ answered' \subseteq Events
  BY DEF ApplyWebhook, SInv, SettlementTypeOK
<1>3. \/ intent[About[e]] = Result[e] /\ Decide(c, "applied")
      \/ Decide(c, "unmatched")
      \/ Answer(c, [at |-> "mark", event |-> e])
  BY DEF ApplyWebhook
<1>4. CASE intent[About[e]] = Result[e] /\ Decide(c, "applied")
  BY <1>1, <1>2, <1>4, CallsBack, Forget DEF Decide
<1>5. CASE Decide(c, "unmatched")
  BY <1>1, <1>2, <1>5, CallsBack, Forget DEF Decide
<1>6. CASE Answer(c, [at |-> "mark", event |-> e])
  BY <1>1, <1>2, <1>6, CallsBack, Forget
<1> QED
  BY <1>3, <1>4, <1>5, <1>6

LEMMA WebhookMarksKeeps ==
    ASSUME SInv, NEW c \in Calls, WebhookMarks(c) PROVE SInv'
<1> DEFINE e == call[c].event
<1>1. e \in Events /\ About[e] \in Intents /\ Result[e] \in Terminal
  BY CallKinds, OutcomesAreReal DEF WebhookMarks, SInv, SettlementTypeOK
<1>2. /\ Answer(c, [at |-> "decide", event |-> e, status |-> "applied"])
      /\ MarkIntentLocked(About[e], Result[e])
      /\ UNCHANGED <<allocated, event, answered>>
  BY DEF WebhookMarks, Decide
<1> QED
  BY <1>1, <1>2, CallsBack, Mark

LEMMA WebhookConvergesKeeps ==
    ASSUME SInv, NEW c \in Calls, WebhookConverges(c) PROVE SInv'
<1> DEFINE e == call[c].event
<1>1. e \in Events
  BY CallKinds DEF WebhookConverges, SInv, SettlementTypeOK
<1>2. UNCHANGED <<intent, attempts, allocated, event, answered>> /\ answered' \subseteq Events
  BY DEF WebhookConverges, SInv, SettlementTypeOK
<1>3. CASE intent[About[e]] = Result[e] /\ Decide(c, "applied")
  BY <1>1, <1>2, <1>3, CallsBack, Forget DEF Decide
<1>4. CASE Decide(c, "unmatched")
  BY <1>1, <1>2, <1>4, CallsBack, Forget DEF Decide
<1> QED
  BY <1>3, <1>4 DEF WebhookConverges

LEMMA WebhookAnswersKeeps ==
    ASSUME SInv, NEW c \in Calls, WebhookAnswers(c) PROVE SInv'
<1> DEFINE e == call[c].event
<1>1. /\ call \in [Calls -> CallType]
      /\ e \in Events /\ call[c].status \in {"applied", "unmatched"}
  BY CallKinds DEF WebhookAnswers, SInv, SettlementTypeOK
<1>2. call' = [call EXCEPT ![c] = NoCall]
  BY DEF WebhookAnswers, Answer
<1>3. \A d \in Events :
        event'[d] = event[d] \/ (d = e /\ event'[d] = call[c].status)
  BY DEF WebhookAnswers, SInv, SettlementTypeOK
<1>4. event' \in [Events -> {"none", "received", "applied", "unmatched"}]
  BY <1>1 DEF WebhookAnswers, SInv, SettlementTypeOK
<1>5. SettlementTypeOK'
  BY <1>1, <1>2, <1>4, CallsBack DEF WebhookAnswers, SInv, SettlementTypeOK
<1>6. SettledOnce'
  BY DEF WebhookAnswers, SInv, SettledOnce
<1>7. AppliedIsTrue'
  BY <1>3 DEF WebhookAnswers, SInv, AppliedIsTrue, DecidesTruly
<1>8. AllocatesOnce'
  <2>1. \A d \in Calls, j \in Intents : Allocates(d, j)' => Allocates(d, j)
    BY <1>1, <1>2 DEF Allocates, NoCall
  <2> QED
    BY <2>1 DEF WebhookAnswers, SInv, AllocatesOnce
<1>9. DecidesTruly'
  BY <1>1, <1>2 DEF WebhookAnswers, SInv, DecidesTruly, NoCall
<1> QED
  BY <1>5, <1>6, <1>7, <1>8, <1>9 DEF SInv

-----------------------------------------------------------------------------
LEMMA SettlementSteps ==
    SInv /\ [SettlementNext]_settlementVars => SInv'
<1> SUFFICES ASSUME SInv, [SettlementNext]_settlementVars PROVE SInv'
  OBVIOUS
<1>1. CASE UNCHANGED settlementVars
  BY <1>1 DEF settlementVars, SInv, SettlementTypeOK, SettledOnce, AppliedIsTrue,
              AllocatesOnce, Allocates, DecidesTruly
<1>2. ASSUME NEW c \in Calls, NEW i \in Intents, CreateIntent(c, i) PROVE SInv'
  <2>1. answered' \subseteq Events
    BY <1>2 DEF CreateIntent, SInv, SettlementTypeOK
  <2> QED
    BY <1>2, <2>1, CallsBack, Forget DEF CreateIntent
<1>3. ASSUME NEW c \in Calls, Fail(c) PROVE SInv'
  <2>1. answered' \subseteq Events
    BY <1>3 DEF Fail, SInv, SettlementTypeOK
  <2> QED
    BY <1>3, <2>1, CallsBack, Forget DEF Fail, NoCall
<1> QED
  BY <1>1, <1>2, <1>3, CreateIntentCommitKeeps, AllocatePaymentKeeps, MarkIntentKeeps,
     DeliverKeeps, ApplyWebhookKeeps, WebhookMarksKeeps, WebhookConvergesKeeps,
     WebhookAnswersKeeps DEF SettlementNext, WebhookStep

LEMMA SettlementInvariant == SettlementSpec => []SInv
BY SettlementStarts, SettlementSteps, PTL DEF SettlementSpec

\* The type invariant of Settlement.
THEOREM SettlementTypeCorrect == SettlementSpec => []SettlementTypeOK
<1>1. SInv => SettlementTypeOK
  BY DEF SInv
<1> QED
  BY <1>1, SettlementInvariant, PTL

\* However often an event is delivered and whoever else settles the intent,
\* markIntentLocked lets one of them give it its outcome, and a success is
\* allocated to the invoices at most once.
THEOREM IntentsSettleOnce == SettlementSpec => []SettledOnce
<1>1. SInv => SettledOnce
  BY DEF SInv
<1> QED
  BY <1>1, SettlementInvariant, PTL

\* An event that applyWebhook records as applied reports what came true.
THEOREM AppliedEventsAreTrue == SettlementSpec => []AppliedIsTrue
<1>1. SInv => AppliedIsTrue
  BY DEF SInv
<1> QED
  BY <1>1, SettlementInvariant, PTL
=============================================================================
