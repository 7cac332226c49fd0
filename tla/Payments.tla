------------------------------ MODULE Payments ------------------------------
(***************************************************************************)
(* The payments module on top of the invoices it pays: intents for the     *)
(* order of Billing are settled as in Settlement, a success is allocated   *)
(* to the invoices, and staff refund what was settled.                     *)
(*                                                                         *)
(* A refund is approved, restored on the invoices and marked applied in    *)
(* three transactions; a request may fail between any two of them.         *)
(***************************************************************************)
EXTENDS Billing, Settlement

CONSTANTS
    Refunds,    \* bound: refunds ever requested
    Clerks,     \* staff who request, approve and reject refunds
    Threshold,  \* RefundApprovalThreshold
    Desks       \* concurrent requests about refunds

ASSUME ThresholdAssumption == Threshold \in Nat
ASSUME IntentsAssumption == IsFiniteSet(Intents)

VARIABLES
    refund,     \* payments.payment_refund
    reversals,  \* history: how often each refund restored balances
    seconded,   \* history: refunds approved by somebody else than the requester
    desk        \* what each request about a refund has read

refunds == <<refund, reversals, seconded, desk>>
paymentsVars == <<vars, settlementVars, refunds>>

-----------------------------------------------------------------------------
NoRefund == [status |-> "none", intent |-> "none", amount |-> 0, by |-> "none"]

\* RefundedTotal: refunds that wait for an approval are not counted.
RefundedTotal(i) ==
    Total([f \in Refunds |-> IF refund[f].intent = i /\ refund[f].status \in {"approved", "applied"}
                             THEN refund[f].amount ELSE 0], Refunds)

Reply(d, t) == desk' = [desk EXCEPT ![d] = t]

PaymentsInit ==
    /\ Init
    /\ SettlementInit
    /\ refund = [f \in Refunds |-> NoRefund]
    /\ reversals = [f \in Refunds |-> 0]
    /\ seconded = {}
    /\ desk = [d \in Desks |-> Idle]

GiveUp(d) ==
    /\ desk[d] # Idle
    /\ Reply(d, Idle)
    /\ UNCHANGED <<refund, reversals, seconded>>

-----------------------------------------------------------------------------
\* The amount of an intent is the order's total.
RequestRefund(d, i, by, amount) ==
    /\ desk[d] = Idle
    /\ intent[i] = "succeeded"
    /\ amount <= Price - RefundedTotal(i)
    /\ Reply(d, [at |-> "refund", intent |-> i, by |-> by, amount |-> amount])
    /\ UNCHANGED <<refund, reversals, seconded>>

RequestRefundCommit(d) == \E f \in Refunds :
    LET t == desk[d] IN
    /\ t.at = "refund"
    /\ refund[f] = NoRefund
    /\ refund' = [refund EXCEPT ![f] =
           [status |-> IF t.amount >= Threshold THEN "pending" ELSE "approved",
            intent |-> t.intent, amount |-> t.amount, by |-> t.by]]
    /\ Reply(d, Idle)
    /\ UNCHANGED <<reversals, seconded>>

\* Test variant: a second person is asked for only above the threshold.
MayApproveAbove(f, approver) ==
    \/ refund[f].status = "approved"
    \/ /\ refund[f].status = "pending"
       /\ refund[f].amount > Threshold => refund[f].by # approver

\* A large refund that waits needs a second person; an approved one that has
\* not been applied may be tried again by anybody.
MayApprove(f, approver) ==
    \/ refund[f].status = "approved"
    \/ /\ refund[f].status = "pending"
       /\ refund[f].amount >= Threshold => refund[f].by # approver

ApproveRefund(d, f, approver) ==
    /\ desk[d] = Idle
    /\ MayApprove(f, approver)
    /\ refund' = [refund EXCEPT ![f].status = "approved"]
    /\ seconded' = IF approver # refund[f].by THEN seconded \cup {f} ELSE seconded
    /\ Reply(d, [at |-> "reverse", refund |-> f])
    /\ UNCHANGED reversals

ReverseRefund(d) ==
    LET f == desk[d].refund IN
    /\ desk[d].at = "reverse"
    /\ ReversePayment(refund[f].amount)
    /\ reversals' = [reversals EXCEPT ![f] = @ + 1]
    /\ Reply(d, [desk[d] EXCEPT !.at = "applied"])
    /\ UNCHANGED <<request, settlementVars, refund, seconded>>

RefundApplied(d) ==
    /\ desk[d].at = "applied"
    /\ refund' = [refund EXCEPT ![desk[d].refund].status = "applied"]
    /\ Reply(d, Idle)
    /\ UNCHANGED <<reversals, seconded>>

\* Test variant: a refund that is approved but not applied may be rejected.
RejectUnapplied(f) ==
    /\ refund[f].status \in {"pending", "approved"}
    /\ refund' = [refund EXCEPT ![f].status = "rejected"]
    /\ UNCHANGED <<reversals, seconded, desk>>

RejectRefund(f) ==
    /\ refund[f].status = "pending"
    /\ refund' = [refund EXCEPT ![f].status = "rejected"]
    /\ UNCHANGED <<reversals, seconded, desk>>

-----------------------------------------------------------------------------
RefundsMove ==
    /\ \/ \E d \in Desks :
            \/ RequestRefundCommit(d) \/ RefundApplied(d) \/ GiveUp(d)
            \/ \E i \in Intents, by \in Clerks, a \in 1..Price : RequestRefund(d, i, by, a)
            \/ \E f \in Refunds, by \in Clerks : ApproveRefund(d, f, by)
       \/ \E f \in Refunds : RejectRefund(f)
    /\ UNCHANGED <<vars, settlementVars>>

\* A cancelled order takes no new intent.
IntentsMove ==
    /\ \E c \in Calls :
         \/ CreateIntentCommit(c) \/ WebhookStep(c) \/ Fail(c)
         \/ order # "cancelled" /\ \E i \in Intents : CreateIntent(c, i)
         \/ \E i \in Intents, o \in Terminal : MarkIntent(c, i, o)
         \/ \E e \in Events : Deliver(c, e)
    /\ UNCHANGED <<vars, refunds>>

InvoicesMove ==
    /\ \/ OrderMoves
       \/ \E s \in Requests : Step(s)
       \/ \E r \in Returns : DecideReturn(r)
    /\ UNCHANGED <<settlementVars, refunds>>

\* RecordPayment in a transaction of its own, after the intent succeeded.
Allocate(c) ==
    /\ AllocatePayment(c)
    /\ RecordPayment(Price)
    /\ UNCHANGED <<request, refunds>>

PaymentsNext ==
    \/ InvoicesMove \/ IntentsMove \/ RefundsMove
    \/ \E c \in Calls : Allocate(c)
    \/ \E d \in Desks : ReverseRefund(d)

PaymentsSpec == PaymentsInit /\ [][PaymentsNext]_paymentsVars

-----------------------------------------------------------------------------
(* Properties *)

RefundType == [status : {"none", "pending", "approved", "applied", "rejected"},
               intent : Intents \cup {"none"}, amount : Nat, by : Clerks \cup {"none"}]
DeskType ==
    {Idle} \cup [at : {"refund"}, intent : Intents, by : Clerks, amount : Nat]
    \cup [at : {"reverse", "applied"}, refund : Refunds]

\* The type invariant of the composition.
PaymentsTypeOK ==
    /\ TypeOK /\ SettlementTypeOK
    /\ refund \in [Refunds -> RefundType]
    /\ reversals \in [Refunds -> Nat]
    /\ seconded \subseteq Refunds
    /\ desk \in [Desks -> DeskType]

\* What all payments have taken off an invoice is history and kept in no column.
Money == INSTANCE Counting WITH MaxInt <- Price * Cardinality(Intents)

\* No intent pays twice, none in part and none that has not succeeded: whatever
\* fails, is retried, refunded or settled by a webhook meanwhile, the invoices
\* have received the order's total once for each intent that was allocated, and
\* each of these has succeeded (RecordPayment, MarkIntent).
PaidByIntents ==
    LET paid == {i \in Intents : allocated[i] > 0} IN
    /\ \A i \in paid : intent[i] = "succeeded"
    /\ Money!Total(received, Invoices) = Price * Cardinality(paid)

\* Balances are only restored for a refund that is approved and can no longer
\* be rejected, and for a large one only after a second person approved it.
ReversalsAreApproved == \A f \in Refunds :
    reversals[f] > 0 =>
        /\ refund[f].status \in {"approved", "applied"}
        /\ refund[f].amount >= Threshold => f \in seconded

\* What ApproveRefund promises: it applies a refund, or retries one that was
\* not applied.
ReversedOnce == \A f \in Refunds : reversals[f] <= 1
=============================================================================
