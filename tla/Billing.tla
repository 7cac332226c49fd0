------------------------------- MODULE Billing -------------------------------
(***************************************************************************)
(* The money side of one order: its invoices, the payments and reversals   *)
(* that the payments module books on them, returns, and the credit notes   *)
(* that returns and staff produce.                                         *)
(*                                                                         *)
(* Invoice statuses are written from an unlocked read; balances only ever  *)
(* move relative to what they are, under the locks of the order's          *)
(* invoices, in one transaction: one step.                                 *)
(***************************************************************************)
EXTENDS Counting

CONSTANTS
    Price,      \* the order's total: every invoice is for all of it
    LastInvoice,\* bound: invoices ever drafted, numbered in order of creation
    Credits,    \* bound: calls that created credit notes
    Returns,    \* bound: return requests
    Lines,      \* the order's lines, numbered by their ids
    Quantity, UnitPrice,    \* of each line
    Requests,   \* concurrent requests
    LastPayment \* bound: all that is ever paid

ASSUME PriceAssumption == Price \in 1..MaxInt /\ LastInvoice \in Nat
ASSUME LinesAssumption ==
    /\ Lines \subseteq Nat /\ IsFiniteSet(Lines)
    /\ Quantity \in [Lines -> Nat] /\ UnitPrice \in [Lines -> Nat]
ASSUME CreditsAssumption == IsFiniteSet(Credits)
ASSUME ReturnsAssumption == "staff" \notin Returns /\ "nothing" \notin Returns

VARIABLES
    order,      \* status of the order, as far as money is concerned
    invoice,    \* commerce.invoice: status and balance
    received,   \* history: what payments have ever taken off each balance
    credit,     \* commerce.credit_note, one row per call and invoice
    return,     \* commerce.return_request with its lines
    request     \* what each request has read

vars == <<order, invoice, received, credit, return, request>>

-----------------------------------------------------------------------------
Invoices == 1..LastInvoice

Idle == [at |-> "idle"]
NoInvoice == [status |-> "none", balance |-> 0]
Draft == [status |-> "draft", balance |-> Price]

\* What a credit is for: a line of a return, or what staff decided.
Staff == <<"staff", 0>>
Nothing == <<"nothing", 0>>

NoNotes == [i \in Invoices |-> 0]
NoCredit == [of |-> Nothing, note |-> NoNotes, void |-> {}]
NoReturn == [status |-> "none", lines |-> [l \in Lines |-> 0]]

Owed == [i \in Invoices |-> IF invoice[i].status = "issued" THEN invoice[i].balance ELSE 0]
Room == [i \in Invoices |-> IF invoice[i].status = "issued" THEN Price - invoice[i].balance
                                                            ELSE 0]

\* Test variant: the newest invoice first, as they are listed.
TakenNewestFirst(amount, i) ==
    AtMost(Owed[i], AtLeastZero(amount - Total(Owed, (i + 1)..LastInvoice)))

\* What an amount takes off each balance owed, the oldest invoice first ...
Taken(amount, i) == AtMost(Owed[i], AtLeastZero(amount - Total(Owed, 1..(i - 1))))

\* ... and what a reversed amount restores, the newest first.
Restored(amount, i) ==
    AtMost(Room[i], AtLeastZero(amount - Total(Room, (i + 1)..LastInvoice)))

\* A balance is never restored beyond the invoice's total.
RestoreInvoiceBalance(balance, amount) == AtMost(Price, balance + amount)

\* The credit notes on invoice i that are still applied.
Applied(c, i) == IF i \in credit[c].void THEN 0 ELSE credit[c].note[i]
Credited(i) == Total([c \in Credits |-> Applied(c, i)], Credits)

ReturnedQuantity(l) ==
    Total([r \in Returns |-> IF return[r].status \in {"approved", "completed"}
                             THEN return[r].lines[l] ELSE 0], Returns)

IsFirstUnused(i) ==
    /\ invoice[i].status = "none"
    /\ \A j \in 1..(i - 1) : invoice[j].status # "none"

Become(s, t) == request' = [request EXCEPT ![s] = t]

Init ==
    /\ order = "open"
    /\ invoice = [i \in Invoices |-> NoInvoice]
    /\ received = NoNotes
    /\ credit = [c \in Credits |-> NoCredit]
    /\ return = [r \in Returns |-> NoReturn]
    /\ request = [s \in Requests |-> Idle]

\* The order lifecycle, see Orders.
OrderMoves ==
    /\ order = "open"
    /\ order' \in {"shipped", "cancelled"}
    /\ UNCHANGED <<invoice, received, credit, return, request>>

\* Any request may fail, or its process die, between two steps.
Stop(s) ==
    /\ request[s] # Idle
    /\ Become(s, Idle)
    /\ UNCHANGED <<order, invoice, received, credit, return>>

-----------------------------------------------------------------------------
(* Invoices: an unlocked check, then an unconditional write *)

Start(s, t) ==
    /\ request[s] = Idle
    /\ Become(s, t)
    /\ UNCHANGED <<order, invoice, received, credit, return>>

CreateInvoice(s) == order # "cancelled" /\ Start(s, [at |-> "create"])

IssueInvoice(s, i) ==
    /\ invoice[i].status = "draft"
    /\ Start(s, [at |-> "issue", invoice |-> i])

VoidInvoice(s, i) ==
    /\ invoice[i].status \in {"draft", "issued"}
    /\ Start(s, [at |-> "void", invoice |-> i])

ReissueInvoice(s, i) ==
    /\ invoice[i].status \in {"draft", "issued"}
    /\ Start(s, [at |-> "reissue", invoice |-> i])

Commit(s, new) ==
    /\ invoice' = new
    /\ Become(s, Idle)
    /\ UNCHANGED <<order, received, credit, return>>

CreateCommit(s) == \E i \in Invoices :
    /\ request[s].at = "create"
    /\ IsFirstUnused(i)
    /\ Commit(s, [invoice EXCEPT ![i] = Draft])

IssueCommit(s) ==
    /\ request[s].at = "issue"
    /\ Commit(s, [invoice EXCEPT ![request[s].invoice].status = "issued"])

VoidCommit(s) ==
    /\ request[s].at = "void"
    /\ Commit(s, [invoice EXCEPT ![request[s].invoice].status = "void"])

ReissueCommit(s) == \E i \in Invoices :
    /\ request[s].at = "reissue"
    /\ IsFirstUnused(i)
    /\ Commit(s, [invoice EXCEPT ![request[s].invoice].status = "void", ![i] = Draft])

-----------------------------------------------------------------------------
(* What the payments module calls *)

\* Test variant: nobody asks how much of the amount is owed.
PayBlindly(amount) ==
    /\ invoice' = [i \in Invoices |-> [invoice[i] EXCEPT
           !.balance = IF invoice[i].status = "issued" THEN @ - amount ELSE @]]
    /\ received' = [i \in Invoices |-> received[i] + Taken(amount, i)]
    /\ UNCHANGED <<order, credit, return>>

RecordPayment(amount) ==
    /\ amount <= Total(Owed, Invoices)
    /\ invoice' = [i \in Invoices |->
           [invoice[i] EXCEPT !.balance = @ - Taken(amount, i)]]
    /\ received' = [i \in Invoices |-> received[i] + Taken(amount, i)]
    /\ UNCHANGED <<order, credit, return>>

ReversePayment(amount) ==
    /\ amount <= Total(Room, Invoices)
    /\ invoice' = [i \in Invoices |->
           [invoice[i] EXCEPT !.balance = RestoreInvoiceBalance(@, Restored(amount, i))]]
    /\ UNCHANGED <<order, received, credit, return>>

-----------------------------------------------------------------------------
(* Credit notes *)

\* Test variants: the amount may exceed what is owed; a balance is reduced by
\* twice what the note says.
CreditWhatFits(c, amount, of) ==
    /\ credit[c] = NoCredit
    /\ amount > 0
    /\ credit' = [credit EXCEPT ![c] =
           [of |-> of, note |-> [i \in Invoices |-> Taken(amount, i)], void |-> {}]]
    /\ invoice' = [i \in Invoices |->
           [invoice[i] EXCEPT !.balance = @ - Taken(amount, i)]]
CreditDecrementingTwice(c, amount, of) ==
    /\ credit[c] = NoCredit
    /\ amount > 0
    /\ amount <= Total(Owed, Invoices)
    /\ credit' = [credit EXCEPT ![c] =
           [of |-> of, note |-> [i \in Invoices |-> Taken(amount, i)], void |-> {}]]
    /\ invoice' = [i \in Invoices |->
           [invoice[i] EXCEPT !.balance = @ - 2 * Taken(amount, i)]]

\* applyCredit: all of the amount or none of it.
ApplyCredit(c, amount, of) ==
    /\ credit[c] = NoCredit
    /\ amount > 0
    /\ amount <= Total(Owed, Invoices)
    /\ credit' = [credit EXCEPT ![c] =
           [of |-> of, note |-> [i \in Invoices |-> Taken(amount, i)], void |-> {}]]
    /\ invoice' = [i \in Invoices |->
           [invoice[i] EXCEPT !.balance = @ - Taken(amount, i)]]

CreateManualCredit(s) == order # "cancelled" /\ Start(s, [at |-> "credit"])

ManualCreditCommit(s) ==
    /\ request[s].at = "credit"
    /\ \E c \in Credits, amount \in 1..(Price * LastInvoice) : ApplyCredit(c, amount, Staff)
    /\ Become(s, Idle)
    /\ UNCHANGED <<order, received, return>>

VoidCreditNote(s, c, i) ==
    /\ credit[c].note[i] > 0 /\ i \notin credit[c].void
    /\ Start(s, [at |-> "voidNote", credit |-> c, invoice |-> i])

\* Test variant: the note's amount is not given back to the balance.
VoidNoteKeepingBalance(s) ==
    LET i == request[s].invoice c == request[s].credit IN
    /\ request[s].at = "voidNote"
    /\ credit' = [credit EXCEPT ![c].void = @ \cup {i}]
    /\ Become(s, Idle)
    /\ UNCHANGED <<invoice, order, received, return>>

\* The status is written whatever it is by now, and the balance restored.
VoidNoteCommit(s) ==
    LET i == request[s].invoice c == request[s].credit IN
    /\ request[s].at = "voidNote"
    /\ credit' = [credit EXCEPT ![c].void = @ \cup {i}]
    /\ invoice' = [invoice EXCEPT ![i].balance = RestoreInvoiceBalance(@, credit[c].note[i])]
    /\ Become(s, Idle)
    /\ UNCHANGED <<order, received, return>>

-----------------------------------------------------------------------------
(* Returns *)

RequestReturn(s) == \E q \in {f \in [Lines -> Int32] : \E l \in Lines : f[l] > 0} :
    /\ order = "shipped"
    /\ \A l \in Lines : q[l] > 0 => ReturnedQuantity(l) + q[l] <= Quantity[l]
    /\ Start(s, [at |-> "return", lines |-> q])

RequestReturnCommit(s) == \E r \in Returns :
    /\ request[s].at = "return"
    /\ return[r] = NoReturn
    /\ return' = [return EXCEPT ![r] = [status |-> "requested", lines |-> request[s].lines]]
    /\ Become(s, Idle)
    /\ UNCHANGED <<order, invoice, received, credit>>

\* ApproveReturn and RejectReturn: the row is locked and checked.
DecideReturn(r) ==
    /\ return[r].status = "requested"
    /\ \E decision \in {"approved", "rejected"} :
         return' = [return EXCEPT ![r].status = decision]
    /\ UNCHANGED <<order, invoice, received, credit, request>>

\* Test variant: a completed return may be completed again.
CompleteReturnAgain(s, r) ==
    /\ request[s] = Idle
    /\ return[r].status \in {"approved", "completed"}
    /\ return' = [return EXCEPT ![r].status = "completed"]
    /\ Become(s, [at |-> "creditLines", return |-> r,
                  left |-> {l \in Lines : return[r].lines[l] > 0}])
    /\ UNCHANGED <<order, invoice, received, credit>>

\* CompleteReturn: the status commits first ...
CompleteReturn(s, r) ==
    /\ request[s] = Idle
    /\ return[r].status = "approved"
    /\ return' = [return EXCEPT ![r].status = "completed"]
    /\ Become(s, [at |-> "creditLines", return |-> r,
                  left |-> {l \in Lines : return[r].lines[l] > 0}])
    /\ UNCHANGED <<order, invoice, received, credit>>

\* ... then its lines are credited, each in a transaction of its own.
CreditLine(s) == \E l \in Lines, c \in Credits :
    LET r == request[s].return IN
    /\ request[s].at = "creditLines"
    /\ l \in request[s].left
    /\ \A k \in request[s].left : l <= k
    /\ ApplyCredit(c, UnitPrice[l] * return[r].lines[l], <<r, l>>)
    /\ Become(s, IF request[s].left = {l} THEN Idle
                 ELSE [request[s] EXCEPT !.left = @ \ {l}])
    /\ UNCHANGED <<order, received, return>>

-----------------------------------------------------------------------------
InvoiceStep(s) ==
    \/ CreateInvoice(s) \/ CreateCommit(s)
    \/ IssueCommit(s) \/ VoidCommit(s) \/ ReissueCommit(s)
    \/ \E i \in Invoices : IssueInvoice(s, i) \/ VoidInvoice(s, i) \/ ReissueInvoice(s, i)

CreditStep(s) ==
    \/ CreateManualCredit(s) \/ ManualCreditCommit(s) \/ VoidNoteCommit(s)
    \/ \E c \in Credits, i \in Invoices : VoidCreditNote(s, c, i)

ReturnStep(s) ==
    \/ RequestReturn(s) \/ RequestReturnCommit(s) \/ CreditLine(s)
    \/ \E r \in Returns : CompleteReturn(s, r)

\* The payments module pays the order's total, or refunds a part of it, see
\* Payments.  Bound: a total of LastPayment is ever paid.
MoneyMoves ==
    /\ \/ RecordPayment(Price) /\ Total(received, Invoices) + Price <= LastPayment
       \/ \E amount \in 1..(Price * LastInvoice) : ReversePayment(amount)
    /\ UNCHANGED request

Step(s) == InvoiceStep(s) \/ CreditStep(s) \/ ReturnStep(s) \/ Stop(s)

Next ==
    \/ \E s \in Requests : Step(s)
    \/ \E r \in Returns : DecideReturn(r)
    \/ OrderMoves \/ MoneyMoves

Spec == Init /\ [][Next]_vars

-----------------------------------------------------------------------------
(* Properties *)

InvoiceType == [status : {"none", "draft", "issued", "void"}, balance : 0..Price]
NotesType == [Invoices -> 0..Price]
Origins == {Nothing, Staff} \cup (Returns \X Lines)
CreditType == [of : Origins, note : NotesType, void : SUBSET Invoices]
ReturnType == [status : {"none", "requested", "approved", "rejected", "completed"},
               lines : [Lines -> Int32]]
RequestType ==
    [at : {"idle", "create", "credit"}]
    \cup [at : {"issue", "void", "reissue"}, invoice : Invoices]
    \cup [at : {"voidNote"}, credit : Credits, invoice : Invoices]
    \cup [at : {"return"}, lines : [Lines -> Int32]]
    \cup [at : {"creditLines"}, return : Returns, left : SUBSET Lines]

\* The CHECK constraints on balances are a backstop that no transaction
\* meets: subtracting what a plan takes never goes below zero, and nothing is
\* restored beyond an invoice's total (DecrementInvoiceBalance).
TypeOK ==
    /\ order \in {"open", "shipped", "cancelled"}
    /\ invoice \in [Invoices -> InvoiceType]
    /\ received \in [Invoices -> Nat]
    /\ credit \in [Credits -> CreditType]
    /\ return \in [Returns -> ReturnType]
    /\ request \in [Requests -> RequestType]

\* Whatever an invoice counts as settled was paid at some time or is credited by
\* a note that still applies: races of payments, reversals, credits and voids
\* may ask a buyer for too much, they never settle a debt that nobody ever paid.
\* Payments count although they were reversed since: a reversal restores the
\* newest invoices, not those its payment had settled, and a note voided after
\* that restores nothing on a full balance.
SettledIsBacked == \A i \in Invoices :
    invoice[i].status # "none" => Price - invoice[i].balance <= received[i] + Credited(i)

\* Notes of a return exist only once it is completed, and no line of it is
\* credited twice, however many requests complete it (CompleteReturn).
ReturnCreditedOnce == \A c \in Credits :
    credit[c].of \in Returns \X Lines =>
        /\ return[credit[c].of[1]].status = "completed"
        /\ \A d \in Credits \ {c} : credit[d].of # credit[c].of

\* A returned line is credited in full or not at all: its notes, one for each
\* invoice that gave some, sum to its price (applyCredit).
CreditedInFull == \A c \in Credits, r \in Returns, l \in Lines :
    credit[c].of = <<r, l>> =>
        Total(credit[c].note, Invoices) = UnitPrice[l] * return[r].lines[l]

\* A payment or a credit takes from an invoice only if it is issued and every
\* older issued invoice is settled by then (ApplyInvoicePayment, applyCredit).
OldestFirst == [][\A i \in Invoices :
    invoice'[i].balance < invoice[i].balance =>
        /\ invoice[i].status = "issued"
        /\ \A j \in 1..(i - 1) : invoice[j].status = "issued" => invoice'[j].balance = 0]_vars
=============================================================================
