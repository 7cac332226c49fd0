---------------------------- MODULE BillingProofs ----------------------------
(***************************************************************************)
(* Theorems about Billing, for any invoices, credits, returns, lines and   *)
(* requests.                                                               *)
(*                                                                         *)
(* What a plan takes off a balance is at most the balance, whatever the    *)
(* amount: so no balance leaves 0..Price, and what it loses is matched by  *)
(* a payment or a note.  The inductive invariant adds that an invoice that *)
(* a request has read exists, and that one request at most credits the     *)
(* lines of a return, and none of those it has left is credited yet.       *)
(***************************************************************************)
EXTENDS Billing, CountingProofs

RequestSound(t) ==
    /\ t.at \in {"issue", "void", "reissue"} => invoice[t.invoice].status # "none"
    /\ t.at = "creditLines" =>
         /\ return[t.return].status = "completed"
         /\ \A c \in Credits, l \in t.left : credit[c].of # <<t.return, l>>

CreditsAlone == \A s, u \in Requests :
    /\ request[s].at = "creditLines" /\ request[u].at = "creditLines"
    /\ request[s].return = request[u].return
    => s = u

BInv == /\ TypeOK /\ SettledIsBacked /\ ReturnCreditedOnce /\ CreditsAlone
        /\ \A s \in Requests : RequestSound(request[s])

-----------------------------------------------------------------------------
\* What a request remembers is told by the step it is at.
LEMMA RequestKinds ==
    ASSUME NEW t \in RequestType
    PROVE  /\ t.at \in {"issue", "void", "reissue"} => t.invoice \in Invoices
           /\ t.at = "voidNote" => t.credit \in Credits /\ t.invoice \in Invoices
           /\ t.at = "return" => t.lines \in [Lines -> Int32]
           /\ t.at = "creditLines" =>
                t \in [at : {"creditLines"}, return : Returns, left : SUBSET Lines]
BY DEF RequestType

LEMMA RequestsBack ==
    /\ Idle \in RequestType /\ Idle.at = "idle"
    /\ \A a \in {"create", "credit"} : [at |-> a] \in RequestType
    /\ \A a \in {"issue", "void", "reissue"}, i \in Invoices :
          [at |-> a, invoice |-> i] \in RequestType
    /\ \A c \in Credits, i \in Invoices :
          [at |-> "voidNote", credit |-> c, invoice |-> i] \in RequestType
    /\ \A f \in [Lines -> Int32] : [at |-> "return", lines |-> f] \in RequestType
    /\ \A r \in Returns, L \in SUBSET Lines :
          [at |-> "creditLines", return |-> r, left |-> L] \in RequestType
BY DEF RequestType, Idle

LEMMA MoneyIsNatural == Price \in Nat /\ 0 \in 0..Price /\ 0..Price \subseteq Int32
BY PriceAssumption, MaxIntAssumption DEF Int32

LEMMA InvoicesAreFinite ==
    /\ IsFiniteSet(Invoices)
    /\ \A i \in Invoices : IsFiniteSet(1..(i - 1)) /\ IsFiniteSet((i + 1)..LastInvoice)
BY PriceAssumption, FS_Interval DEF Invoices

\* What is owed on an invoice, and what an amount takes of it.
LEMMA OwedBounds ==
    ASSUME TypeOK, NEW i \in Invoices
    PROVE  /\ Owed[i] \in Nat /\ Owed[i] \in Int32
           /\ invoice[i].balance \in Nat /\ invoice[i].balance <= Price
           /\ Owed[i] <= invoice[i].balance
           /\ invoice[i].status # "issued" => Owed[i] = 0
           /\ invoice[i].status = "issued" => Owed[i] = invoice[i].balance
<1>1. invoice[i].balance \in 0..Price
  BY DEF TypeOK, InvoiceType
<1>2. Owed[i] = IF invoice[i].status = "issued" THEN invoice[i].balance ELSE 0
  BY DEF Owed
<1> QED
  BY <1>1, <1>2, MoneyIsNatural

LEMMA TakenBounds ==
    ASSUME TypeOK, NEW amount \in Int, NEW i \in Invoices
    PROVE  /\ Taken(amount, i) \in Nat /\ Taken(amount, i) <= Owed[i]
           /\ Taken(amount, i) \in 0..Price
<1>1. Total(Owed, 1..(i - 1)) \in Nat
  BY InvoicesAreFinite, TotalNat
<1> QED
  BY <1>1, OwedBounds, MoneyIsNatural DEF Taken, AtMost, AtLeastZero

LEMMA RestoredBounds ==
    ASSUME TypeOK, NEW amount \in Int, NEW i \in Invoices
    PROVE  Restored(amount, i) \in Nat
<1>1. Total(Room, (i + 1)..LastInvoice) \in Nat
  BY InvoicesAreFinite, TotalNat
<1>2. Room[i] \in Nat
  BY OwedBounds, MoneyIsNatural DEF Room
<1> QED
  BY <1>1, <1>2 DEF Restored, AtMost, AtLeastZero

\* If an amount takes something of an invoice, it takes all of an older one.
LEMMA TakenInOrder ==
    ASSUME TypeOK, NEW amount \in Int, NEW i \in Invoices, NEW j \in 1..(i - 1),
           Taken(amount, i) > 0
    PROVE  Taken(amount, j) = Owed[j]
<1>1. j \in Invoices /\ j \in 1..(i - 1) /\ j \notin 1..(j - 1)
      /\ 1..(j - 1) \subseteq 1..(i - 1)
  BY PriceAssumption DEF Invoices
<1>2. /\ Total(Owed, 1..(i - 1)) \in Nat /\ Total(Owed, 1..(j - 1)) \in Nat
  BY <1>1, InvoicesAreFinite, TotalNat
<1>3. Owed[j] \in Nat /\ Owed[j] \in Int32 /\ Owed[i] \in Nat
  BY <1>1, OwedBounds
<1>4. Total(Owed, 1..(i - 1)) >= Total(Owed, 1..(j - 1)) + Owed[j]
  BY <1>1, <1>3, InvoicesAreFinite, TotalMonotone
<1> QED
  BY <1>2, <1>3, <1>4 DEF Taken, AtMost, AtLeastZero

\* A plan that is carried out.
LEMMA PlanCarriedOut ==
    ASSUME TypeOK, NEW amount \in Int,
           invoice' = [i \in Invoices |->
               [invoice[i] EXCEPT !.balance = invoice[i].balance - Taken(amount, i)]]
    PROVE  /\ invoice' \in [Invoices -> InvoiceType]
           /\ \A i \in Invoices :
                /\ invoice'[i].status = invoice[i].status
                /\ invoice'[i].balance = invoice[i].balance - Taken(amount, i)
<1>1. ASSUME NEW i \in Invoices
      PROVE  invoice[i].balance - Taken(amount, i) \in 0..Price
  BY OwedBounds, TakenBounds, MoneyIsNatural
<1>2. \A i \in Invoices : invoice[i] \in InvoiceType
  BY DEF TypeOK
<1> QED
  BY <1>1, <1>2 DEF InvoiceType

LEMMA CreditedNat ==
    ASSUME NEW i \in Invoices PROVE Credited(i) \in Nat
BY CreditsAssumption, TotalNat DEF Credited

-----------------------------------------------------------------------------
\* What the requests other than s remember stays so.
LEMMA OthersStay ==
    ASSUME BInv, NEW s \in Requests, NEW t \in RequestType, Become(s, t),
           \A i \in Invoices : invoice[i].status # "none" => invoice'[i].status # "none",
           \A r \in Returns : return[r].status = "completed" => return'[r].status = "completed",
           \A c \in Credits : credit'[c].of = credit[c].of \/ credit'[c].of = Staff
    PROVE  /\ request' \in [Requests -> RequestType] /\ request'[s] = t
           /\ \A u \in Requests \ {s} : /\ request'[u] = request[u]
                                        /\ RequestSound(request[u])'
<1>1. request' = [request EXCEPT ![s] = t] /\ request \in [Requests -> RequestType]
  BY DEF Become, BInv, TypeOK
<1>2. ASSUME NEW u \in Requests \ {s} PROVE RequestSound(request[u])'
  <2>1. /\ request'[u] = request[u] /\ request[u] \in RequestType
        /\ RequestSound(request[u])
    BY <1>1 DEF BInv
  <2>2. request[u].at \in {"issue", "void", "reissue"} =>
          invoice'[request[u].invoice].status # "none"
    BY <2>1, RequestKinds DEF RequestSound
  <2>3. ASSUME request[u].at = "creditLines"
        PROVE  /\ return'[request[u].return].status = "completed"
               /\ \A c \in Credits, l \in request[u].left :
                    credit'[c].of # <<request[u].return, l>>
    <3>1. request[u].return \in Returns
      BY <2>1, <2>3, RequestKinds
    <3>2. \A l : Staff # <<request[u].return, l>>
      BY <3>1, ReturnsAssumption DEF Staff
    <3> QED
      BY <2>1, <2>3, <3>1, <3>2 DEF RequestSound
  <2> QED
    BY <2>1, <2>2, <2>3 DEF RequestSound
<1> QED
  BY <1>1, <1>2

LEMMA AloneStays ==
    ASSUME BInv, NEW s \in Requests, NEW t, request'[s] = t,
           \A u \in Requests \ {s} : request'[u] = request[u],
           t.at = "creditLines" => request[s].at = "creditLines" /\ t.return = request[s].return
    PROVE  CreditsAlone'
BY DEF BInv, CreditsAlone

\* A request is begun or given up.
LEMMA Begins ==
    ASSUME BInv, NEW s \in Requests, NEW t \in RequestType, Become(s, t),
           t.at # "creditLines", RequestSound(t),
           UNCHANGED <<invoice, received, credit, return>>,
           order' \in {"open", "shipped", "cancelled"}
    PROVE  BInv'
<1>1. /\ request' \in [Requests -> RequestType] /\ request'[s] = t
      /\ \A u \in Requests \ {s} : request'[u] = request[u] /\ RequestSound(request[u])'
  BY OthersStay
<1>2. TypeOK'
  BY <1>1 DEF BInv, TypeOK
<1>3. CreditsAlone'
  BY <1>1, AloneStays
<1>4. SettledIsBacked'
  BY DEF BInv, SettledIsBacked, Credited, Applied
<1>5. ReturnCreditedOnce'
  BY DEF BInv, ReturnCreditedOnce
<1>6. RequestSound(request[s])'
  BY <1>1 DEF RequestSound
<1> QED
  BY <1>1, <1>2, <1>3, <1>4, <1>5, <1>6 DEF BInv

\* An invoice is written: it is new, or keeps its balance.
LEMMA Commits ==
    ASSUME BInv, NEW s \in Requests, NEW new \in [Invoices -> InvoiceType], Commit(s, new),
           \A i \in Invoices : invoice[i].status # "none" => new[i].status # "none",
           \A i \in Invoices : new[i].status # "none" =>
              \/ new[i].balance = Price
              \/ invoice[i].status # "none" /\ new[i].balance = invoice[i].balance
    PROVE  BInv'
<1>1. Become(s, Idle) /\ invoice' = new /\ UNCHANGED <<order, received, credit, return>>
  BY DEF Commit
<1>2. /\ request' \in [Requests -> RequestType] /\ request'[s] = Idle
      /\ \A u \in Requests \ {s} : request'[u] = request[u] /\ RequestSound(request[u])'
  BY <1>1, OthersStay, RequestsBack
<1>3. TypeOK'
  BY <1>1, <1>2 DEF BInv, TypeOK
<1>4. CreditsAlone'
  BY <1>2, AloneStays, RequestsBack
<1>5. SettledIsBacked'
  <2> SUFFICES ASSUME NEW i \in Invoices, new[i].status # "none"
               PROVE  Price - new[i].balance <= received[i] + Credited(i)
    BY <1>1 DEF SettledIsBacked, Credited, Applied
  <2>1. received[i] \in Nat /\ Credited(i) \in Nat /\ Price \in Nat
    BY CreditedNat, MoneyIsNatural DEF BInv, TypeOK
  <2> QED
    BY <2>1 DEF BInv, SettledIsBacked
<1>6. ReturnCreditedOnce'
  BY <1>1 DEF BInv, ReturnCreditedOnce
<1>7. RequestSound(request[s])'
  BY <1>2, RequestsBack DEF RequestSound
<1> QED
  BY <1>2, <1>3, <1>4, <1>5, <1>6, <1>7 DEF BInv

-----------------------------------------------------------------------------
\* Only balances move, and what they lose is backed.
LEMMA MoneyKeeps ==
    ASSUME BInv, UNCHANGED <<order, credit, return, request>>,
           invoice' \in [Invoices -> InvoiceType], received' \in [Invoices -> Nat],
           \A i \in Invoices :
              /\ invoice'[i].status = invoice[i].status
              /\ invoice'[i].balance + received'[i] >= invoice[i].balance + received[i]
    PROVE  BInv'
<1>1. TypeOK' /\ CreditsAlone' /\ ReturnCreditedOnce'
  BY DEF BInv, TypeOK, CreditsAlone, ReturnCreditedOnce
<1>2. SettledIsBacked'
  <2> SUFFICES ASSUME NEW i \in Invoices, invoice'[i].status # "none"
               PROVE  Price - invoice'[i].balance <= received'[i] + Credited(i)
    BY DEF SettledIsBacked, Credited, Applied
  <2>1. /\ received[i] \in Nat /\ received'[i] \in Nat /\ Credited(i) \in Nat
        /\ invoice[i].balance \in Nat /\ invoice'[i].balance \in Nat /\ Price \in Nat
    BY CreditedNat, MoneyIsNatural DEF BInv, TypeOK, InvoiceType
  <2>2. Price - invoice[i].balance <= received[i] + Credited(i)
    BY DEF BInv, SettledIsBacked
  <2> QED
    BY <2>1, <2>2
<1>3. ASSUME NEW u \in Requests PROVE RequestSound(request[u])'
  <2>1. request[u] \in RequestType /\ RequestSound(request[u])
    BY DEF BInv, TypeOK
  <2> QED
    BY <2>1, RequestKinds DEF RequestSound
<1> QED
  BY <1>1, <1>2, <1>3 DEF BInv

LEMMA RecordPaymentKeeps ==
    ASSUME BInv, NEW amount \in Int, RecordPayment(amount), UNCHANGED request
    PROVE  BInv'
<1>1. /\ invoice' \in [Invoices -> InvoiceType]
      /\ \A i \in Invoices :
           /\ invoice'[i].status = invoice[i].status
           /\ invoice'[i].balance = invoice[i].balance - Taken(amount, i)
  BY PlanCarriedOut DEF RecordPayment, BInv
<1>2. \A i \in Invoices : /\ Taken(amount, i) \in Nat /\ received[i] \in Nat
                          /\ invoice[i].balance \in Nat
                          /\ received'[i] = received[i] + Taken(amount, i)
  BY TakenBounds, OwedBounds DEF RecordPayment, BInv, TypeOK
<1>3. received' \in [Invoices -> Nat]
  BY <1>2 DEF RecordPayment
<1>4. \A i \in Invoices :
        invoice'[i].balance + received'[i] >= invoice[i].balance + received[i]
  BY <1>1, <1>2
<1> QED
  BY <1>1, <1>3, <1>4, MoneyKeeps DEF RecordPayment

\* What is restored never exceeds the invoice's total, nor lowers a balance.
LEMMA Restores ==
    ASSUME NEW b \in 0..Price, NEW n \in Nat
    PROVE  RestoreInvoiceBalance(b, n) \in 0..Price /\ RestoreInvoiceBalance(b, n) >= b
BY MoneyIsNatural DEF RestoreInvoiceBalance, AtMost

LEMMA ReversePaymentKeeps ==
    ASSUME BInv, NEW amount \in Int, ReversePayment(amount), UNCHANGED request
    PROVE  BInv'
<1>1. \A i \in Invoices : /\ invoice[i] \in InvoiceType /\ invoice[i].balance \in 0..Price
                          /\ Restored(amount, i) \in Nat /\ received[i] \in Nat
  BY RestoredBounds DEF BInv, TypeOK, InvoiceType
<1>2. \A i \in Invoices :
        /\ RestoreInvoiceBalance(invoice[i].balance, Restored(amount, i)) \in 0..Price
        /\ RestoreInvoiceBalance(invoice[i].balance, Restored(amount, i)) >= invoice[i].balance
  BY <1>1, Restores
<1>3. \A i \in Invoices :
        /\ invoice'[i].status = invoice[i].status
        /\ invoice'[i].balance = RestoreInvoiceBalance(invoice[i].balance, Restored(amount, i))
        /\ invoice'[i] \in InvoiceType
  BY <1>1, <1>2 DEF ReversePayment, InvoiceType
<1>4. invoice' \in [Invoices -> InvoiceType]
  BY <1>3 DEF ReversePayment
<1>5. \A i \in Invoices :
        invoice'[i].balance + received[i] >= invoice[i].balance + received[i]
  BY <1>1, <1>2, <1>3, MoneyIsNatural
<1>6. UNCHANGED <<order, received, credit, return>> /\ received' \in [Invoices -> Nat]
  BY DEF ReversePayment, BInv, TypeOK
<1> QED
  BY <1>3, <1>4, <1>5, <1>6, MoneyKeeps

-----------------------------------------------------------------------------
\* A credit takes off the balances what its notes say.
LEMMA CreditApplied ==
    ASSUME BInv, NEW c \in Credits, NEW amount \in Int, NEW of \in Origins,
           ApplyCredit(c, amount, of), UNCHANGED received
    PROVE  /\ credit' \in [Credits -> CreditType]
           /\ invoice' \in [Invoices -> InvoiceType]
           /\ \A i \in Invoices : invoice'[i].status = invoice[i].status
           /\ credit[c].of = Nothing /\ credit'[c].of = of
           /\ \A d \in Credits \ {c} : credit'[d] = credit[d]
           /\ SettledIsBacked'
<1>1. /\ invoice' \in [Invoices -> InvoiceType]
      /\ \A i \in Invoices :
           /\ invoice'[i].status = invoice[i].status
           /\ invoice'[i].balance = invoice[i].balance - Taken(amount, i)
  BY PlanCarriedOut DEF ApplyCredit, BInv
<1> DEFINE row == [of |-> of, note |-> [i \in Invoices |-> Taken(amount, i)], void |-> {}]
<1>2. row \in CreditType
  BY TakenBounds DEF CreditType, NotesType, BInv
<1>3. /\ credit[c] = NoCredit /\ credit \in [Credits -> CreditType]
      /\ credit' = [credit EXCEPT ![c] = row]
  BY DEF ApplyCredit, BInv, TypeOK
<1>4. credit' \in [Credits -> CreditType] /\ \A d \in Credits \ {c} : credit'[d] = credit[d]
  BY <1>2, <1>3
<1>5. credit[c].of = Nothing /\ credit'[c].of = of
  BY <1>3 DEF NoCredit
<1>6. ASSUME NEW i \in Invoices
      PROVE  Credited(i)' = Credited(i) + Taken(amount, i)
  <2> DEFINE f == [d \in Credits |-> Applied(d, i)]
             g == [d \in Credits |-> Applied(d, i)']
  <2>1. f[c] = 0
    BY <1>3 DEF Applied, NoCredit, NoNotes
  <2>2. g[c] = Taken(amount, i)
    BY <1>3 DEF Applied
  <2>3. g[c] \in Int32
    BY <2>2, TakenBounds, MoneyIsNatural DEF BInv
  <2>4. \A d \in Credits \ {c} : g[d] = f[d]
    BY <1>4 DEF Applied
  <2>5. Credited(i) = Total(f, Credits) /\ Credited(i)' = Total(g, Credits)
    BY DEF Credited
  <2> HIDE DEF f, g
  <2>6. Total(g, Credits) = Total(f, Credits) + g[c]
    BY <2>1, <2>3, <2>4, CreditsAssumption, TotalRaise
  <2> QED
    BY <2>2, <2>5, <2>6
<1>7. SettledIsBacked'
  <2> SUFFICES ASSUME NEW i \in Invoices, invoice'[i].status # "none"
               PROVE  Price - invoice'[i].balance <= received[i] + Credited(i)'
    BY DEF SettledIsBacked
  <2>1. /\ received[i] \in Nat /\ Credited(i) \in Nat /\ Price \in Nat
        /\ invoice[i].balance \in Nat /\ Taken(amount, i) \in Nat
    BY CreditedNat, OwedBounds, TakenBounds, MoneyIsNatural DEF BInv, TypeOK
  <2>2. Price - invoice[i].balance <= received[i] + Credited(i)
    BY <1>1 DEF BInv, SettledIsBacked
  <2> QED
    BY <1>1, <1>6, <2>1, <2>2
<1> QED
  BY <1>1, <1>4, <1>5, <1>7

LEMMA StaffIsNobody ==
    /\ \A r \in Returns : \A l : Staff # <<r, l>> /\ Nothing # <<r, l>>
    /\ Staff \in Origins
    /\ \A r \in Returns, l \in Lines : <<r, l>> \in Origins
BY ReturnsAssumption DEF Staff, Nothing, Origins

LEMMA ManualCreditCommitKeeps ==
    ASSUME BInv, NEW s \in Requests, ManualCreditCommit(s) PROVE BInv'
<1>1. PICK c \in Credits, amount \in 1..(Price * LastInvoice) : ApplyCredit(c, amount, Staff)
  BY DEF ManualCreditCommit
<1>2. Become(s, Idle) /\ UNCHANGED <<order, received, return>>
  BY DEF ManualCreditCommit
<1>3. /\ credit' \in [Credits -> CreditType]
      /\ invoice' \in [Invoices -> InvoiceType]
      /\ \A i \in Invoices : invoice'[i].status = invoice[i].status
      /\ credit'[c].of = Staff
      /\ \A d \in Credits \ {c} : credit'[d] = credit[d]
      /\ SettledIsBacked'
  BY <1>1, <1>2, CreditApplied, StaffIsNobody
<1>4. /\ request' \in [Requests -> RequestType] /\ request'[s] = Idle
      /\ \A u \in Requests \ {s} : request'[u] = request[u] /\ RequestSound(request[u])'
  BY <1>2, <1>3, OthersStay, RequestsBack
<1>5. TypeOK'
  BY <1>2, <1>3, <1>4 DEF BInv, TypeOK
<1>6. CreditsAlone'
  BY <1>4, AloneStays, RequestsBack
<1>7. ReturnCreditedOnce'
  <2>1. \A d \in Credits : credit'[d].of \in Returns \X Lines => d # c /\ credit'[d] = credit[d]
    BY <1>3, StaffIsNobody
  <2>2. \A d \in Credits : credit'[d].of \in Returns \X Lines => credit'[d].of # Staff
    BY StaffIsNobody
  <2> QED
    BY <1>2, <1>3, <2>1, <2>2 DEF BInv, ReturnCreditedOnce
<1>8. RequestSound(request[s])'
  BY <1>4, RequestsBack DEF RequestSound
<1> QED
  BY <1>3, <1>4, <1>5, <1>6, <1>7, <1>8 DEF BInv

LEMMA CreditLineKeeps ==
    ASSUME BInv, NEW s \in Requests, CreditLine(s) PROVE BInv'
<1>1. PICK l \in Lines, c \in Credits, r \in Returns :
        /\ request[s].at = "creditLines" /\ r = request[s].return
        /\ l \in request[s].left /\ request[s].left \subseteq Lines
        /\ ApplyCredit(c, UnitPrice[l] * return[r].lines[l], <<r, l>>)
        /\ Become(s, IF request[s].left = {l} THEN Idle
                     ELSE [request[s] EXCEPT !.left = request[s].left \ {l}])
        /\ UNCHANGED <<order, received, return>>
  <2>1. request[s].at = "creditLines" /\ request[s] \in RequestType
    BY DEF CreditLine, BInv, TypeOK
  <2>2. request[s].return \in Returns /\ request[s].left \subseteq Lines
    BY <2>1, RequestKinds
  <2> QED
    BY <2>1, <2>2 DEF CreditLine
<1>2. UnitPrice[l] * return[r].lines[l] \in Int
  <2>1. UnitPrice[l] \in Nat /\ return[r].lines[l] \in Nat
    BY LinesAssumption, MaxIntAssumption DEF BInv, TypeOK, ReturnType, Int32
  <2> QED
    BY <2>1
<1>3. /\ credit' \in [Credits -> CreditType]
      /\ invoice' \in [Invoices -> InvoiceType]
      /\ \A i \in Invoices : invoice'[i].status = invoice[i].status
      /\ credit'[c].of = <<r, l>>
      /\ \A d \in Credits \ {c} : credit'[d] = credit[d]
      /\ SettledIsBacked'
  BY <1>1, <1>2, CreditApplied, StaffIsNobody
<1>4. /\ return[r].status = "completed"
      /\ \A d \in Credits, k \in request[s].left : credit[d].of # <<r, k>>
  BY <1>1 DEF BInv, RequestSound
<1>5. PICK t \in RequestType :
        /\ request' = [request EXCEPT ![s] = t]
        /\ t.at = "creditLines" => t.return = r /\ t.left = request[s].left \ {l}
        /\ t.at \in {"idle", "creditLines"}
  <2>1. CASE request[s].left = {l}
    BY <1>1, <2>1, RequestsBack DEF Become
  <2>2. CASE request[s].left # {l}
    <3>1. request[s] \in [at : {"creditLines"}, return : Returns, left : SUBSET Lines]
      BY <1>1, RequestKinds DEF BInv, TypeOK
    <3>2. [request[s] EXCEPT !.left = request[s].left \ {l}]
             \in [at : {"creditLines"}, return : Returns, left : SUBSET Lines]
      BY <3>1
    <3>3. /\ [request[s] EXCEPT !.left = request[s].left \ {l}] \in RequestType
          /\ [request[s] EXCEPT !.left = request[s].left \ {l}].at = "creditLines"
          /\ [request[s] EXCEPT !.left = request[s].left \ {l}].return = r
          /\ [request[s] EXCEPT !.left = request[s].left \ {l}].left = request[s].left \ {l}
      BY <1>1, <3>1, <3>2 DEF RequestType
    <3> QED
      BY <1>1, <2>2, <3>3 DEF Become
  <2> QED
    BY <2>1, <2>2
<1>6. /\ request' \in [Requests -> RequestType] /\ request'[s] = t
      /\ \A u \in Requests \ {s} : request'[u] = request[u]
  BY <1>5 DEF BInv, TypeOK
<1>7. TypeOK'
  BY <1>1, <1>3, <1>6 DEF BInv, TypeOK
<1>8. CreditsAlone'
  BY <1>1, <1>5, <1>6, AloneStays
<1>9. ReturnCreditedOnce'
  <2>1. \A d \in Credits \ {c} : credit'[d].of # <<r, l>>
    BY <1>1, <1>3, <1>4
  <2>2. \A d \in Credits \ {c} : credit[d].of \in Returns \X Lines =>
          return'[credit[d].of[1]].status = "completed"
    BY <1>1 DEF BInv, ReturnCreditedOnce
  <2>3. return'[credit'[c].of[1]].status = "completed"
    BY <1>1, <1>3, <1>4
  <2> QED
    BY <1>3, <2>1, <2>2, <2>3 DEF BInv, ReturnCreditedOnce
<1>10. ASSUME NEW u \in Requests \ {s} PROVE RequestSound(request[u])'
  <2>1. request[u] \in RequestType /\ RequestSound(request[u]) /\ request'[u] = request[u]
    BY <1>6 DEF BInv, TypeOK
  <2>2. request[u].at \in {"issue", "void", "reissue"} =>
          invoice'[request[u].invoice].status # "none"
    BY <2>1, <1>3, RequestKinds DEF RequestSound
  <2>3. ASSUME request[u].at = "creditLines"
        PROVE  /\ return'[request[u].return].status = "completed"
               /\ \A d \in Credits, k \in request[u].left :
                    credit'[d].of # <<request[u].return, k>>
    <3>1. request[u].return # r
      BY <2>3, <1>1 DEF BInv, CreditsAlone
    <3>2. \A k : <<r, l>> # <<request[u].return, k>>
      BY <3>1
    <3> QED
      BY <2>1, <2>3, <1>1, <1>3, <3>2 DEF RequestSound
  <2> QED
    BY <2>1, <2>2, <2>3 DEF RequestSound
<1>11. RequestSound(request[s])'
  <2>1. ASSUME t.at = "creditLines", NEW d \in Credits, NEW k \in t.left
        PROVE  credit'[d].of # <<r, k>>
    <3>1. k \in request[s].left /\ k # l
      BY <2>1, <1>5
    <3> QED
      BY <3>1, <1>3, <1>4
  <2> QED
    BY <1>1, <1>4, <1>5, <1>6, <2>1 DEF RequestSound
<1> QED
  BY <1>3, <1>6, <1>7, <1>8, <1>9, <1>10, <1>11 DEF BInv

-----------------------------------------------------------------------------
\* A voided note gives its amount back, as far as the invoice has room for it.
LEMMA VoidNoteCommitKeeps ==
    ASSUME BInv, NEW s \in Requests, VoidNoteCommit(s) PROVE BInv'
<1>1. PICK c \in Credits, i \in Invoices :
        /\ credit' = [credit EXCEPT ![c].void = credit[c].void \cup {i}]
        /\ invoice' = [invoice EXCEPT ![i].balance =
                         RestoreInvoiceBalance(invoice[i].balance, credit[c].note[i])]
        /\ Become(s, Idle)
        /\ UNCHANGED <<order, received, return>>
  <2>1. request[s].at = "voidNote" /\ request[s] \in RequestType
    BY DEF VoidNoteCommit, BInv, TypeOK
  <2>2. request[s].credit \in Credits /\ request[s].invoice \in Invoices
    BY <2>1, RequestKinds
  <2> QED
    BY <2>2 DEF VoidNoteCommit
<1>2. /\ credit \in [Credits -> CreditType] /\ invoice \in [Invoices -> InvoiceType]
      /\ credit[c].note \in [Invoices -> 0..Price] /\ credit[c].note[i] \in Nat
      /\ invoice[i].balance \in 0..Price
  BY MoneyIsNatural DEF BInv, TypeOK, CreditType, NotesType, InvoiceType
<1>3. RestoreInvoiceBalance(invoice[i].balance, credit[c].note[i]) \in 0..Price
  BY <1>2, Restores
<1>4. /\ credit' \in [Credits -> CreditType]
      /\ credit'[c].of = credit[c].of /\ credit'[c].note = credit[c].note
      /\ credit'[c].void = credit[c].void \cup {i}
      /\ \A d \in Credits \ {c} : credit'[d] = credit[d]
  BY <1>1, <1>2 DEF CreditType
<1>5. /\ invoice' \in [Invoices -> InvoiceType]
      /\ \A j \in Invoices : invoice'[j].status = invoice[j].status
      /\ \A j \in Invoices \ {i} : invoice'[j].balance = invoice[j].balance
      /\ invoice'[i].balance = RestoreInvoiceBalance(invoice[i].balance, credit[c].note[i])
  BY <1>1, <1>2, <1>3 DEF InvoiceType
<1>6. /\ request' \in [Requests -> RequestType] /\ request'[s] = Idle
      /\ \A u \in Requests \ {s} : request'[u] = request[u] /\ RequestSound(request[u])'
  BY <1>1, <1>4, <1>5, OthersStay, RequestsBack
<1>7. TypeOK'
  BY <1>1, <1>4, <1>5, <1>6 DEF BInv, TypeOK
<1>8. CreditsAlone'
  BY <1>6, AloneStays, RequestsBack
<1>9. ReturnCreditedOnce'
  <2>1. \A d \in Credits : credit'[d].of = credit[d].of
    BY <1>4
  <2> QED
    BY <1>1, <2>1 DEF BInv, ReturnCreditedOnce
<1>10. SettledIsBacked'
  <2>1. ASSUME NEW j \in Invoices \ {i} PROVE Credited(j)' = Credited(j)
    <3>1. \A d \in Credits : Applied(d, j)' = Applied(d, j)
      BY <1>4, <2>1 DEF Applied
    <3> DEFINE f == [d \in Credits |-> Applied(d, j)]
               g == [d \in Credits |-> Applied(d, j)']
    <3>2. \A d \in Credits : g[d] = f[d]
      BY <3>1
    <3>3. Credited(j) = Total(f, Credits) /\ Credited(j)' = Total(g, Credits)
      BY DEF Credited
    <3> HIDE DEF f, g
    <3> QED
      BY <3>2, <3>3, TotalSame
  <2>2. Credited(i)' >= Credited(i) - credit[c].note[i]
    <3> DEFINE f == [d \in Credits |-> Applied(d, i)]
               g == [d \in Credits |-> Applied(d, i)']
    <3>1. g[c] = 0 /\ f[c] \in Int32 /\ f[c] <= credit[c].note[i]
      BY <1>2, <1>4, MoneyIsNatural DEF Applied
    <3>2. \A d \in Credits \ {c} : g[d] = f[d]
      BY <1>4 DEF Applied
    <3>3. Credited(i) = Total(f, Credits) /\ Credited(i)' = Total(g, Credits)
      BY DEF Credited
    <3> HIDE DEF f, g
    <3>4. Total(g, Credits) = Total(f, Credits) - Total(f, {c})
      BY <3>1, <3>2, CreditsAssumption, TotalClear
    <3>5. Total(f, {c}) = f[c]
      BY <3>1, TotalOne
    <3>6. f[c] \in Nat /\ Total(f, Credits) \in Nat
      BY <3>1, CreditsAssumption, TotalNat, MaxIntAssumption DEF Int32
    <3> QED
      BY <1>2, <3>1, <3>3, <3>4, <3>5, <3>6
  <2>3. \A j \in Invoices : /\ received[j] \in Nat /\ Credited(j) \in Nat
                            /\ invoice[j].balance \in Nat
    BY CreditedNat, OwedBounds DEF BInv, TypeOK
  <2>4. Credited(i)' \in Nat
    BY CreditsAssumption, TotalNat DEF Credited
  <2>5. ASSUME invoice'[i].status # "none"
        PROVE  Price - invoice'[i].balance <= received[i] + Credited(i)'
    <3>1. Price - invoice[i].balance <= received[i] + Credited(i)
      BY <1>5, <2>5 DEF BInv, SettledIsBacked
    <3> QED
      BY <1>2, <1>5, <2>2, <2>3, <2>4, <3>1, MoneyIsNatural DEF RestoreInvoiceBalance, AtMost
  <2>6. ASSUME NEW j \in Invoices \ {i}, invoice'[j].status # "none"
        PROVE  Price - invoice'[j].balance <= received[j] + Credited(j)'
    BY <1>5, <2>1, <2>6 DEF BInv, SettledIsBacked
  <2> QED
    BY <1>1, <2>5, <2>6 DEF SettledIsBacked
<1>11. RequestSound(request[s])'
  BY <1>6, RequestsBack DEF RequestSound
<1> QED
  BY <1>6, <1>7, <1>8, <1>9, <1>10, <1>11 DEF BInv

-----------------------------------------------------------------------------
\* Steps that write a return, and nothing of the money.
LEMMA ReturnWritten ==
    ASSUME BInv, UNCHANGED <<order, invoice, received, credit>>,
           return' \in [Returns -> ReturnType], request' \in [Requests -> RequestType],
           \A r \in Returns : return[r].status = "completed" => return'[r].status = "completed",
           CreditsAlone', \A s \in Requests : RequestSound(request[s])'
    PROVE  BInv'
<1>1. TypeOK'
  BY DEF BInv, TypeOK
<1>2. SettledIsBacked'
  BY DEF BInv, SettledIsBacked, Credited, Applied
<1>3. ReturnCreditedOnce'
  BY DEF BInv, ReturnCreditedOnce
<1> QED
  BY <1>1, <1>2, <1>3 DEF BInv

LEMMA RequestReturnCommitKeeps ==
    ASSUME BInv, NEW s \in Requests, RequestReturnCommit(s) PROVE BInv'
<1>1. PICK r \in Returns :
        /\ return[r] = NoReturn
        /\ return' = [return EXCEPT ![r] =
                        [status |-> "requested", lines |-> request[s].lines]]
        /\ Become(s, Idle) /\ UNCHANGED <<order, invoice, received, credit>>
  BY DEF RequestReturnCommit
<1>2. request[s].lines \in [Lines -> Int32]
  BY RequestKinds DEF RequestReturnCommit, BInv, TypeOK
<1>3. return' \in [Returns -> ReturnType]
  BY <1>1, <1>2 DEF BInv, TypeOK, ReturnType
<1>4. \A q \in Returns : return[q].status = "completed" => return'[q].status = "completed"
  BY <1>1 DEF BInv, TypeOK, NoReturn
<1>5. /\ request' \in [Requests -> RequestType] /\ request'[s] = Idle
      /\ \A u \in Requests \ {s} : request'[u] = request[u] /\ RequestSound(request[u])'
  BY <1>1, <1>4, OthersStay, RequestsBack
<1>6. CreditsAlone' /\ RequestSound(request[s])'
  BY <1>5, AloneStays, RequestsBack DEF RequestSound
<1> QED
  BY <1>1, <1>3, <1>4, <1>5, <1>6, ReturnWritten

LEMMA DecideReturnKeeps ==
    ASSUME BInv, NEW r \in Returns, DecideReturn(r) PROVE BInv'
<1>1. PICK decision \in {"approved", "rejected"} :
        /\ return[r].status = "requested"
        /\ return' = [return EXCEPT ![r].status = decision]
        /\ UNCHANGED <<order, invoice, received, credit, request>>
  BY DEF DecideReturn
<1>2. return' \in [Returns -> ReturnType]
  BY <1>1 DEF BInv, TypeOK, ReturnType
<1>3. \A q \in Returns : return[q].status = "completed" => return'[q].status = "completed"
  BY <1>1 DEF BInv, TypeOK
<1>4. CreditsAlone'
  BY <1>1 DEF BInv, CreditsAlone
<1>5. ASSUME NEW u \in Requests PROVE RequestSound(request[u])'
  <2>1. request[u] \in RequestType /\ RequestSound(request[u])
    BY DEF BInv, TypeOK
  <2> QED
    BY <1>1, <1>3, <2>1, RequestKinds DEF RequestSound
<1> QED
  BY <1>1, <1>2, <1>3, <1>4, <1>5, ReturnWritten DEF BInv, TypeOK

\* Whoever completes a return is the only one that credits its lines.
LEMMA CompleteReturnKeeps ==
    ASSUME BInv, NEW s \in Requests, NEW r \in Returns, CompleteReturn(s, r) PROVE BInv'
<1> DEFINE L == {l \in Lines : return[r].lines[l] > 0}
<1>1. PICK t \in RequestType :
        /\ t = [at |-> "creditLines", return |-> r, left |-> L]
        /\ request' = [request EXCEPT ![s] = t]
  <2>1. L \in SUBSET Lines
    OBVIOUS
  <2> HIDE DEF L
  <2>2. [at |-> "creditLines", return |-> r, left |-> L] \in RequestType
    BY <2>1, RequestsBack
  <2> QED
    BY <2>2 DEF CompleteReturn, Become, L
<1>2. /\ return[r].status = "approved"
      /\ return' = [return EXCEPT ![r].status = "completed"]
      /\ UNCHANGED <<order, invoice, received, credit>>
  BY DEF CompleteReturn
<1>3. return' \in [Returns -> ReturnType]
  BY <1>2 DEF BInv, TypeOK, ReturnType
<1>4. \A q \in Returns : return[q].status = "completed" => return'[q].status = "completed"
  BY <1>2 DEF BInv, TypeOK
<1>5. /\ request' \in [Requests -> RequestType] /\ request'[s] = t
      /\ \A u \in Requests \ {s} : request'[u] = request[u] /\ RequestSound(request[u])'
  BY <1>1, <1>2, <1>4, OthersStay DEF Become
<1>6. CreditsAlone'
  <2>1. ASSUME NEW u \in Requests \ {s}, request[u].at = "creditLines" PROVE request[u].return # r
    <3>1. return[request[u].return].status = "completed"
      BY <2>1 DEF BInv, RequestSound
    <3> QED
      BY <1>2, <3>1
  <2> QED
    BY <1>1, <1>5, <2>1 DEF BInv, CreditsAlone
<1>7. RequestSound(request[s])'
  <2>1. return'[r].status = "completed"
    BY <1>2 DEF BInv, TypeOK, ReturnType
  <2>2. ASSUME NEW c \in Credits, NEW l \in Lines PROVE credit[c].of # <<r, l>>
    <3> SUFFICES ASSUME credit[c].of = <<r, l>> PROVE FALSE
      OBVIOUS
    <3>1. credit[c].of \in Returns \X Lines /\ credit[c].of[1] = r
      OBVIOUS
    <3>2. return[credit[c].of[1]].status = "completed"
      BY <3>1 DEF BInv, ReturnCreditedOnce
    <3> QED
      BY <1>2, <3>1, <3>2
  <2> QED
    BY <1>1, <1>2, <1>5, <2>1, <2>2 DEF RequestSound
<1> HIDE DEF L
<1> QED
  BY <1>2, <1>3, <1>4, <1>5, <1>6, <1>7, ReturnWritten

-----------------------------------------------------------------------------
LEMMA DraftsAreInvoices == Draft \in InvoiceType /\ Draft.status = "draft" /\ Draft.balance = Price
BY MoneyIsNatural DEF Draft, InvoiceType

LEMMA CreateCommitKeeps ==
    ASSUME BInv, NEW s \in Requests, CreateCommit(s) PROVE BInv'
<1>1. PICK i \in Invoices : IsFirstUnused(i) /\ Commit(s, [invoice EXCEPT ![i] = Draft])
  BY DEF CreateCommit
<1>2. invoice \in [Invoices -> InvoiceType]
  BY DEF BInv, TypeOK
<1> DEFINE new == [invoice EXCEPT ![i] = Draft]
<1>3. /\ new \in [Invoices -> InvoiceType] /\ new[i].status = "draft" /\ new[i].balance = Price
      /\ \A j \in Invoices \ {i} : new[j] = invoice[j]
  BY <1>2, DraftsAreInvoices
<1>4. Commit(s, new)
  BY <1>1
<1> HIDE DEF new
<1>5. /\ \A j \in Invoices : invoice[j].status # "none" => new[j].status # "none"
      /\ \A j \in Invoices : new[j].status # "none" =>
            \/ new[j].balance = Price
            \/ invoice[j].status # "none" /\ new[j].balance = invoice[j].balance
  BY <1>3
<1> QED
  BY <1>3, <1>4, <1>5, Commits

\* IssueCommit and VoidCommit write the status of an invoice that was read.
LEMMA StatusCommitKeeps ==
    ASSUME BInv, NEW s \in Requests, NEW status \in {"issued", "void"},
           request[s].at \in {"issue", "void"},
           Commit(s, [invoice EXCEPT ![request[s].invoice].status = status])
    PROVE  BInv'
<1>1. PICK i \in Invoices : i = request[s].invoice /\ invoice[i].status # "none"
  BY RequestKinds DEF BInv, TypeOK, RequestSound
<1>2. invoice \in [Invoices -> InvoiceType]
  BY DEF BInv, TypeOK
<1> DEFINE new == [invoice EXCEPT ![i].status = status]
<1>3. /\ new \in [Invoices -> InvoiceType]
      /\ new[i].status = status /\ new[i].balance = invoice[i].balance
      /\ \A j \in Invoices \ {i} : new[j] = invoice[j]
  BY <1>2 DEF InvoiceType
<1>4. Commit(s, new)
  BY <1>1
<1> HIDE DEF new
<1>5. /\ \A j \in Invoices : invoice[j].status # "none" => new[j].status # "none"
      /\ \A j \in Invoices : new[j].status # "none" =>
            \/ new[j].balance = Price
            \/ invoice[j].status # "none" /\ new[j].balance = invoice[j].balance
  BY <1>1, <1>3
<1> QED
  BY <1>3, <1>4, <1>5, Commits

LEMMA ReissueCommitKeeps ==
    ASSUME BInv, NEW s \in Requests, ReissueCommit(s) PROVE BInv'
<1>1. PICK k \in Invoices, i \in Invoices :
        /\ k = request[s].invoice /\ invoice[k].status # "none"
        /\ invoice[i].status = "none"
        /\ Commit(s, [invoice EXCEPT ![k].status = "void", ![i] = Draft])
  <2>1. request[s].invoice \in Invoices /\ invoice[request[s].invoice].status # "none"
    BY RequestKinds DEF ReissueCommit, BInv, TypeOK, RequestSound
  <2> QED
    BY <2>1 DEF ReissueCommit, IsFirstUnused
<1>2. invoice \in [Invoices -> InvoiceType]
  BY DEF BInv, TypeOK
<1> DEFINE new == [invoice EXCEPT ![k].status = "void", ![i] = Draft]
<1>3. /\ new \in [Invoices -> InvoiceType] /\ new[i].status = "draft" /\ new[i].balance = Price
      /\ new[k].status = "void" /\ new[k].balance = invoice[k].balance
      /\ \A j \in Invoices \ {i, k} : new[j] = invoice[j]
  <2>1. i # k
    BY <1>1
  <2>2. /\ [invoice[k] EXCEPT !.status = "void"] \in InvoiceType
        /\ [invoice[k] EXCEPT !.status = "void"].status = "void"
        /\ [invoice[k] EXCEPT !.status = "void"].balance = invoice[k].balance
    BY <1>2 DEF InvoiceType
  <2>3. new = [[invoice EXCEPT ![k] = [invoice[k] EXCEPT !.status = "void"]] EXCEPT ![i] = Draft]
    BY <2>1
  <2> QED
    BY <1>2, <2>1, <2>2, <2>3, DraftsAreInvoices
<1>4. Commit(s, new)
  BY <1>1
<1> HIDE DEF new
<1>5. /\ \A j \in Invoices : invoice[j].status # "none" => new[j].status # "none"
      /\ \A j \in Invoices : new[j].status # "none" =>
            \/ new[j].balance = Price
            \/ invoice[j].status # "none" /\ new[j].balance = invoice[j].balance
  BY <1>1, <1>3
<1> QED
  BY <1>3, <1>4, <1>5, Commits

-----------------------------------------------------------------------------
LEMMA BillingStarts == Init => BInv
<1> SUFFICES ASSUME Init PROVE BInv
  OBVIOUS
<1>1. /\ \A s \in Requests : request[s] = Idle /\ request[s].at = "idle"
      /\ \A c \in Credits : credit[c] = NoCredit /\ credit[c].of = Nothing
  BY DEF Init, Idle, NoCredit
<1>2. TypeOK
  <2>1. NoInvoice \in InvoiceType /\ NoNotes \in [Invoices -> 0..Price]
    BY MoneyIsNatural DEF NoInvoice, InvoiceType, NoNotes
  <2>2. NoCredit \in CreditType
    BY <2>1 DEF NoCredit, CreditType, NotesType, Origins
  <2>3. NoReturn \in ReturnType
    BY MaxIntAssumption DEF NoReturn, ReturnType, Int32
  <2>4. NoNotes \in [Invoices -> Nat]
    BY DEF NoNotes
  <2> QED
    BY <2>1, <2>2, <2>3, <2>4, RequestsBack DEF Init, TypeOK
<1>3. SettledIsBacked
  BY DEF Init, SettledIsBacked, NoInvoice
<1>4. ReturnCreditedOnce
  BY <1>1, StaffIsNobody DEF ReturnCreditedOnce
<1>5. CreditsAlone /\ \A s \in Requests : RequestSound(request[s])
  BY <1>1 DEF CreditsAlone, RequestSound
<1> QED
  BY <1>2, <1>3, <1>4, <1>5 DEF BInv

\* Steps that only change what a request remembers.
LEMMA StartsKeep ==
    ASSUME BInv, NEW s \in Requests,
           \/ CreateInvoice(s) \/ CreateManualCredit(s) \/ RequestReturn(s) \/ Stop(s)
           \/ \E i \in Invoices : IssueInvoice(s, i) \/ VoidInvoice(s, i) \/ ReissueInvoice(s, i)
           \/ \E c \in Credits, i \in Invoices : VoidCreditNote(s, c, i)
    PROVE  BInv'
<1>1. order \in {"open", "shipped", "cancelled"}
  BY DEF BInv, TypeOK
<1>2. ASSUME NEW t \in RequestType, Start(s, t), t.at # "creditLines", RequestSound(t)
      PROVE  BInv'
  BY <1>1, <1>2, Begins DEF Start
<1>3. CASE Stop(s)
  <2>1. RequestSound(Idle) /\ Idle.at # "creditLines"
    BY RequestsBack DEF RequestSound
  <2> QED
    BY <1>1, <1>3, <2>1, RequestsBack, Begins DEF Stop
<1>4. CASE CreateInvoice(s)
  <2>1. RequestSound([at |-> "create"])
    BY DEF RequestSound
  <2> QED
    BY <1>2, <1>4, <2>1, RequestsBack DEF CreateInvoice
<1>5. CASE CreateManualCredit(s)
  <2>1. RequestSound([at |-> "credit"])
    BY DEF RequestSound
  <2> QED
    BY <1>2, <1>5, <2>1, RequestsBack DEF CreateManualCredit
<1>6. CASE RequestReturn(s)
  <2>1. PICK q \in [Lines -> Int32] : Start(s, [at |-> "return", lines |-> q])
    BY <1>6 DEF RequestReturn
  <2>2. RequestSound([at |-> "return", lines |-> q])
    BY DEF RequestSound
  <2> QED
    BY <1>2, <2>1, <2>2, RequestsBack
<1>7. ASSUME NEW i \in Invoices, IssueInvoice(s, i) \/ VoidInvoice(s, i) \/ ReissueInvoice(s, i)
      PROVE  BInv'
  <2>1. PICK a \in {"issue", "void", "reissue"} : Start(s, [at |-> a, invoice |-> i])
    BY <1>7 DEF IssueInvoice, VoidInvoice, ReissueInvoice
  <2>2. RequestSound([at |-> a, invoice |-> i])
    BY <1>7 DEF RequestSound, IssueInvoice, VoidInvoice, ReissueInvoice
  <2> QED
    BY <1>2, <2>1, <2>2, RequestsBack
<1>8. ASSUME NEW c \in Credits, NEW i \in Invoices, VoidCreditNote(s, c, i) PROVE BInv'
  <2>1. RequestSound([at |-> "voidNote", credit |-> c, invoice |-> i])
    BY DEF RequestSound
  <2> QED
    BY <1>2, <1>8, <2>1, RequestsBack DEF VoidCreditNote
<1> QED
  BY <1>3, <1>4, <1>5, <1>6, <1>7, <1>8

LEMMA StepKeeps == ASSUME BInv, NEW s \in Requests, Step(s) PROVE BInv'
<1>1. CASE IssueCommit(s)
  BY <1>1, StatusCommitKeeps DEF IssueCommit
<1>2. CASE VoidCommit(s)
  BY <1>2, StatusCommitKeeps DEF VoidCommit
<1> QED
  BY <1>1, <1>2, StartsKeep, CreateCommitKeeps, ReissueCommitKeeps, ManualCreditCommitKeeps,
     VoidNoteCommitKeeps, RequestReturnCommitKeeps, CreditLineKeeps, CompleteReturnKeeps
     DEF Step, InvoiceStep, CreditStep, ReturnStep

LEMMA BillingSteps == BInv /\ [Next]_vars => BInv'
<1> SUFFICES ASSUME BInv, [Next]_vars PROVE BInv'
  OBVIOUS
<1>1. CASE UNCHANGED vars \/ OrderMoves
  <2>1. /\ UNCHANGED <<invoice, received, credit, return, request>>
        /\ order' \in {"open", "shipped", "cancelled"}
    BY <1>1 DEF vars, OrderMoves, BInv, TypeOK
  <2>2. invoice' \in [Invoices -> InvoiceType] /\ received' \in [Invoices -> Nat]
    BY <2>1 DEF BInv, TypeOK
  <2>3. TypeOK'
    BY <2>1 DEF BInv, TypeOK
  <2>4. SettledIsBacked' /\ ReturnCreditedOnce' /\ CreditsAlone'
    BY <2>1 DEF BInv, SettledIsBacked, Credited, Applied, ReturnCreditedOnce, CreditsAlone
  <2>5. \A s \in Requests : RequestSound(request[s])'
    BY <2>1 DEF BInv, RequestSound
  <2> QED
    BY <2>3, <2>4, <2>5 DEF BInv
<1>2. CASE MoneyMoves
  <2>1. Price \in Int /\ \A amount \in 1..(Price * LastInvoice) : amount \in Int
    BY MoneyIsNatural
  <2> QED
    BY <1>2, <2>1, RecordPaymentKeeps, ReversePaymentKeeps DEF MoneyMoves
<1> QED
  BY <1>1, <1>2, StepKeeps, DecideReturnKeeps DEF Next

LEMMA BillingInvariant == Spec => []BInv
BY BillingStarts, BillingSteps, PTL DEF Spec

\* The type invariant of Billing, and with it the CHECK constraints on balances:
\* no plan of a payment, a reversal or a credit takes one below zero or lifts it
\* beyond the invoice's total.
THEOREM BillingTypeCorrect == Spec => []TypeOK
<1>1. BInv => TypeOK
  BY DEF BInv
<1> QED
  BY <1>1, BillingInvariant, PTL

\* Whatever races, a debt is settled by money or by a note, never forgiven.
THEOREM NoDebtIsForgiven == Spec => []SettledIsBacked
<1>1. BInv => SettledIsBacked
  BY DEF BInv
<1> QED
  BY <1>1, BillingInvariant, PTL

\* CompleteReturn credits each line of a return once, and only of a completed one.
THEOREM ReturnsAreCreditedOnce == Spec => []ReturnCreditedOnce
<1>1. BInv => ReturnCreditedOnce
  BY DEF BInv
<1> QED
  BY <1>1, BillingInvariant, PTL

-----------------------------------------------------------------------------
OldestOf(i) ==
    invoice'[i].balance < invoice[i].balance =>
        /\ invoice[i].status = "issued"
        /\ \A j \in 1..(i - 1) : invoice[j].status = "issued" => invoice'[j].balance = 0

\* A plan that is carried out settles the older invoices before it takes anything.
LEMMA PlansAreOldestFirst ==
    ASSUME TypeOK, NEW amount \in Int, NEW i \in Invoices,
           invoice' = [k \in Invoices |->
               [invoice[k] EXCEPT !.balance = invoice[k].balance - Taken(amount, k)]]
    PROVE  OldestOf(i)
<1>1. \A k \in Invoices : invoice'[k].balance = invoice[k].balance - Taken(amount, k)
  BY PlanCarriedOut
<1>2. \A k \in Invoices :
        /\ Taken(amount, k) \in Nat /\ Taken(amount, k) <= Owed[k] /\ Owed[k] \in Nat
        /\ invoice[k].balance \in Nat
        /\ invoice[k].status # "issued" => Owed[k] = 0
        /\ invoice[k].status = "issued" => Owed[k] = invoice[k].balance
  BY TakenBounds, OwedBounds
<1> SUFFICES ASSUME invoice'[i].balance < invoice[i].balance
             PROVE  /\ invoice[i].status = "issued"
                    /\ \A j \in 1..(i - 1) :
                         invoice[j].status = "issued" => invoice'[j].balance = 0
  BY DEF OldestOf
<1>3. Taken(amount, i) > 0
  BY <1>1, <1>2
<1>4. invoice[i].status = "issued"
  BY <1>2, <1>3
<1>5. ASSUME NEW j \in 1..(i - 1), invoice[j].status = "issued"
      PROVE  invoice'[j].balance = 0
  <2>1. j \in Invoices
    BY PriceAssumption DEF Invoices
  <2>2. Taken(amount, j) = Owed[j]
    BY <1>3, TakenInOrder
  <2>3. invoice'[j].balance = invoice[j].balance - Owed[j]
    BY <1>1, <2>1, <2>2
  <2>4. Owed[j] = invoice[j].balance /\ invoice[j].balance \in Nat
    BY <1>2, <1>5, <2>1
  <2> QED
    BY <2>3, <2>4
<1> QED
  BY <1>4, <1>5

LEMMA BalancesRise ==
    ASSUME NEW i \in Invoices, invoice[i].balance \in Nat, invoice'[i].balance \in Nat,
           invoice'[i].balance >= invoice[i].balance
    PROVE  OldestOf(i)
BY DEF OldestOf

\* A reversal only raises balances.
LEMMA ReversalsRaise ==
    ASSUME TypeOK, NEW amount \in Int, ReversePayment(amount), NEW i \in Invoices
    PROVE  OldestOf(i)
<1>1. /\ invoice \in [Invoices -> InvoiceType]
      /\ invoice[i].balance \in 0..Price /\ Restored(amount, i) \in Nat
  BY RestoredBounds DEF InvoiceType, TypeOK
<1>2. invoice'[i].balance = RestoreInvoiceBalance(invoice[i].balance, Restored(amount, i))
  BY <1>1 DEF ReversePayment, InvoiceType
<1>3. invoice'[i].balance \in 0..Price /\ invoice'[i].balance >= invoice[i].balance
  BY <1>1, <1>2, Restores
<1> QED
  BY <1>1, <1>3, MoneyIsNatural, BalancesRise

LEMMA EveryStepIsOldestFirst ==
    ASSUME BInv, [Next]_vars, NEW i \in Invoices
    PROVE  OldestOf(i)
<1> USE DEF BInv
<1>1. /\ invoice \in [Invoices -> InvoiceType] /\ TypeOK
      /\ \A k \in Invoices : invoice[k].balance \in Nat /\ invoice[k].balance <= Price
  BY OwedBounds DEF TypeOK
<1>2. CASE UNCHANGED invoice
  BY <1>1, <1>2, BalancesRise
<1>3. ASSUME NEW s \in Requests, CreateCommit(s) PROVE OldestOf(i)
  <2>1. PICK k \in Invoices : invoice' = [invoice EXCEPT ![k] = Draft]
    BY <1>3 DEF CreateCommit, Commit
  <2> QED
    BY <1>1, <2>1, DraftsAreInvoices, MoneyIsNatural, BalancesRise
<1>4. ASSUME NEW s \in Requests, IssueCommit(s) \/ VoidCommit(s) PROVE OldestOf(i)
  <2>1. invoice'[i].balance = invoice[i].balance
    BY <1>1, <1>4 DEF IssueCommit, VoidCommit, Commit, InvoiceType
  <2> QED
    BY <1>1, <2>1, BalancesRise
<1>5. ASSUME NEW s \in Requests, ReissueCommit(s) PROVE OldestOf(i)
  <2>1. PICK k \in Invoices :
          invoice' = [invoice EXCEPT ![request[s].invoice].status = "void", ![k] = Draft]
    BY <1>5 DEF ReissueCommit, Commit
  <2>2. invoice'[i].balance \in {invoice[i].balance, Price}
    BY <1>1, <2>1, DraftsAreInvoices DEF InvoiceType
  <2> QED
    BY <1>1, <2>2, MoneyIsNatural, BalancesRise
<1>6. ASSUME NEW amount \in Int, RecordPayment(amount) PROVE OldestOf(i)
  BY <1>1, <1>6, PlansAreOldestFirst DEF RecordPayment
<1>7. ASSUME NEW amount \in Int, ReversePayment(amount) PROVE OldestOf(i)
  BY <1>1, <1>7, ReversalsRaise
<1>8. ASSUME NEW c \in Credits, NEW amount \in Int, NEW of, ApplyCredit(c, amount, of)
      PROVE  OldestOf(i)
  BY <1>1, <1>8, PlansAreOldestFirst DEF ApplyCredit
<1>9. ASSUME NEW s \in Requests, VoidNoteCommit(s) PROVE OldestOf(i)
  <2>1. PICK c \in Credits, k \in Invoices :
          invoice' = [invoice EXCEPT ![k].balance =
                        RestoreInvoiceBalance(invoice[k].balance, credit[c].note[k])]
    <3>1. request[s].at = "voidNote" /\ request[s] \in RequestType
      BY <1>9 DEF VoidNoteCommit, TypeOK
    <3>2. request[s].credit \in Credits /\ request[s].invoice \in Invoices
      BY <3>1, RequestKinds
    <3> QED
      BY <1>9, <3>2 DEF VoidNoteCommit
  <2>2. credit[c].note[k] \in Nat /\ invoice[k].balance \in 0..Price
    BY <1>1, MoneyIsNatural DEF TypeOK, CreditType, NotesType, InvoiceType
  <2>3. \/ invoice'[i].balance = invoice[i].balance
        \/ k = i /\ invoice'[i].balance =
                      RestoreInvoiceBalance(invoice[k].balance, credit[c].note[k])
    BY <1>1, <2>1 DEF InvoiceType
  <2>4. CASE invoice'[i].balance = invoice[i].balance
    BY <1>1, <2>4, BalancesRise
  <2>5. CASE k = i /\ invoice'[i].balance =
                      RestoreInvoiceBalance(invoice[k].balance, credit[c].note[k])
    <3>1. invoice'[i].balance \in 0..Price /\ invoice'[i].balance >= invoice[i].balance
      BY <2>2, <2>5, Restores
    <3> QED
      BY <1>1, <3>1, MoneyIsNatural, BalancesRise
  <2> QED
    BY <2>3, <2>4, <2>5
<1>10. ASSUME NEW s \in Requests, ManualCreditCommit(s) PROVE OldestOf(i)
  BY <1>8, <1>10 DEF ManualCreditCommit
<1>11. ASSUME NEW s \in Requests, CreditLine(s) PROVE OldestOf(i)
  <2>1. PICK l \in Lines, c \in Credits :
          LET r == request[s].return
          IN  ApplyCredit(c, UnitPrice[l] * return[r].lines[l], <<r, l>>)
    BY <1>11 DEF CreditLine
  <2>2. request[s].return \in Returns
    BY <1>11, RequestKinds DEF CreditLine, TypeOK
  <2>3. UnitPrice[l] \in Nat /\ return[request[s].return].lines[l] \in Nat
    BY <2>2, LinesAssumption, MaxIntAssumption DEF TypeOK, ReturnType, Int32
  <2>4. UnitPrice[l] * return[request[s].return].lines[l] \in Int
    BY <2>3
  <2> QED
    BY <1>8, <2>1, <2>4
<1>12. ASSUME NEW s \in Requests, Step(s) PROVE OldestOf(i)
  BY <1>2, <1>3, <1>4, <1>5, <1>9, <1>10, <1>11, <1>12
     DEF Step, InvoiceStep, CreditStep, ReturnStep, Stop, Start, CreateInvoice, IssueInvoice,
         VoidInvoice, ReissueInvoice, CreateManualCredit, VoidCreditNote, RequestReturn,
         RequestReturnCommit, CompleteReturn
<1>13. CASE MoneyMoves
  <2>1. Price \in Int /\ \A amount \in 1..(Price * LastInvoice) : amount \in Int
    BY MoneyIsNatural
  <2> QED
    BY <1>6, <1>7, <1>13, <2>1 DEF MoneyMoves
<1> QED
  BY <1>2, <1>12, <1>13 DEF Next, vars, OrderMoves, DecideReturn

\* Payments and credits take from an invoice only once the older ones are settled.
THEOREM OldestInvoicesFirst == Spec => OldestFirst
<1>1. BInv /\ [Next]_vars =>
        [\A i \in Invoices : invoice'[i].balance < invoice[i].balance =>
           /\ invoice[i].status = "issued"
           /\ \A j \in 1..(i - 1) :
                invoice[j].status = "issued" => invoice'[j].balance = 0]_vars
  BY EveryStepIsOldestFirst DEF OldestOf
<1> QED
  BY <1>1, BillingInvariant, PTL DEF Spec, OldestFirst

-----------------------------------------------------------------------------
(* All of a credit is taken off the balances *)

\* What an amount takes off the balances adds up to it, if that much is owed.
LEMMA TakenAddsUp ==
    ASSUME TypeOK, NEW amount \in Nat, amount <= Total(Owed, Invoices)
    PROVE  Total([i \in Invoices |-> Taken(amount, i)], Invoices) = amount
<1> DEFINE g == [i \in Invoices |-> Taken(amount, i)]
<1>1. IsFiniteSet(Invoices) /\ Invoices \subseteq Nat
  BY InvoicesAreFinite, PriceAssumption DEF Invoices
<1>2. \A i \in Invoices : Owed[i] \in Int32
  BY OwedBounds
<1>3. ASSUME NEW i \in Invoices
      PROVE  g[i] = AtMost(Owed[i], AtLeastZero(amount
                        - Total(Owed, {j \in Invoices : j < i})))
  <2>1. {j \in Invoices : j < i} = 1..(i - 1)
    BY PriceAssumption DEF Invoices
  <2> QED
    BY <2>1 DEF Taken
<1> HIDE DEF g
<1>4. Total(g, Invoices) = AtMost(amount, Total(Owed, Invoices))
  BY <1>1, <1>2, <1>3, TotalGreedy
<1> QED
  BY <1>4 DEF g, AtMost

\* Notes do not change, nor do the lines of a return that is completed.
LEMMA NotesStand ==
    ASSUME BInv, CreditedInFull,
           \A c \in Credits : credit'[c].of = credit[c].of /\ credit'[c].note = credit[c].note,
           \A r \in Returns : return[r].status = "completed" =>
              return'[r].lines = return[r].lines
    PROVE  CreditedInFull'
<1> SUFFICES ASSUME NEW c \in Credits, NEW r \in Returns, NEW l \in Lines,
                    credit[c].of = <<r, l>>
             PROVE  Total(credit[c].note, Invoices) = UnitPrice[l] * return'[r].lines[l]
  BY DEF CreditedInFull
<1>1. return[r].status = "completed"
  <2>1. credit[c].of \in Returns \X Lines /\ credit[c].of[1] = r
    OBVIOUS
  <2> QED
    BY <2>1 DEF BInv, ReturnCreditedOnce
<1> QED
  BY <1>1 DEF CreditedInFull

LEMMA CreditIsFull ==
    ASSUME BInv, CreditedInFull, NEW c \in Credits, NEW amount \in Nat, NEW of,
           ApplyCredit(c, amount, of), return' = return,
           \A r \in Returns, l \in Lines :
              of = <<r, l>> => amount = UnitPrice[l] * return[r].lines[l]
    PROVE  CreditedInFull'
<1> DEFINE note == [i \in Invoices |-> Taken(amount, i)]
<1>1. Total(note, Invoices) = amount
  BY TakenAddsUp DEF ApplyCredit, BInv
<1>2. credit' = [credit EXCEPT ![c] = [of |-> of, note |-> note, void |-> {}]]
  BY DEF ApplyCredit
<1> HIDE DEF note
<1>3. credit'[c].of = of /\ credit'[c].note = note
  BY <1>2 DEF BInv, TypeOK
<1>4. \A d \in Credits \ {c} : credit'[d] = credit[d]
  BY <1>2 DEF BInv, TypeOK
<1> SUFFICES ASSUME NEW d \in Credits, NEW r \in Returns, NEW l \in Lines,
                    credit'[d].of = <<r, l>>
             PROVE  Total(credit'[d].note, Invoices) = UnitPrice[l] * return[r].lines[l]
  BY DEF CreditedInFull
<1>5. CASE d = c
  BY <1>1, <1>3, <1>5
<1>6. CASE d # c
  BY <1>4, <1>6 DEF CreditedInFull
<1> QED
  BY <1>5, <1>6

LEMMA FullStep ==
    ASSUME BInv, CreditedInFull, NEW s \in Requests, Step(s) PROVE CreditedInFull'
<1>1. CASE ManualCreditCommit(s)
  <2>1. PICK c \in Credits, amount \in 1..(Price * LastInvoice) :
          ApplyCredit(c, amount, Staff) /\ return' = return
    BY <1>1 DEF ManualCreditCommit
  <2>2. amount \in Nat
    OBVIOUS
  <2> QED
    BY <2>1, <2>2, CreditIsFull, StaffIsNobody
<1>2. CASE CreditLine(s)
  <2>1. PICK l \in Lines, c \in Credits, r \in Returns :
          /\ ApplyCredit(c, UnitPrice[l] * return[r].lines[l], <<r, l>>)
          /\ return' = return
    <3>1. request[s].at = "creditLines" /\ request[s] \in RequestType
      BY <1>2 DEF CreditLine, BInv, TypeOK
    <3>2. request[s].return \in Returns
      BY <3>1, RequestKinds
    <3> QED
      BY <1>2, <3>2 DEF CreditLine
  <2>2. UnitPrice[l] \in Nat /\ return[r].lines[l] \in Nat
    BY LinesAssumption, MaxIntAssumption DEF BInv, TypeOK, ReturnType, Int32
  <2>3. UnitPrice[l] * return[r].lines[l] \in Nat
    BY <2>2
  <2> QED
    BY <2>1, <2>3, CreditIsFull
<1>3. CASE VoidNoteCommit(s)
  <2>1. /\ credit' = [credit EXCEPT ![request[s].credit].void = @ \cup {request[s].invoice}]
        /\ return' = return
    BY <1>3 DEF VoidNoteCommit
  <2>2. \A c \in Credits : credit'[c].of = credit[c].of /\ credit'[c].note = credit[c].note
    BY <2>1 DEF BInv, TypeOK, CreditType
  <2> QED
    BY <2>1, <2>2, NotesStand
<1>4. CASE RequestReturnCommit(s)
  <2>1. PICK q \in Returns :
          /\ return[q] = NoReturn /\ credit' = credit
          /\ return' = [return EXCEPT ![q] =
                          [status |-> "requested", lines |-> request[s].lines]]
    BY <1>4 DEF RequestReturnCommit
  <2>2. \A r \in Returns : return[r].status = "completed" => return'[r].lines = return[r].lines
    BY <2>1 DEF BInv, TypeOK, NoReturn
  <2> QED
    BY <2>1, <2>2, NotesStand
<1>5. ASSUME NEW q \in Returns, CompleteReturn(s, q)
      PROVE  CreditedInFull'
  <2>1. return' = [return EXCEPT ![q].status = "completed"] /\ credit' = credit
    BY <1>5 DEF CompleteReturn
  <2>2. \A r \in Returns : return'[r].lines = return[r].lines
    BY <2>1 DEF BInv, TypeOK, ReturnType
  <2> QED
    BY <2>1, <2>2, NotesStand
<1>6. CASE credit' = credit /\ return' = return
  BY <1>6, NotesStand
<1> QED
  BY <1>1, <1>2, <1>3, <1>4, <1>5, <1>6
     DEF Step, InvoiceStep, CreditStep, ReturnStep, Stop, Start, Commit, CreateInvoice,
         IssueInvoice, VoidInvoice, ReissueInvoice, CreateCommit, IssueCommit, VoidCommit,
         ReissueCommit, CreateManualCredit, VoidCreditNote, RequestReturn

LEMMA FullDecision ==
    ASSUME BInv, CreditedInFull, NEW q \in Returns, DecideReturn(q) PROVE CreditedInFull'
<1>1. PICK decision \in {"approved", "rejected"} :
        return' = [return EXCEPT ![q].status = decision] /\ credit' = credit
  BY DEF DecideReturn
<1>2. \A r \in Returns : return'[r].lines = return[r].lines
  BY <1>1 DEF BInv, TypeOK, ReturnType
<1> QED
  BY <1>1, <1>2, NotesStand

LEMMA FullSteps == BInv /\ CreditedInFull /\ [Next]_vars => CreditedInFull'
<1> SUFFICES ASSUME BInv, CreditedInFull, [Next]_vars PROVE CreditedInFull'
  OBVIOUS
<1>1. CASE UNCHANGED vars \/ OrderMoves \/ MoneyMoves
  <2>1. credit' = credit /\ return' = return
    BY <1>1 DEF vars, OrderMoves, MoneyMoves, RecordPayment, ReversePayment
  <2> QED
    BY <2>1, NotesStand
<1> QED
  BY <1>1, FullStep, FullDecision DEF Next

\* The notes of a returned line sum to its price, whatever else happened to the
\* invoices it is credited on: applyCredit takes all of an amount or none of it.
THEOREM LinesAreCreditedInFull == Spec => []CreditedInFull
<1>1. Init => CreditedInFull
  BY StaffIsNobody DEF Init, CreditedInFull, NoCredit
<1> QED
  BY <1>1, FullSteps, BillingInvariant, PTL DEF Spec
=============================================================================
