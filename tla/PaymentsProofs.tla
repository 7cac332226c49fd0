--------------------------- MODULE PaymentsProofs ---------------------------
(***************************************************************************)
(* Theorems about Payments, for any invoices, intents, refunds, clerks and *)
(* requests, on top of those about Billing and Settlement; and about       *)
(* Accounts and Promotions.                                                *)
(*                                                                         *)
(* Every step of Payments leaves the intents or moves them as Settlement   *)
(* does, and moves the invoices as Billing does.  An allocation is the     *)
(* step of both: its intent has succeeded and was not allocated before, so *)
(* the invoices receive one price more and one intent more has paid.       *)
(***************************************************************************)
EXTENDS MCPayments, BillingProofs, SettlementProofs

\* A refund that can no longer be rejected.
Stands(row) == row.status \in {"approved", "applied"}

RefundsTypeOK ==
    /\ refund \in [Refunds -> RefundType]
    /\ reversals \in [Refunds -> Nat]
    /\ seconded \subseteq Refunds
    /\ desk \in [Desks -> DeskType]

RInv ==
    /\ RefundsTypeOK
    /\ \A f \in Refunds : Stands(refund[f]) /\ refund[f].amount >= Threshold => f \in seconded
    /\ \A f \in Refunds : reversals[f] > 0 => Stands(refund[f])
    /\ \A d \in Desks : desk[d].at \in {"reverse", "applied"} => Stands(refund[desk[d].refund])

Paid ==
    /\ PaidByIntents
    /\ \A i \in Invoices : received[i] <= Price * Cardinality(Intents)

PInv == BInv /\ SInv /\ RInv /\ Paid

-----------------------------------------------------------------------------
(* Refunds *)

LEMMA DeskKinds ==
    ASSUME NEW t \in DeskType
    PROVE  /\ t.at = "refund" => t.intent \in Intents /\ t.by \in Clerks /\ t.amount \in Nat
           /\ t.at \in {"reverse", "applied"} => t.refund \in Refunds
BY DEF DeskType, Idle

LEMMA DesksBack ==
    /\ Idle \in DeskType /\ Idle.at = "idle"
    /\ \A i \in Intents, by \in Clerks, n \in Nat :
          [at |-> "refund", intent |-> i, by |-> by, amount |-> n] \in DeskType
    /\ \A x \in {"reverse", "applied"}, f \in Refunds :
          [at |-> x, refund |-> f] \in DeskType
BY DEF DeskType, Idle

\* A refund that has been restored stays approved or applied, a large one seconded.
LEMMA RefundsKept ==
    ASSUME RInv, refund' \in [Refunds -> RefundType], seconded \subseteq seconded',
           seconded' \subseteq Refunds, reversals' = reversals,
           \A f \in Refunds : Stands(refund[f]) => Stands(refund'[f]),
           \A f \in Refunds : Stands(refund'[f]) /\ refund'[f].amount >= Threshold => f \in seconded',
           NEW d \in Desks, NEW t \in DeskType, Reply(d, t),
           t.at \in {"reverse", "applied"} => Stands(refund'[t.refund])
    PROVE  RInv'
<1>1. desk' = [desk EXCEPT ![d] = t] /\ desk \in [Desks -> DeskType]
  BY DEF Reply, RInv, RefundsTypeOK
<1>2. RefundsTypeOK'
  BY <1>1 DEF RInv, RefundsTypeOK
<1>3. \A f \in Refunds : reversals'[f] > 0 => Stands(refund'[f])
  BY DEF RInv
<1>4. ASSUME NEW e \in Desks, desk'[e].at \in {"reverse", "applied"}
      PROVE  Stands(refund'[desk'[e].refund])
  <2>1. CASE e = d
    BY <1>1, <1>4, <2>1
  <2>2. CASE e # d
    <3>1. desk'[e] = desk[e] /\ desk[e] \in DeskType
      BY <1>1, <2>2
    <3>2. desk[e].refund \in Refunds /\ Stands(refund[desk[e].refund])
      BY <1>4, <3>1, DeskKinds DEF RInv
    <3> QED
      BY <3>1, <3>2
  <2> QED
    BY <2>1, <2>2
<1> QED
  BY <1>2, <1>3, <1>4 DEF RInv
LEMMA RequestRefundKeeps ==
    ASSUME RInv, NEW d \in Desks, NEW i \in Intents, NEW by \in Clerks, NEW n \in 1..Price,
           RequestRefund(d, i, by, n)
    PROVE  RInv'
<1>1. n \in Nat
  OBVIOUS
<1>2. /\ Reply(d, [at |-> "refund", intent |-> i, by |-> by, amount |-> n])
      /\ UNCHANGED <<refund, reversals, seconded>>
  BY DEF RequestRefund
<1>3. [at |-> "refund", intent |-> i, by |-> by, amount |-> n] \in DeskType
  BY <1>1, DesksBack
<1> QED
  BY <1>2, <1>3, RefundsKept DEF RInv, RefundsTypeOK

LEMMA RequestRefundCommitKeeps ==
    ASSUME RInv, NEW d \in Desks, RequestRefundCommit(d) PROVE RInv'
<1> DEFINE row == [status |-> IF desk[d].amount >= Threshold THEN "pending" ELSE "approved",
                  intent |-> desk[d].intent, amount |-> desk[d].amount, by |-> desk[d].by]
<1>1. desk[d] \in DeskType
  BY DEF RInv, RefundsTypeOK
<1>2. PICK f \in Refunds :
        /\ refund[f] = NoRefund /\ refund' = [refund EXCEPT ![f] = row]
        /\ Reply(d, Idle) /\ UNCHANGED <<reversals, seconded>> /\ desk[d].at = "refund"
  BY DEF RequestRefundCommit
<1>3. /\ desk[d].intent \in Intents /\ desk[d].by \in Clerks /\ desk[d].amount \in Nat
      /\ refund \in [Refunds -> RefundType]
  BY <1>1, <1>2, DeskKinds DEF RInv, RefundsTypeOK
<1>4. /\ row \in RefundType /\ row.amount = desk[d].amount
      /\ row.status = IF row.amount >= Threshold THEN "pending" ELSE "approved"
  BY <1>3 DEF RefundType
<1> HIDE DEF row
<1>5. /\ refund' \in [Refunds -> RefundType] /\ refund'[f] = row
      /\ \A g \in Refunds \ {f} : refund'[g] = refund[g]
  BY <1>2, <1>3, <1>4
<1>6. ~Stands(refund[f])
  BY <1>2 DEF NoRefund, Stands
<1>7. \A g \in Refunds : Stands(refund[g]) => Stands(refund'[g])
  BY <1>5, <1>6
<1>8. \A g \in Refunds : Stands(refund'[g]) /\ refund'[g].amount >= Threshold => g \in seconded'
  <2>1. ~(Stands(row) /\ row.amount >= Threshold)
    BY <1>4 DEF Stands
  <2> QED
    BY <1>2, <1>5, <2>1 DEF RInv
<1> QED
  BY <1>2, <1>5, <1>7, <1>8, DesksBack, RefundsKept DEF RInv, RefundsTypeOK

\* A refund's status is written; a large one that stands has been seconded.
LEMMA StatusKept ==
    ASSUME RInv, NEW f \in Refunds, NEW status \in {"approved", "applied"},
           refund' = [refund EXCEPT ![f].status = status],
           refund[f].amount >= Threshold => f \in seconded',
           seconded \subseteq seconded', seconded' \subseteq Refunds, reversals' = reversals,
           NEW d \in Desks, NEW t \in DeskType, Reply(d, t),
           t.at \in {"reverse", "applied"} => t.refund = f
    PROVE  RInv'
<1>1. refund \in [Refunds -> RefundType]
  BY DEF RInv, RefundsTypeOK
<1>2. /\ refund' \in [Refunds -> RefundType]
      /\ refund'[f].status = status /\ refund'[f].amount = refund[f].amount
      /\ \A g \in Refunds \ {f} : refund'[g] = refund[g]
  BY <1>1 DEF RefundType
<1>3. Stands(refund'[f])
  BY <1>2 DEF Stands
<1>4. \A g \in Refunds : Stands(refund[g]) => Stands(refund'[g])
  BY <1>2, <1>3
<1>5. \A g \in Refunds : Stands(refund'[g]) /\ refund'[g].amount >= Threshold => g \in seconded'
  BY <1>2 DEF RInv
<1> QED
  BY <1>2, <1>3, <1>4, <1>5, RefundsKept

LEMMA ApproveRefundKeeps ==
    ASSUME RInv, NEW d \in Desks, NEW f \in Refunds, NEW by \in Clerks, ApproveRefund(d, f, by)
    PROVE  RInv'
<1> DEFINE t == [at |-> "reverse", refund |-> f]
<1>1. t \in DeskType /\ t.refund = f
  BY DesksBack
<1>2. /\ refund' = [refund EXCEPT ![f].status = "approved"] /\ Reply(d, t)
      /\ seconded' = (IF by # refund[f].by THEN seconded \cup {f} ELSE seconded)
      /\ reversals' = reversals /\ MayApprove(f, by)
  BY DEF ApproveRefund
<1>3. seconded \subseteq seconded' /\ seconded' \subseteq Refunds
  BY <1>2 DEF RInv, RefundsTypeOK
<1>4. refund[f].amount >= Threshold => f \in seconded'
  <2>1. CASE refund[f].status = "approved"
    BY <1>3, <2>1 DEF RInv, Stands
  <2>2. CASE refund[f].amount >= Threshold => refund[f].by # by
    BY <1>2, <2>2
  <2> QED
    BY <1>2, <2>1, <2>2 DEF MayApprove
<1> HIDE DEF t
<1> QED
  BY <1>1, <1>2, <1>3, <1>4, StatusKept

LEMMA RefundAppliedKeeps ==
    ASSUME RInv, NEW d \in Desks, RefundApplied(d) PROVE RInv'
<1>1. /\ desk[d].at = "applied" /\ desk[d] \in DeskType /\ seconded \subseteq Refunds
      /\ refund' = [refund EXCEPT ![desk[d].refund].status = "applied"]
      /\ Reply(d, Idle) /\ UNCHANGED <<reversals, seconded>>
  BY DEF RefundApplied, RInv, RefundsTypeOK
<1>2. desk[d].refund \in Refunds /\ Stands(refund[desk[d].refund])
  BY <1>1, DeskKinds DEF RInv
<1>3. refund[desk[d].refund].amount >= Threshold => desk[d].refund \in seconded'
  BY <1>1, <1>2 DEF RInv
<1> QED
  BY <1>1, <1>2, <1>3, DesksBack, StatusKept

LEMMA GiveUpKeeps == ASSUME RInv, NEW d \in Desks, GiveUp(d) PROVE RInv'
BY DesksBack, RefundsKept DEF GiveUp, RInv, RefundsTypeOK

\* Only what waits is rejected, and no desk restores anything for it.
LEMMA RejectRefundKeeps == ASSUME RInv, NEW f \in Refunds, RejectRefund(f) PROVE RInv'
<1>1. /\ refund \in [Refunds -> RefundType]
      /\ refund[f].status = "pending" /\ ~Stands(refund[f])
      /\ refund' = [refund EXCEPT ![f].status = "rejected"]
      /\ UNCHANGED <<reversals, seconded, desk>>
  BY DEF RejectRefund, Stands, RInv, RefundsTypeOK
<1>2. /\ refund' \in [Refunds -> RefundType] /\ ~Stands(refund'[f])
      /\ \A g \in Refunds \ {f} : refund'[g] = refund[g]
  BY <1>1 DEF RefundType, Stands
<1>3. RefundsTypeOK'
  BY <1>1, <1>2 DEF RInv, RefundsTypeOK
<1>4. \A d \in Desks : desk[d].at \in {"reverse", "applied"} =>
        desk[d].refund \in Refunds /\ desk[d].refund # f
  BY <1>1, DeskKinds DEF RInv, RefundsTypeOK
<1>5. \A g \in Refunds : Stands(refund'[g]) /\ refund'[g].amount >= Threshold => g \in seconded'
  BY <1>1, <1>2 DEF RInv
<1>6. \A g \in Refunds : reversals'[g] > 0 => Stands(refund'[g])
  BY <1>1, <1>2 DEF RInv
<1>7. \A d \in Desks : desk'[d].at \in {"reverse", "applied"} => Stands(refund'[desk'[d].refund])
  BY <1>1, <1>2, <1>4 DEF RInv
<1> QED
  BY <1>3, <1>5, <1>6, <1>7 DEF RInv

LEMMA ReverseRefundKeeps == ASSUME RInv, NEW d \in Desks, ReverseRefund(d) PROVE RInv'
<1> DEFINE f == desk[d].refund
           t == [desk[d] EXCEPT !.at = "applied"]
<1>1. /\ desk[d].at = "reverse" /\ desk \in [Desks -> DeskType]
      /\ desk' = [desk EXCEPT ![d] = t]
      /\ reversals' = [reversals EXCEPT ![f] = reversals[f] + 1]
      /\ UNCHANGED <<refund, seconded>>
  BY DEF ReverseRefund, Reply, RInv, RefundsTypeOK
<1>2. f \in Refunds /\ Stands(refund[f])
  BY <1>1, DeskKinds DEF RInv
<1>3. t \in DeskType /\ t.at = "applied" /\ t.refund = f
  <2>1. desk[d] \in [at : {"reverse", "applied"}, refund : Refunds]
    BY <1>1 DEF DeskType, Idle
  <2> QED
    BY <2>1 DEF DeskType
<1>4. reversals' \in [Refunds -> Nat] /\ \A g \in Refunds \ {f} : reversals'[g] = reversals[g]
  BY <1>1, <1>2 DEF RInv, RefundsTypeOK
<1> HIDE DEF t
<1>5. RefundsTypeOK'
  BY <1>1, <1>3, <1>4 DEF RInv, RefundsTypeOK
<1>6. \A g \in Refunds : reversals'[g] > 0 => Stands(refund'[g])
  BY <1>1, <1>2, <1>4 DEF RInv
<1>7. \A e \in Desks : desk'[e].at \in {"reverse", "applied"} => Stands(refund'[desk'[e].refund])
  <2>1. desk'[d] = t /\ \A e \in Desks \ {d} : desk'[e] = desk[e]
    BY <1>1
  <2> QED
    BY <1>1, <1>2, <1>3, <2>1 DEF RInv
<1>8. \A g \in Refunds : Stands(refund'[g]) /\ refund'[g].amount >= Threshold => g \in seconded'
  BY <1>1 DEF RInv
<1> QED
  BY <1>5, <1>6, <1>7, <1>8 DEF RInv

-----------------------------------------------------------------------------
(* Money: sums of what the invoices have received *)

Wide == INSTANCE CountingProofs WITH MaxInt <- Price * Cardinality(Intents)

LEMMA WideFinite == \A S : IsFiniteSet(S) => Wide!IsFiniteSet(S)
BY Zenon DEF IsFiniteSet, Wide!IsFiniteSet

LEMMA WideNat == Cardinality(Intents) \in Nat /\ Price * Cardinality(Intents) \in Nat
<1>1. Cardinality(Intents) \in Nat
  BY IntentsAssumption, FS_CardinalityType
<1> QED
  BY <1>1, MoneyIsNatural

LEMMA WideTotal == \A f, S : Money!Total(f, S) = Wide!Total(f, S)
<1>1. \A S : Money!Cardinality(S) = Wide!Cardinality(S)
  BY Zenon DEF Money!Cardinality, Wide!Cardinality
<1>2. \A f, S : Money!Units(f, S) = Wide!Units(f, S)
  BY DEF Money!Units, Wide!Units
<1> QED
  BY <1>1, <1>2 DEF Money!Total, Wide!Total

\* Values that fit both add up to the same.
LEMMA WideSame ==
    ASSUME NEW f, NEW S, \A x \in S : f[x] \in Int32 /\ f[x] \in Wide!Int32
    PROVE  Wide!Total(f, S) = Total(f, S)
<1>1. \A T : Cardinality(T) = Wide!Cardinality(T)
  BY Zenon DEF Cardinality, Wide!Cardinality
<1>2. \A x \in S : \A n \in Nat : n <= f[x] =>
        n <= MaxInt /\ n <= Price * Cardinality(Intents)
  BY WideNat, MaxIntAssumption DEF Int32, Wide!Int32
<1>3. Units(f, S) = Wide!Units(f, S)
  BY <1>2, WideNat, MaxIntAssumption DEF Units, Wide!Units
<1> QED
  BY <1>1, <1>3 DEF Total, Wide!Total

\* The intents that have been allocated.
PaidIntents == {i \in Intents : allocated[i] > 0}

LEMMA PaidIntentsFinite == IsFiniteSet(PaidIntents) /\ Cardinality(PaidIntents) \in Nat
BY IntentsAssumption, FS_Subset, FS_CardinalityType DEF PaidIntents

\* The intent that is allocated has not paid before: there is one more of those
\* that have, and no more than there are intents.
LEMMA AllocationCounts ==
    ASSUME SInv, NEW c \in Calls, AllocatePayment(c)
    PROVE  /\ Cardinality(PaidIntents') = Cardinality(PaidIntents) + 1
           /\ Cardinality(PaidIntents') <= Cardinality(Intents)
<1> DEFINE i == call[c].intent
<1>1. i \in Intents /\ call[c].at = "allocate"
  BY CallKinds DEF AllocatePayment, SInv, SettlementTypeOK
<1>2. allocated[i] = 0 /\ allocated' = [allocated EXCEPT ![i] = allocated[i] + 1]
  BY <1>1 DEF AllocatePayment, Allocates, SInv, AllocatesOnce
<1>3. allocated'[i] = 1 /\ \A j \in Intents \ {i} : allocated'[j] = allocated[j]
  BY <1>1, <1>2 DEF SInv, SettlementTypeOK
<1> HIDE DEF i
<1>4. PaidIntents' = PaidIntents \cup {i} /\ i \notin PaidIntents
  BY <1>1, <1>2, <1>3 DEF PaidIntents
<1>5. PaidIntents' \subseteq Intents
  BY DEF PaidIntents
<1> QED
  BY <1>4, <1>5, PaidIntentsFinite, IntentsAssumption, FS_AddElement, FS_Subset

LEMMA AllocationPays ==
    ASSUME BInv, SInv, Paid, NEW c \in Calls, Allocate(c), SInv'
    PROVE  Paid'
<1> DEFINE take == [j \in Invoices |-> Taken(Price, j)]
           A == Cardinality(PaidIntents)
           N == Cardinality(Intents)
<1>1. /\ AllocatePayment(c) /\ RecordPayment(Price)
      /\ received' = [j \in Invoices |-> received[j] + Taken(Price, j)]
      /\ Price <= Total(Owed, Invoices)
  BY DEF Allocate, RecordPayment
<1>2. A \in Nat /\ N \in Nat /\ A + 1 <= N /\ Cardinality(PaidIntents') = A + 1
  BY <1>1, AllocationCounts, PaidIntentsFinite, WideNat
<1>3. Price \in Nat /\ Price <= MaxInt
  BY PriceAssumption
<1>4. /\ Price * A \in Nat /\ Price * A + Price = Price * (A + 1)
      /\ Price * (A + 1) <= Price * N /\ Price <= Price * N
  <2>1. PICK k \in Nat : N = A + 1 + k
    <3>1. N - (A + 1) \in Nat /\ N = A + 1 + (N - (A + 1))
      BY <1>2
    <3> QED
      BY <3>1
  <2>2. Price * A \in Nat /\ Price * k \in Nat
    BY <1>2, <1>3
  <2>3. Price * (A + 1) = Price * A + Price
    BY <1>2, <1>3
  <2>4. Price * (A + 1 + k) = Price * (A + 1) + Price * k
    BY <1>2, <1>3
  <2> HIDE DEF A, N
  <2> QED
    BY <2>1, <2>2, <2>3, <2>4, <1>3
<1>5. \A j \in Invoices : take[j] \in Nat /\ take[j] <= Price
  BY TakenBounds, <1>3 DEF BInv
<1>6. IsFiniteSet(Invoices)
  BY InvoicesAreFinite
<1>7. Total(take, Invoices) = Price
  BY <1>1, <1>3, TakenAddsUp DEF BInv
<1> HIDE DEF take, A, N
<1>8. \A j \in Invoices : take[j] \in Int32 /\ take[j] \in Wide!Int32
  BY <1>3, <1>4, <1>5, WideNat, MaxIntAssumption DEF Int32, Wide!Int32, N
<1>9. Wide!Total(take, Invoices) = Price
  BY <1>7, <1>8, WideSame
<1>10. \A j \in Invoices : received[j] \in Nat /\ received[j] \in Wide!Int32
  BY WideNat DEF Paid, Wide!Int32, BInv, TypeOK
<1>11. Wide!Total(received, Invoices) = Price * A
  BY WideTotal DEF Paid, PaidByIntents, PaidIntents, A
<1>12. \A j \in Invoices : received[j] <= Price * A
  <2> SUFFICES ASSUME NEW j \in Invoices PROVE received[j] <= Price * A
    OBVIOUS
  <2>1. {} \subseteq Invoices /\ j \in Invoices \ {}
    OBVIOUS
  <2>2. Wide!Total(received, Invoices) >= Wide!Total(received, {}) + received[j]
    BY <1>6, <1>10, <2>1, WideNat, WideFinite, Wide!TotalMonotone
  <2>3. Wide!Total(received, {}) = 0
    BY WideNat, Wide!TotalZero
  <2> QED
    BY <1>4, <1>10, <1>11, <2>2, <2>3
<1>13. \A j \in Invoices : /\ received'[j] = received[j] + take[j]
                           /\ received'[j] \in Nat /\ received'[j] <= Price * N
  <2> SUFFICES ASSUME NEW j \in Invoices
               PROVE  /\ received'[j] = received[j] + take[j]
                      /\ received'[j] \in Nat /\ received'[j] <= Price * N
    OBVIOUS
  <2>1. received'[j] = received[j] + take[j]
    BY <1>1 DEF take
  <2>2. take[j] \in Nat /\ take[j] <= Price /\ received[j] \in Nat /\ received[j] <= Price * A
    BY <1>5, <1>10, <1>12
  <2> QED
    BY <1>2, <1>3, <1>4, <2>1, <2>2
<1>14. \A j \in Invoices : received'[j] \in Wide!Int32
  BY <1>13, WideNat DEF Wide!Int32, N
<1>15. Wide!Total(received', Invoices) = Wide!Total(received, Invoices) + Wide!Total(take, Invoices)
  BY <1>6, <1>8, <1>10, <1>13, <1>14, WideNat, WideFinite, Wide!TotalAdd
<1>16. Wide!Total(received', Invoices) = Price * Cardinality(PaidIntents')
  BY <1>2, <1>4, <1>9, <1>11, <1>15
<1>17. \A i \in PaidIntents' : intent'[i] = "succeeded"
  BY DEF PaidIntents, SInv, SettledOnce, SettlementTypeOK
<1>18. PaidByIntents'
  BY <1>16, <1>17, WideTotal DEF PaidByIntents, PaidIntents
<1> QED
  BY <1>13, <1>18 DEF Paid, N

-----------------------------------------------------------------------------
(* Payments *)

LEMMA PaymentsStart == PaymentsInit => PInv
<1> SUFFICES ASSUME PaymentsInit PROVE PInv
  OBVIOUS
<1>1. BInv /\ SInv
  BY BillingStarts, SettlementStarts DEF PaymentsInit
<1>2. RInv
  <2>1. NoRefund \in RefundType /\ ~Stands(NoRefund)
    BY DEF NoRefund, RefundType, Stands
  <2>2. /\ \A f \in Refunds : refund[f] = NoRefund /\ reversals[f] = 0
        /\ \A d \in Desks : desk[d] = Idle
        /\ RefundsTypeOK
    BY <2>1, DesksBack DEF PaymentsInit, RefundsTypeOK
  <2> QED
    BY <2>1, <2>2, DesksBack DEF RInv
<1>3. \A i \in Invoices : received[i] = 0
  BY DEF PaymentsInit, Init, NoNotes
<1>4. Wide!Total(received, Invoices) = 0
  BY <1>3, WideNat, Wide!TotalZero
<1>5. \A i \in Intents : allocated[i] = 0
  BY DEF PaymentsInit, SettlementInit
<1>6. PaidIntents = {} /\ Cardinality(PaidIntents) = 0
  BY <1>5, FS_EmptySet DEF PaidIntents
<1>7. Price * Cardinality(PaidIntents) = 0
  BY <1>6, MoneyIsNatural
<1>8. PaidByIntents
  BY <1>4, <1>6, <1>7, WideTotal DEF PaidByIntents, PaidIntents
<1>9. Paid
  BY <1>3, <1>8, WideNat DEF Paid
<1> QED
  BY <1>1, <1>2, <1>9 DEF PInv

LEMMA PaidStays == Paid /\ SInv' /\ UNCHANGED <<received, allocated>> => Paid'
<1> SUFFICES ASSUME Paid, SInv', UNCHANGED <<received, allocated>> PROVE Paid'
  OBVIOUS
<1>1. \A i \in PaidIntents' : intent'[i] = "succeeded"
  BY DEF PaidIntents, SInv, SettledOnce, SettlementTypeOK
<1>2. PaidIntents' = PaidIntents
  BY DEF PaidIntents
<1> QED
  BY <1>1, <1>2, WideTotal DEF Paid, PaidByIntents, PaidIntents

LEMMA RInvStays == RInv /\ UNCHANGED refunds => RInv'
BY DEF RInv, RefundsTypeOK, refunds

LEMMA IntentsMoveKeeps == PInv /\ IntentsMove => PInv'
<1> SUFFICES ASSUME PInv, IntentsMove PROVE PInv'
  OBVIOUS
<1>1. UNCHANGED vars /\ UNCHANGED refunds /\ received' = received
  BY DEF IntentsMove, vars
<1>2. SettlementNext
  BY DEF IntentsMove, SettlementNext
<1>3. allocated' = allocated
  <2>1. \A c \in Calls : WebhookStep(c) => allocated' = allocated
    BY DEF WebhookStep, ApplyWebhook, WebhookMarks, WebhookConverges, WebhookAnswers
  <2>2. \A c \in Calls : CreateIntentCommit(c) \/ Fail(c) => allocated' = allocated
    BY DEF CreateIntentCommit, Fail
  <2>3. \A c \in Calls, i \in Intents : CreateIntent(c, i) => allocated' = allocated
    BY DEF CreateIntent
  <2>4. \A c \in Calls, i \in Intents, o \in Terminal : MarkIntent(c, i, o) => allocated' = allocated
    BY DEF MarkIntent
  <2>5. \A c \in Calls, e \in Events : Deliver(c, e) => allocated' = allocated
    BY DEF Deliver
  <2> QED
    BY <2>1, <2>2, <2>3, <2>4, <2>5 DEF IntentsMove
<1> QED
  BY <1>1, <1>2, <1>3, BillingSteps, SettlementSteps, RInvStays, PaidStays DEF PInv

LEMMA InvoicesMoveKeeps == PInv /\ InvoicesMove => PInv'
<1> SUFFICES ASSUME PInv, InvoicesMove PROVE PInv'
  OBVIOUS
<1>1. UNCHANGED settlementVars /\ UNCHANGED refunds /\ allocated' = allocated
  BY DEF InvoicesMove, settlementVars
<1>2. BInv'
  BY BillingSteps DEF InvoicesMove, Next, PInv
<1>3. received' = received
  <2>1. \A s \in Requests : InvoiceStep(s) \/ Stop(s) => received' = received
    BY DEF InvoiceStep, Stop, Start, Commit, CreateInvoice, IssueInvoice, VoidInvoice,
           ReissueInvoice, CreateCommit, IssueCommit, VoidCommit, ReissueCommit
  <2>2. \A s \in Requests : CreditStep(s) => received' = received
    BY DEF CreditStep, Start, Commit, CreateManualCredit, ManualCreditCommit, VoidCreditNote,
           VoidNoteCommit, ApplyCredit
  <2>3. \A s \in Requests : ReturnStep(s) => received' = received
    BY DEF ReturnStep, Start, Commit, RequestReturn, RequestReturnCommit, CreditLine,
           CompleteReturn, ApplyCredit
  <2>4. OrderMoves \/ (\E r \in Returns : DecideReturn(r)) => received' = received
    BY DEF OrderMoves, DecideReturn
  <2> QED
    BY <2>1, <2>2, <2>3, <2>4 DEF InvoicesMove, Step
<1> QED
  BY <1>1, <1>2, <1>3, SettlementSteps, RInvStays, PaidStays DEF PInv

LEMMA RefundsMoveKeeps == PInv /\ RefundsMove => PInv'
<1> SUFFICES ASSUME PInv, RefundsMove PROVE PInv'
  OBVIOUS
<1>1. UNCHANGED vars /\ UNCHANGED settlementVars /\ UNCHANGED <<received, allocated>>
  BY DEF RefundsMove, vars, settlementVars
<1>2. RInv'
  BY RequestRefundKeeps, RequestRefundCommitKeeps, ApproveRefundKeeps, RefundAppliedKeeps,
     GiveUpKeeps, RejectRefundKeeps DEF RefundsMove, PInv
<1> QED
  BY <1>1, <1>2, BillingSteps, SettlementSteps, PaidStays DEF PInv

LEMMA AllocateKeeps == ASSUME PInv, NEW c \in Calls, Allocate(c) PROVE PInv'
<1>1. AllocatePayment(c) /\ RecordPayment(Price) /\ UNCHANGED request /\ UNCHANGED refunds
  BY DEF Allocate
<1>2. BInv'
  BY <1>1, MoneyIsNatural, RecordPaymentKeeps DEF PInv
<1>3. SInv'
  BY <1>1, AllocatePaymentKeeps DEF PInv
<1> QED
  BY <1>1, <1>2, <1>3, AllocationPays, RInvStays DEF PInv

LEMMA ReverseKeeps == ASSUME PInv, NEW d \in Desks, ReverseRefund(d) PROVE PInv'
<1>1. /\ ReversePayment(refund[desk[d].refund].amount) /\ UNCHANGED request
      /\ UNCHANGED settlementVars /\ UNCHANGED <<received, allocated>>
      /\ desk[d].at = "reverse" /\ desk[d] \in DeskType /\ refund \in [Refunds -> RefundType]
  BY DEF ReverseRefund, ReversePayment, settlementVars, PInv, RInv, RefundsTypeOK
<1>2. refund[desk[d].refund].amount \in Int
  BY <1>1, DeskKinds DEF RefundType
<1>3. BInv'
  BY <1>1, <1>2, ReversePaymentKeeps DEF PInv
<1> QED
  BY <1>1, <1>3, SettlementSteps, ReverseRefundKeeps, PaidStays DEF PInv

LEMMA PaymentsSteps == PInv /\ [PaymentsNext]_paymentsVars => PInv'
<1>1. ASSUME PInv, UNCHANGED paymentsVars PROVE PInv'
  <2>1. UNCHANGED vars /\ UNCHANGED settlementVars /\ UNCHANGED refunds
        /\ UNCHANGED <<received, allocated>>
    BY <1>1 DEF paymentsVars, vars, settlementVars, refunds
  <2> QED
    BY <1>1, <2>1, BillingSteps, SettlementSteps, RInvStays, PaidStays DEF PInv
<1> QED
  BY <1>1, IntentsMoveKeeps, InvoicesMoveKeeps, RefundsMoveKeeps, AllocateKeeps, ReverseKeeps
     DEF PaymentsNext

LEMMA PaymentsInvariant == PaymentsSpec => []PInv
BY PaymentsStart, PaymentsSteps, PTL DEF PaymentsSpec

\* The type invariant of the composition of Billing, Settlement and refunds.
THEOREM PaymentsTypeCorrect == PaymentsSpec => []PaymentsTypeOK
<1>1. PInv => PaymentsTypeOK
  BY DEF PInv, BInv, SInv, RInv, RefundsTypeOK, PaymentsTypeOK
<1> QED
  BY <1>1, PaymentsInvariant, PTL

\* The invoices have received the order's total once for each intent that was
\* allocated, and each of these has succeeded: an allocation that fails takes
\* nothing off any invoice, and no intent is allocated a second time.
THEOREM InvoicesPaidByIntents == PaymentsSpec => []PaidByIntents
<1>1. PInv => PaidByIntents
  BY DEF PInv, Paid
<1> QED
  BY <1>1, PaymentsInvariant, PTL

\* ReverseRefund finds a refund that was approved and that RejectRefund leaves
\* alone, and a large one that somebody else than the requester approved.
THEOREM RefundsAreApproved == PaymentsSpec => []ReversalsAreApproved
<1>1. PInv => ReversalsAreApproved
  BY DEF PInv, RInv, Stands, ReversalsAreApproved
<1> QED
  BY <1>1, PaymentsInvariant, PTL

\* What holds of the invoices and of the intents alone holds when payments,
\* allocations and refunds move both: no debt is forgiven, no line credited
\* twice, no intent settled twice and no event applied against its intent.
THEOREM PaymentsKeepTheBooks ==
    PaymentsSpec => [](SettledIsBacked /\ ReturnCreditedOnce /\ SettledOnce /\ AppliedIsTrue)
<1>1. PInv => SettledIsBacked /\ ReturnCreditedOnce /\ SettledOnce /\ AppliedIsTrue
  BY DEF PInv, BInv, SInv
<1> QED
  BY <1>1, PaymentsInvariant, PTL

\* Payments moves the intents as Settlement alone does.
LEMMA PaymentsStepIntents == [PaymentsNext]_paymentsVars => [SettlementNext]_settlementVars
<1> SUFFICES ASSUME PaymentsNext, ~UNCHANGED settlementVars PROVE SettlementNext
  BY DEF paymentsVars
<1>1. CASE IntentsMove
  BY <1>1 DEF IntentsMove, SettlementNext
<1>2. ASSUME NEW c \in Calls, Allocate(c) PROVE SettlementNext
  BY <1>2 DEF Allocate, SettlementNext
<1> QED
  BY <1>1, <1>2 DEF PaymentsNext, InvoicesMove, RefundsMove, ReverseRefund

\* The composition implements Settlement without its fairness: whatever
\* allocations and refunds do, intents and events move as they do alone.
THEOREM PaymentsImplementsSettlement ==
    PaymentsSpec => SettlementInit /\ [][SettlementNext]_settlementVars
<1>1. PaymentsInit => SettlementInit
  BY DEF PaymentsInit
<1> QED
  BY <1>1, PaymentsStepIntents, PTL DEF PaymentsSpec

\* What an allocation takes off the invoices, it takes off the oldest first.
LEMMA PaymentsStepInvoices ==
    ASSUME PInv, [PaymentsNext]_paymentsVars
    PROVE  \/ [Next]_vars
           \/ RecordPayment(Price)
           \/ \E amount \in Int : ReversePayment(amount)
<1>1. CASE UNCHANGED paymentsVars \/ IntentsMove \/ RefundsMove
  BY <1>1 DEF paymentsVars, IntentsMove, RefundsMove
<1>2. CASE InvoicesMove
  BY <1>2 DEF InvoicesMove, Next
<1>3. ASSUME NEW c \in Calls, Allocate(c) PROVE RecordPayment(Price)
  BY <1>3 DEF Allocate
<1>4. ASSUME NEW d \in Desks, ReverseRefund(d)
      PROVE  \E amount \in Int : ReversePayment(amount)
  <2>1. /\ ReversePayment(refund[desk[d].refund].amount)
        /\ desk[d].at = "reverse" /\ desk[d] \in DeskType /\ refund \in [Refunds -> RefundType]
    BY <1>4 DEF ReverseRefund, PInv, RInv, RefundsTypeOK
  <2>2. refund[desk[d].refund].amount \in Int
    BY <2>1, DeskKinds DEF RefundType
  <2> QED
    BY <2>1, <2>2
<1> QED
  BY <1>1, <1>2, <1>3, <1>4 DEF PaymentsNext

\* OldestFirst, for payments that are allocated from intents.
THEOREM AllocationsAreOldestFirst == PaymentsSpec => OldestFirst
<1>1. ASSUME PInv, [PaymentsNext]_paymentsVars, NEW i \in Invoices PROVE OldestOf(i)
  <2>1. BInv /\ TypeOK
    BY <1>1 DEF PInv, BInv
  <2>2. CASE [Next]_vars
    BY <2>1, <2>2, EveryStepIsOldestFirst
  <2>3. CASE RecordPayment(Price)
    <3>1. Price \in Int
      BY MoneyIsNatural
    <3>2. invoice' = [k \in Invoices |->
              [invoice[k] EXCEPT !.balance = invoice[k].balance - Taken(Price, k)]]
      BY <2>3 DEF RecordPayment
    <3> QED
      BY <2>1, <3>1, <3>2, PlansAreOldestFirst
  <2>4. ASSUME NEW amount \in Int, ReversePayment(amount) PROVE OldestOf(i)
    BY <2>1, <2>4, ReversalsRaise
  <2>5. [Next]_vars \/ RecordPayment(Price) \/ \E amount \in Int : ReversePayment(amount)
    BY <1>1, PaymentsStepInvoices
  <2> QED
    BY <2>2, <2>3, <2>4, <2>5
<1>2. PInv /\ [PaymentsNext]_paymentsVars =>
        [\A i \in Invoices : invoice'[i].balance < invoice[i].balance =>
           /\ invoice[i].status = "issued"
           /\ \A j \in 1..(i - 1) :
                invoice[j].status = "issued" => invoice'[j].balance = 0]_vars
  BY <1>1 DEF OldestOf
<1> QED
  BY <1>2, PaymentsInvariant, PTL DEF PaymentsSpec, OldestFirst

\* CreditedInFull, while payments and refunds move the same balances.
THEOREM CreditsStayInFull == PaymentsSpec => []CreditedInFull
<1>1. PaymentsInit => CreditedInFull
  BY StaffIsNobody DEF PaymentsInit, Init, CreditedInFull, NoCredit
<1>2. PInv /\ CreditedInFull /\ [PaymentsNext]_paymentsVars => CreditedInFull'
  <2> SUFFICES ASSUME PInv, CreditedInFull, [PaymentsNext]_paymentsVars PROVE CreditedInFull'
    OBVIOUS
  <2>1. CASE [Next]_vars
    BY <2>1, FullSteps DEF PInv
  <2>2. ASSUME NEW amount \in Int, RecordPayment(amount) \/ ReversePayment(amount)
        PROVE  CreditedInFull'
    <3>1. credit' = credit /\ return' = return
      BY <2>2 DEF RecordPayment, ReversePayment
    <3>2. BInv
      BY DEF PInv
    <3> QED
      BY <3>1, <3>2, NotesStand
  <2> QED
    BY <2>1, <2>2, MoneyIsNatural, PaymentsStepInvoices
<1> QED
  BY <1>1, <1>2, PaymentsInvariant, PTL DEF PaymentsSpec

-----------------------------------------------------------------------------
(* Accounts *)

\* What a row says of n wrong passwords, and of the code: p if it was presented.
RowCounted(row, n) == row.failures <= n /\ (row.locked = TRUE => n >= MaxFailures)
RowCoded(row, p) == row.verified = TRUE => p = TRUE
RowSound(row, n, p) == RowCounted(row, n) /\ RowCoded(row, p)

Reads == {"use", "verify", "wrongCode", "keep", "admit", "suspend", "wrongPassword", "login"}

\* A request has read a row that was sound, and has done itself what it is at.
Counted(h, n) == h.at \in Reads =>
    h.read.failures <= n /\ (h.at = "wrongPassword" => h.read.failures < n)
Coded(h, p) == h.at \in Reads =>
    RowCoded(h.read, p) /\ (h.at \in {"use", "verify"} => p = TRUE)
HandlerSound(h, n, p) == Counted(h, n) /\ Coded(h, p)

AInv == /\ AccountsTypeOK
        /\ RowSound(user, failed, presented)
        /\ \A r \in Callers : HandlerSound(handler[r], failed, presented)

LEMMA HandlerKinds ==
    ASSUME NEW h \in HandlerType, h.at \in Reads
    PROVE  h \in [at : Reads, read : Rows]
<1>1. CASE h = NoRequest
  BY <1>1 DEF NoRequest, Reads
<1>2. CASE h \in [at : {"register"}]
  <2>1. h.at = "register"
    BY <1>2
  <2> QED
    BY <2>1 DEF Reads
<1> QED
  BY <1>1, <1>2 DEF HandlerType, Reads

LEMMA HandlersBack ==
    /\ NoRequest \in HandlerType /\ NoRequest.at = "idle"
    /\ [at |-> "register"] \in HandlerType
    /\ \A x \in Reads, row \in Rows : [at |-> x, read |-> row] \in HandlerType
BY DEF HandlerType, NoRequest, Reads

\* Failures and codes are only ever added to what a request has read.
LEMMA RequestMoves ==
    ASSUME AInv, NEW r \in Callers, NEW h \in HandlerType, handler' = [handler EXCEPT ![r] = h],
           user' \in Rows, code' \in [at : {"none", "live", "expired", "used"}, attempts : Nat],
           failed' \in failed..LastFailure, presented' \in BOOLEAN, presented = TRUE => presented' = TRUE,
           RowSound(user', failed', presented'), HandlerSound(h, failed', presented')
    PROVE  AInv'
<1>1. failed \in Nat /\ failed' \in Nat /\ failed <= failed' /\ failed' \in 0..LastFailure
  BY AttemptsAssumption DEF AInv, AccountsTypeOK
<1>2. handler \in [Callers -> HandlerType]
  BY DEF AInv, AccountsTypeOK
<1>3. handler'[r] = h /\ \A q \in Callers \ {r} : handler'[q] = handler[q]
  BY <1>2
<1>4. AccountsTypeOK'
  BY <1>1, <1>2 DEF AccountsTypeOK
<1>5. ASSUME NEW q \in Callers PROVE HandlerSound(handler'[q], failed', presented')
  <2>1. CASE q = r
    BY <1>3, <2>1
  <2>2. CASE q # r
    <3>1. handler'[q] = handler[q] /\ handler[q] \in HandlerType
      BY <1>2, <1>3, <2>2
    <3>2. HandlerSound(handler[q], failed, presented)
      BY DEF AInv
    <3>3. Counted(handler[q], failed')
      <4>1. handler[q].at \in Reads => handler[q].read.failures \in Nat
        BY <3>1, HandlerKinds DEF Rows
      <4> QED
        BY <1>1, <3>2, <4>1 DEF HandlerSound, Counted
    <3>4. Coded(handler[q], presented')
      BY <3>2 DEF HandlerSound, Coded, RowCoded
    <3> QED
      BY <3>1, <3>3, <3>4 DEF HandlerSound
  <2> QED
    BY <2>1, <2>2
<1> QED
  BY <1>4, <1>5 DEF AInv

\* A row keeps sound when failures and codes are added.
LEMMA RowStays ==
    ASSUME AInv, failed' \in Nat, failed <= failed', presented = TRUE => presented' = TRUE, user' = user
    PROVE  RowSound(user', failed', presented') /\ user' \in Rows
<1>1. user.failures \in Nat /\ failed \in Nat /\ user \in Rows /\ MaxFailures \in Nat
  BY AttemptsAssumption DEF AInv, AccountsTypeOK, Rows
<1> QED
  BY <1>1 DEF RowSound, RowCounted, RowCoded, AInv

LEMMA AccountsStart == AccountsInit => AInv
<1> SUFFICES ASSUME AccountsInit PROVE AInv
  OBVIOUS
<1>1. AccountsTypeOK
  <2>1. user \in Rows
    BY DEF AccountsInit, NoUser, Rows
  <2>2. handler \in [Callers -> HandlerType]
    BY HandlersBack DEF AccountsInit
  <2>3. code \in [at : {"none", "live", "expired", "used"}, attempts : Nat]
    BY DEF AccountsInit, NoCode
  <2>4. failed \in 0..LastFailure
    BY AttemptsAssumption DEF AccountsInit
  <2>5. presented \in BOOLEAN
    BY DEF AccountsInit
  <2> QED
    BY <2>1, <2>2, <2>3, <2>4, <2>5 DEF AccountsTypeOK
<1>2. RowSound(user, failed, presented)
  BY DEF AccountsInit, RowSound, RowCounted, RowCoded, NoUser
<1>3. \A r \in Callers : HandlerSound(handler[r], failed, presented)
  BY DEF AccountsInit, HandlerSound, Counted, Coded, NoRequest, Reads
<1> QED
  BY <1>1, <1>2, <1>3 DEF AInv

LEMMA AccountsKnown ==
    ASSUME AInv
    PROVE  /\ user \in Rows /\ handler \in [Callers -> HandlerType]
           /\ code \in [at : {"none", "live", "expired", "used"}, attempts : Nat]
           /\ failed \in Nat /\ failed \in failed..LastFailure /\ presented \in BOOLEAN
           /\ RowSound(user, failed, presented)
           /\ \A r \in Callers : HandlerSound(handler[r], failed, presented)
BY AttemptsAssumption DEF AInv, AccountsTypeOK

\* A request that ends, or remembers nothing, after it wrote a sound row.
LEMMA RequestEnds ==
    ASSUME AInv, NEW r \in Callers, NEW h \in {NoRequest, [at |-> "register"]},
           handler' = [handler EXCEPT ![r] = h],
           user' \in Rows, RowSound(user', failed, presented),
           code' \in [at : {"none", "live", "expired", "used"}, attempts : Nat],
           UNCHANGED <<failed, presented>>
    PROVE  AInv'
<1>1. h \in HandlerType /\ h.at \notin Reads
  BY HandlersBack DEF NoRequest, Reads
<1>2. HandlerSound(h, failed', presented')
  BY <1>1 DEF HandlerSound, Counted, Coded
<1> QED
  BY <1>1, <1>2, AccountsKnown, RequestMoves

\* A request that has read the user's row.
LEMMA RequestContinues ==
    ASSUME AInv, NEW r \in Callers, NEW x \in Reads, Continues(r, x), user' = user, code' = code,
           failed' \in failed..LastFailure, presented' \in BOOLEAN, presented = TRUE => presented' = TRUE,
           x = "wrongPassword" => failed' = failed + 1,
           x \in {"use", "verify"} => presented' = TRUE
    PROVE  AInv'
<1> DEFINE h == [at |-> x, read |-> user]
<1>1. handler' = [handler EXCEPT ![r] = h] /\ h \in HandlerType
  BY HandlersBack, AccountsKnown DEF Continues
<1>2. failed \in Nat /\ failed' \in Nat /\ failed <= failed'
  <2>1. failed \in Nat /\ LastFailure \in Nat
    BY AccountsKnown, AttemptsAssumption
  <2> QED
    BY <2>1
<1>3. RowSound(user', failed', presented') /\ user' \in Rows
  BY <1>2, RowStays
<1>4. HandlerSound(h, failed', presented')
  <2>1. h.at = x /\ h.read = user
    OBVIOUS
  <2>2. user.failures \in Nat /\ user.failures <= failed
    BY AccountsKnown DEF Rows, RowSound, RowCounted
  <2> HIDE DEF h
  <2>3. Counted(h, failed')
    BY <1>2, <2>1, <2>2 DEF Counted
  <2>4. Coded(h, presented')
    BY <1>3, <2>1 DEF Coded, RowSound
  <2> QED
    BY <2>3, <2>4 DEF HandlerSound
<1> HIDE DEF h
<1> QED
  BY <1>1, <1>3, <1>4, AccountsKnown, RequestMoves

\* What a request read when it is about to write, and how it ends.
LEMMA HasRead ==
    ASSUME AInv, NEW r \in Callers, handler[r].at \in Reads
    PROVE  /\ handler[r].read \in Rows
           /\ handler[r].read.failures <= failed
           /\ handler[r].at = "wrongPassword" => handler[r].read.failures + 1 <= failed
           /\ handler[r].read.verified = TRUE => presented = TRUE
           /\ handler[r].at \in {"use", "verify"} => presented = TRUE
<1>1. handler[r] \in [at : Reads, read : Rows] /\ HandlerSound(handler[r], failed, presented)
  BY AccountsKnown, HandlerKinds
<1>2. handler[r].read \in Rows /\ handler[r].read.failures \in Nat /\ failed \in Nat
  BY <1>1, AccountsKnown DEF Rows
<1>3. /\ handler[r].read.failures <= failed
      /\ handler[r].at = "wrongPassword" => handler[r].read.failures < failed
  BY <1>1 DEF HandlerSound, Counted
<1>4. /\ handler[r].read.verified = TRUE => presented = TRUE
      /\ handler[r].at \in {"use", "verify"} => presented = TRUE
  BY <1>1 DEF HandlerSound, Coded, RowCoded
<1> QED
  BY <1>2, <1>3, <1>4

\* The flags that are written: verified only if it was read so or earned.
LEMMA FlagsWritten ==
    ASSUME AInv, NEW active \in BOOLEAN, NEW verified \in BOOLEAN,
           WriteFlags(active, verified), verified = TRUE => presented = TRUE
    PROVE  user' \in Rows /\ RowSound(user', failed, presented)
<1>1. user \in Rows /\ RowSound(user, failed, presented)
  BY AccountsKnown
<1>2. user' = [user EXCEPT !.active = active, !.verified = verified]
  BY DEF WriteFlags
<1>3. /\ user' \in Rows
      /\ user'.failures = user.failures /\ user'.locked = user.locked
      /\ user'.verified = verified
  BY <1>1, <1>2 DEF Rows
<1> QED
  BY <1>1, <1>3 DEF RowSound, RowCounted, RowCoded

\* The counters that are written: no more failures than there were.
LEMMA CountersWritten ==
    ASSUME AInv, NEW n \in Nat, n <= failed, NEW locked \in BOOLEAN,
           user' = [user EXCEPT !.failures = n, !.locked = locked],
           locked = TRUE => failed >= MaxFailures
    PROVE  user' \in Rows /\ RowSound(user', failed, presented)
<1>1. user \in Rows /\ RowSound(user, failed, presented)
  BY AccountsKnown
<1>2. /\ user' \in Rows
      /\ user'.failures = n /\ user'.locked = locked /\ user'.verified = user.verified
  BY <1>1 DEF Rows
<1> QED
  BY <1>1, <1>2 DEF RowSound, RowCounted, RowCoded

LEMMA RegistrationKeeps ==
    ASSUME AInv, NEW r \in Callers,
           CreateUser(r) \/ CreateBuyerProfile(r) \/ CreateOTPCode(r)
    PROVE  AInv'
<1>1. CASE CreateUser(r)
  <2>1. /\ user' = [NoUser EXCEPT !.at = "user", !.active = TRUE] /\ user = NoUser
        /\ handler' = [handler EXCEPT ![r] = [at |-> "register"]]
        /\ UNCHANGED <<code, failed, presented>>
    BY <1>1 DEF CreateUser
  <2>2. user' \in Rows /\ user'.failures = 0 /\ user'.locked = FALSE /\ user'.verified = FALSE
    BY <2>1 DEF NoUser, Rows
  <2>3. RowSound(user', failed, presented)
    BY <2>2, AccountsKnown DEF RowSound, RowCounted, RowCoded
  <2> QED
    BY <2>1, <2>2, <2>3, AccountsKnown, RequestEnds
<1>2. CASE CreateBuyerProfile(r)
  <2>1. /\ user' = [user EXCEPT !.at = "profile"]
        /\ UNCHANGED <<handler, code, failed, presented>>
    BY <1>2 DEF CreateBuyerProfile
  <2>2. /\ user' \in Rows /\ user'.failures = user.failures
        /\ user'.locked = user.locked /\ user'.verified = user.verified
    BY <2>1, AccountsKnown DEF Rows
  <2>3. RowSound(user', failed, presented)
    BY <2>2, AccountsKnown DEF RowSound, RowCounted, RowCoded
  <2> QED
    BY <2>1, <2>2, <2>3 DEF AInv, AccountsTypeOK
<1>3. CASE CreateOTPCode(r)
  <2>1. /\ handler' = [handler EXCEPT ![r] = NoRequest]
        /\ code' = [at |-> "live", attempts |-> 0] /\ UNCHANGED <<user, failed, presented>>
    BY <1>3 DEF CreateOTPCode, Ends
  <2> QED
    BY <2>1, AccountsKnown, RequestEnds
<1> QED
  BY <1>1, <1>2, <1>3

LEMMA VerificationKeeps ==
    ASSUME AInv, NEW r \in Callers,
           VerifyRegistration(r) \/ IncrementOTPAttempts(r) \/ UseOTPCode(r) \/ VerifyUser(r)
    PROVE  AInv'
<1>1. CASE VerifyRegistration(r)
  <2>1. UNCHANGED <<user, code, failed>>
    BY <1>1 DEF VerifyRegistration
  <2>2. CASE Continues(r, "use") /\ presented' = TRUE
    <3>1. "use" \in Reads
      BY DEF Reads
    <3> QED
      BY <2>1, <2>2, <3>1, AccountsKnown, RequestContinues
  <2>3. CASE Continues(r, "wrongCode") /\ UNCHANGED presented
    <3>1. "wrongCode" \in Reads
      BY DEF Reads
    <3> QED
      BY <2>1, <2>3, <3>1, AccountsKnown, RequestContinues
  <2> QED
    BY <1>1, <2>2, <2>3 DEF VerifyRegistration
<1>2. CASE IncrementOTPAttempts(r)
  <2>1. /\ handler' = [handler EXCEPT ![r] = NoRequest]
        /\ code' = [code EXCEPT !.attempts = code.attempts + 1]
        /\ UNCHANGED <<user, failed, presented>>
    BY <1>2 DEF IncrementOTPAttempts, Ends
  <2>2. code' \in [at : {"none", "live", "expired", "used"}, attempts : Nat]
    BY <2>1, AccountsKnown
  <2> QED
    BY <2>1, <2>2, AccountsKnown, RequestEnds
<1>3. CASE UseOTPCode(r)
  <2> DEFINE h == [handler[r] EXCEPT !.at = "verify"]
  <2>1. /\ handler' = [handler EXCEPT ![r] = h] /\ handler[r].at = "use"
        /\ code' \in {code, [code EXCEPT !.at = "used"]} /\ UNCHANGED <<user, failed, presented>>
    BY <1>3 DEF UseOTPCode
  <2>2. code' \in [at : {"none", "live", "expired", "used"}, attempts : Nat]
    BY <2>1, AccountsKnown
  <2>3. handler[r].at \in Reads /\ "verify" \in Reads
    BY <2>1 DEF Reads
  <2>4. handler[r] \in [at : Reads, read : Rows]
    BY <2>3, AccountsKnown, HandlerKinds
  <2>5. h = [at |-> "verify", read |-> handler[r].read] /\ handler[r].read \in Rows
    BY <2>4
  <2>6. h \in HandlerType /\ h.at = "verify" /\ h.read = handler[r].read
    BY <2>3, <2>5, HandlersBack
  <2> HIDE DEF h
  <2>7. Counted(h, failed)
    BY <2>3, <2>6, HasRead DEF Counted
  <2>8. Coded(h, presented)
    BY <2>1, <2>3, <2>6, HasRead DEF Coded, RowCoded
  <2> QED
    BY <2>1, <2>2, <2>6, <2>7, <2>8, AccountsKnown, RequestMoves DEF HandlerSound
<1>4. CASE VerifyUser(r)
  <2>1. /\ handler[r].at = "verify" /\ WriteFlags(handler[r].read.active, TRUE)
        /\ handler' = [handler EXCEPT ![r] = NoRequest]
        /\ UNCHANGED <<code, failed, presented>>
    BY <1>4 DEF VerifyUser, Ends
  <2>2. handler[r].at \in Reads
    BY <2>1 DEF Reads
  <2>3. handler[r].read.active \in BOOLEAN /\ presented = TRUE
    BY <2>1, <2>2, HasRead DEF Rows
  <2>4. user' \in Rows /\ RowSound(user', failed, presented)
    BY <2>1, <2>3, FlagsWritten
  <2> QED
    BY <2>1, <2>4, AccountsKnown, RequestEnds
<1> QED
  BY <1>1, <1>2, <1>3, <1>4

LEMMA AdministrationKeeps ==
    ASSUME AInv, NEW r \in Callers, GetUserByID(r) \/ SetActive(r)
    PROVE  AInv'
<1>1. CASE GetUserByID(r)
  <2>1. PICK to \in {"keep", "admit", "suspend"} :
          Continues(r, to) /\ UNCHANGED <<user, code, failed, presented>>
    BY <1>1 DEF GetUserByID
  <2>2. to \in Reads /\ to # "wrongPassword" /\ to \notin {"use", "verify"}
    BY DEF Reads
  <2> QED
    BY <2>1, <2>2, AccountsKnown, RequestContinues
<1>2. CASE SetActive(r)
  <2> DEFINE active == IF handler[r].at = "keep" THEN handler[r].read.active
                                                 ELSE handler[r].at = "admit"
  <2>1. /\ handler[r].at \in {"keep", "admit", "suspend"}
        /\ WriteFlags(active, handler[r].read.verified)
        /\ handler' = [handler EXCEPT ![r] = NoRequest]
        /\ UNCHANGED <<code, failed, presented>>
    BY <1>2 DEF SetActive, Ends
  <2>2. handler[r].at \in Reads
    BY <2>1 DEF Reads
  <2>3. handler[r].read \in Rows /\ (handler[r].read.verified = TRUE => presented = TRUE)
    BY <2>2, HasRead
  <2>4. handler[r].read.active \in BOOLEAN /\ handler[r].read.verified \in BOOLEAN
    BY <2>3 DEF Rows
  <2>5. active \in BOOLEAN
    BY <2>4, Zenon
  <2> HIDE DEF active
  <2>6. user' \in Rows /\ RowSound(user', failed, presented)
    BY <2>1, <2>3, <2>4, <2>5, FlagsWritten
  <2> QED
    BY <2>1, <2>6, AccountsKnown, RequestEnds
<1> QED
  BY <1>1, <1>2

LEMMA LoginsKeep ==
    ASSUME AInv, NEW r \in Callers,
           Login(r) \/ UpdateUserLoginAttempts(r) \/ UpdateUserLastLogin(r)
    PROVE  AInv'
<1>1. CASE Login(r)
  <2>1. UNCHANGED <<user, code, presented>>
    BY <1>1 DEF Login
  <2>2. CASE failed < LastFailure /\ failed' = failed + 1 /\ Continues(r, "wrongPassword")
    <3>1. "wrongPassword" \in Reads /\ failed' \in failed..LastFailure
      BY <2>2, AccountsKnown, AttemptsAssumption DEF Reads
    <3> QED
      BY <2>1, <2>2, <3>1, AccountsKnown, RequestContinues
  <2>3. CASE Continues(r, "login") /\ UNCHANGED failed
    <3>1. "login" \in Reads
      BY DEF Reads
    <3> QED
      BY <2>1, <2>3, <3>1, AccountsKnown, RequestContinues
  <2> QED
    BY <1>1, <2>2, <2>3 DEF Login
<1>2. CASE UpdateUserLoginAttempts(r)
  <2> DEFINE n == handler[r].read.failures + 1
  <2>1. /\ handler[r].at = "wrongPassword"
        /\ user' = [user EXCEPT !.failures = n, !.locked = Locks(n)]
        /\ handler' = [handler EXCEPT ![r] = NoRequest]
        /\ UNCHANGED <<code, failed, presented>>
    BY <1>2 DEF UpdateUserLoginAttempts, Ends
  <2>2. handler[r].at \in Reads
    BY <2>1 DEF Reads
  <2>3. n \in Nat /\ n <= failed /\ failed \in Nat
    <3>1. handler[r].read \in Rows /\ handler[r].read.failures + 1 <= failed
      BY <2>1, <2>2, HasRead
    <3>2. handler[r].read.failures \in Nat
      BY <3>1 DEF Rows
    <3> QED
      BY <3>1, <3>2, AccountsKnown
  <2> HIDE DEF n
  <2>4. Locks(n) \in BOOLEAN /\ (Locks(n) = TRUE => failed >= MaxFailures)
    BY <2>3, AttemptsAssumption DEF Locks
  <2>5. user' \in Rows /\ RowSound(user', failed, presented)
    BY <2>1, <2>3, <2>4, CountersWritten
  <2> QED
    BY <2>1, <2>5, AccountsKnown, RequestEnds
<1>3. CASE UpdateUserLastLogin(r)
  <2>1. /\ user' = [user EXCEPT !.failures = 0, !.locked = FALSE]
        /\ handler' = [handler EXCEPT ![r] = NoRequest]
        /\ UNCHANGED <<code, failed, presented>>
    BY <1>3 DEF UpdateUserLastLogin, Ends
  <2>2. user' \in Rows /\ RowSound(user', failed, presented)
    <3>1. 0 \in Nat /\ 0 <= failed
      BY AccountsKnown
    <3> QED
      BY <2>1, <3>1, CountersWritten
  <2> QED
    BY <2>1, <2>2, AccountsKnown, RequestEnds
<1> QED
  BY <1>1, <1>2, <1>3

LEMMA AccountsSteps == AInv /\ [AccountsNext]_accountVars => AInv'
<1> SUFFICES ASSUME AInv, [AccountsNext]_accountVars PROVE AInv'
  OBVIOUS
<1>1. CASE UNCHANGED accountVars
  <2>1. UNCHANGED <<user, code, handler, failed, presented>>
    BY <1>1 DEF accountVars
  <2> QED
    BY <2>1 DEF AInv, AccountsTypeOK
<1>2. CASE CodeExpires
  <2>1. /\ code' = [code EXCEPT !.at = "expired"]
        /\ UNCHANGED <<user, handler, failed, presented>>
    BY <1>2 DEF CodeExpires
  <2>2. code' \in [at : {"none", "live", "expired", "used"}, attempts : Nat]
    BY <2>1, AccountsKnown
  <2> QED
    BY <2>1, <2>2 DEF AInv, AccountsTypeOK
<1>3. CASE LockExpires
  <2>1. /\ user' = [user EXCEPT !.locked = FALSE]
        /\ UNCHANGED <<code, handler, failed, presented>>
    BY <1>3 DEF LockExpires
  <2>2. /\ user' \in Rows /\ user'.failures = user.failures
        /\ user'.locked = FALSE /\ user'.verified = user.verified
    BY <2>1, AccountsKnown DEF Rows
  <2>3. RowSound(user', failed, presented)
    BY <2>2, AccountsKnown DEF RowSound, RowCounted, RowCoded
  <2> QED
    BY <2>1, <2>2, <2>3 DEF AInv, AccountsTypeOK
<1>4. ASSUME NEW r \in Callers, RequestStops(r) PROVE AInv'
  <2>1. /\ handler' = [handler EXCEPT ![r] = NoRequest]
        /\ UNCHANGED <<user, code, failed, presented>>
    BY <1>4 DEF RequestStops, Ends
  <2> QED
    BY <2>1, AccountsKnown, RequestEnds
<1> QED
  BY <1>1, <1>2, <1>3, <1>4, RegistrationKeeps, VerificationKeeps, AdministrationKeeps,
     LoginsKeep DEF AccountsNext

-----------------------------------------------------------------------------
(* Promotions *)

\* A quotient of what is at most m times the divisor is at most m.
LEMMA Quotient ==
    ASSUME NEW n \in Nat, NEW m \in Nat, NEW w \in Nat \ {0}, n <= m * w
    PROVE  (n \div w) \in 0..m /\ w * (n \div w) <= n
<1>1. (n \div w) \in Nat /\ w * (n \div w) <= n
  OBVIOUS
<1>2. w * (n \div w) <= w * m
  BY <1>1
<1>3. (n \div w) <= m
  BY <1>1, <1>2
<1> QED
  BY <1>1, <1>3

\* What a cart is: subtotals of one or more suppliers.
Cart == Seq(1..MaxInt) \ {<<>>}

LEMMA ElementsAreIn ==
    ASSUME NEW S, NEW s \in Seq(S), NEW i \in 1..Len(s)
    PROVE  s[i] \in S
OBVIOUS

LEMMA FunctionsAreSeqs ==
    ASSUME NEW S, NEW n \in Nat, NEW f \in [1..n -> S]
    PROVE  f \in Seq(S)
OBVIOUS

LEMMA CartKnown ==
    ASSUME NEW s \in Cart
    PROVE  /\ DOMAIN s = 1..Len(s) /\ Len(s) \in Nat \ {0}
           /\ IsFiniteSet(DOMAIN s) /\ DOMAIN s \subseteq Nat /\ DOMAIN s # {}
           /\ \A i \in DOMAIN s : s[i] \in Nat \ {0} /\ s[i] \in Int32
<1>1. DOMAIN s = 1..Len(s) /\ Len(s) \in Nat \ {0}
  BY DEF Cart
<1>2. IsFiniteSet(1..Len(s))
  BY <1>1, FS_Interval
<1>3. ASSUME NEW i \in DOMAIN s PROVE s[i] \in 1..MaxInt
  <2>1. s \in Seq(1..MaxInt) /\ i \in 1..Len(s)
    BY <1>1 DEF Cart
  <2> QED
    BY <2>1, ElementsAreIn
<1>4. \A i \in DOMAIN s : s[i] \in Nat \ {0} /\ s[i] \in Int32
  BY <1>3, MaxIntAssumption DEF Int32
<1> QED
  BY <1>1, <1>2, <1>4

\* Every cart has a first largest subtotal.
LEMMA LargestIsThere ==
    ASSUME NEW s \in Cart
    PROVE  Largest(s) \in DOMAIN s
<1> DEFINE V == {s[i] : i \in DOMAIN s}
<1>1. IsFiniteSet(V) /\ V \subseteq Nat /\ V # {}
  <2>1. IsFiniteSet(Int32) /\ V \subseteq Int32
    <3>1. \A i \in DOMAIN s : s[i] \in Int32
      BY CartKnown
    <3> QED
      BY <3>1, MaxIntAssumption, FS_Interval DEF Int32
  <2>2. IsFiniteSet(V)
    BY <2>1, FS_Subset
  <2> QED
    BY <2>2, CartKnown
<1>2. PICK m \in V : \A k \in V : k <= m
  <2> HIDE DEF V
  <2> QED
    BY <1>1, LargestNumber
<1> DEFINE n == Len(s)
           I == {i \in DOMAIN s : s[i] = m}
           J == {k \in 0..n : n - k \in I}
<1>3. n \in Nat /\ DOMAIN s = 1..n
  BY CartKnown
<1>4. IsFiniteSet(J) /\ J \subseteq Nat /\ J # {}
  <2>1. IsFiniteSet(0..n) /\ J \subseteq 0..n
    BY <1>3, FS_Interval
  <2>2. PICK i \in DOMAIN s : s[i] = m
    BY <1>2
  <2>3. n - i \in 0..n /\ n - (n - i) = i
    BY <1>3, <2>2
  <2>4. n - i \in J
    BY <2>2, <2>3
  <2> QED
    BY <2>1, <2>4, FS_Subset
<1>5. PICK k \in J : \A l \in J : l <= k
  <2> HIDE DEF J
  <2> QED
    BY <1>4, LargestNumber
<1> DEFINE i == n - k
<1>6. i \in DOMAIN s /\ s[i] = m /\ k \in 0..n
  BY <1>5
<1>7. \A j \in DOMAIN s : s[j] <= s[i]
  BY <1>2, <1>6
<1>8. ASSUME NEW j \in 1..(i - 1) PROVE s[j] < s[i]
  <2>1. j \in DOMAIN s /\ j < i /\ j \in Nat
    BY <1>3, <1>6
  <2>2. s[j] # m
    <3>1. SUFFICES ASSUME s[j] = m PROVE FALSE
      OBVIOUS
    <3>2. n - j \in 0..n /\ n - (n - j) = j /\ n - j > k
      BY <1>3, <1>6, <2>1
    <3>3. n - j \in J
      BY <2>1, <3>1, <3>2
    <3> QED
      BY <1>5, <1>6, <3>2, <3>3
  <2>3. s[j] \in Nat /\ s[i] \in Nat
    BY <1>6, <2>1, CartKnown
  <2> QED
    BY <1>6, <1>7, <2>1, <2>2, <2>3
<1> HIDE DEF i
<1> QED
  BY <1>6, <1>7, <1>8 DEF Largest

\* Shares rounded down, each at most its subtotal, together at most the
\* discount: w times the sum of the shares is at most d times the sum of the
\* subtotals, by induction on the suppliers.
LEMMA SharesRoundDown ==
    ASSUME NEW s \in Cart, NEW d \in Nat, d <= Worth(s),
           NEW share, share = [i \in DOMAIN s |-> (d * s[i]) \div Worth(s)]
    PROVE  /\ \A i \in DOMAIN s : share[i] \in 0..s[i]
           /\ Total(share, DOMAIN s) \in Nat /\ Total(share, DOMAIN s) <= d
<1> DEFINE D == DOMAIN s
           w == Worth(s)
<1>1. IsFiniteSet(D) /\ w = Total(s, D) /\ w \in Nat
  BY CartKnown, TotalNat DEF Worth
<1>2. w \in Nat \ {0}
  <2>1. PICK i \in D : TRUE
    BY CartKnown
  <2>2. Total(s, D) >= Total(s, {}) + s[i]
    BY <1>1, <2>1, CartKnown, TotalMonotone
  <2>3. Total(s, {}) = 0 /\ s[i] \in Nat \ {0}
    BY <2>1, CartKnown, TotalZero
  <2> QED
    BY <1>1, <2>2, <2>3
<1>3. ASSUME NEW i \in D
      PROVE  share[i] \in 0..s[i] /\ w * share[i] <= d * s[i]
  <2>1. s[i] \in Nat /\ share[i] = (d * s[i]) \div w
    BY CartKnown
  <2> HIDE DEF w
  <2>2. d * s[i] \in Nat /\ d * s[i] <= s[i] * w
    BY <1>1, <2>1 DEF w
  <2> QED
    BY <1>2, <2>1, <2>2, Quotient
<1>4. \A i \in D : share[i] \in Int32 /\ s[i] \in Int32 /\ share[i] \in Nat /\ s[i] \in Nat
  BY <1>3, CartKnown, MaxIntAssumption DEF Int32
<1> DEFINE F == {T \in SUBSET D : w * Total(share, T) <= d * Total(s, T)}
<1> HIDE DEF w
<1>5. {} \in F
  <2>1. Total(share, {}) = 0 /\ Total(s, {}) = 0
    BY TotalZero
  <2> QED
    BY <1>1, <2>1
<1>6. ASSUME NEW T \in SUBSET D, NEW x \in D, T \in F, x \notin T
      PROVE  T \cup {x} \in F
  <2>1. IsFiniteSet(T)
    BY <1>1, FS_Subset
  <2>2. /\ Total(share, T \cup {x}) = Total(share, T) + share[x]
        /\ Total(s, T \cup {x}) = Total(s, T) + s[x]
    BY <1>4, <1>6, <2>1, TotalInsert
  <2>3. Total(share, T) \in Nat /\ Total(s, T) \in Nat /\ share[x] \in Nat /\ s[x] \in Nat
    BY <1>4, <2>1, TotalNat
  <2>4. w * Total(share, T) <= d * Total(s, T) /\ w * share[x] <= d * s[x]
    BY <1>3, <1>6
  <2> HIDE DEF F
  <2>5. w * (Total(share, T) + share[x]) <= d * (Total(s, T) + s[x])
    BY <1>2, <2>3, <2>4
  <2> QED
    BY <2>2, <2>5 DEF F
<1>7. D \in F
  <2> HIDE DEF F, D
  <2> QED
    BY <1>1, <1>5, <1>6, SubsetInduction
<1>8. Total(share, D) \in Nat /\ w * Total(share, D) <= d * w
  BY <1>1, <1>7, TotalNat DEF w
<1>9. Total(share, D) <= d
  BY <1>2, <1>8
<1> QED
  BY <1>3, <1>8, <1>9

\* What comes out of a checkout: one share per order, none above its
\* subtotal, and together the discount.
Shared(shares, s, d) ==
    /\ Worth(shares) = d
    /\ \A i \in DOMAIN shares : shares[i] \in 0..s[i]

LEMMA SplitAddsUp ==
    ASSUME NEW s \in Cart, NEW d \in Nat, d <= Worth(s), TotalsCheck(s, splitDiscount(s, d))
    PROVE  /\ splitDiscount(s, d) \in Seq(0..MaxInt) \ {<<>>}
           /\ Shared(splitDiscount(s, d), s, d)
<1> DEFINE D == DOMAIN s
           share == [i \in D |-> (d * s[i]) \div Worth(s)]
           large == Largest(s)
           shares == splitDiscount(s, d)
<1>1. IsFiniteSet(D) /\ large \in D /\ D = 1..Len(s) /\ Len(s) \in Nat \ {0}
  BY CartKnown, LargestIsThere
<1>2. /\ \A i \in D : share[i] \in 0..s[i]
      /\ Total(share, D) \in Nat /\ Total(share, D) <= d
  BY SharesRoundDown
<1>3. DOMAIN share = D /\ Worth(share) = Total(share, D)
  BY DEF Worth
<1>4. shares = [share EXCEPT ![large] = share[large] + d - Worth(share)]
  BY DEF splitDiscount
<1>5. \A i \in D : shares[i] <= s[i]
  BY DEF TotalsCheck
<1> HIDE DEF share, large, shares
<1>6. /\ DOMAIN shares = D
      /\ shares[large] = share[large] + (d - Total(share, D))
      /\ \A i \in D \ {large} : shares[i] = share[i]
  <2>1. shares[large] = share[large] + d - Total(share, D)
    BY <1>1, <1>3, <1>4
  <2>2. share[large] \in Nat
    BY <1>1, <1>2, CartKnown
  <2>3. share[large] + d - Total(share, D) = share[large] + (d - Total(share, D))
    BY <1>2, <2>2
  <2> QED
    BY <1>1, <1>3, <1>4, <2>1, <2>3 DEF share
<1>7. ASSUME NEW i \in D PROVE shares[i] \in 0..s[i] /\ shares[i] \in Int32 /\ share[i] \in Int32
  <2>1. s[i] \in Nat /\ s[i] <= MaxInt /\ share[i] \in 0..s[i] /\ shares[i] <= s[i]
    BY <1>2, <1>5, CartKnown DEF Int32
  <2>2. shares[i] \in Nat
    <3>1. CASE i = large
      BY <1>2, <1>6, <2>1, <3>1
    <3>2. CASE i # large
      BY <1>6, <2>1, <3>2
    <3> QED
      BY <3>1, <3>2
  <2> QED
    BY <2>1, <2>2, MaxIntAssumption DEF Int32
<1>8. Total(shares, D) = d
  <2>1. {large} \subseteq D /\ IsFiniteSet(D \ {large})
    BY <1>1, FS_Subset
  <2>2. /\ Total(share, D) = Total(share, {large}) + Total(share, D \ {large})
        /\ Total(shares, D) = Total(shares, {large}) + Total(shares, D \ {large})
    BY <1>1, <2>1, TotalPart
  <2>3. Total(share, {large}) = share[large] /\ Total(shares, {large}) = shares[large]
    BY <1>1, <1>7, TotalOne
  <2>4. Total(shares, D \ {large}) = Total(share, D \ {large})
    BY <1>6, TotalSame
  <2>5. Total(share, D \ {large}) \in Nat /\ share[large] \in Nat
    BY <1>1, <1>7, <2>1, TotalNat, MaxIntAssumption DEF Int32
  <2> QED
    BY <1>2, <1>6, <2>2, <2>3, <2>4, <2>5
<1>9. shares \in Seq(0..MaxInt) \ {<<>>}
  <2>1. shares \in [1..Len(s) -> 0..MaxInt]
    <3>1. shares = [i \in D |-> shares[i]]
      BY <1>4, <1>6 DEF share
    <3> QED
      BY <1>1, <1>7, <3>1 DEF Int32
  <2>2. shares \in Seq(0..MaxInt)
    BY <1>1, <2>1, FunctionsAreSeqs
  <2>3. 1 \in DOMAIN shares
    BY <1>1, <1>6
  <2> QED
    BY <2>2, <2>3
<1>10. Shared(shares, s, d)
  BY <1>6, <1>7, <1>8 DEF Shared, Worth
<1> QED
  BY <1>9, <1>10 DEF shares

Redeemers == {u \in Buyers : HasRedeemed(u)}

\* No request edits a promotion before there is one.
QInv ==
    /\ PromotionsTypeOK
    /\ DiscountsAddUp
    /\ promotion = NoPromotion => \A x \in Admins : edit[x] = NoEdit

LEMMA PromotionsStart == PromotionsInit => QInv
<1> SUFFICES ASSUME PromotionsInit PROVE QInv
  OBVIOUS
<1>1. promotion = NoPromotion /\ promotion.redeemed = 0
  BY DEF PromotionsInit, NoPromotion
<1>2. edit \in [Admins -> EditType] /\ \A x \in Admins : edit[x] = NoEdit
  BY DEF PromotionsInit, NoEdit, EditType
<1>3. /\ placing \in [Buyers -> {NoPlacing} \cup [discount : Nat]]
      /\ \A u \in Buyers : placing[u].discount = -1
  BY DEF PromotionsInit, NoPlacing
<1>4. orders \in [Buyers -> Seq(0..MaxInt)] /\ \A u \in Buyers : orders[u] = <<>>
  BY DEF PromotionsInit
<1>5. \A u \in Buyers : placing[u].discount <= Worth(Subtotals[u])
  <2>1. SUFFICES ASSUME NEW u \in Buyers PROVE placing[u].discount <= Worth(Subtotals[u])
    OBVIOUS
  <2>2. Subtotals[u] \in Cart
    BY SubtotalsAssumption DEF Cart
  <2>3. Worth(Subtotals[u]) \in Nat
    BY <2>2, CartKnown, TotalNat DEF Worth
  <2> QED
    BY <1>3, <2>3
<1>6. \A u \in Buyers : ~HasRedeemed(u)
  BY <1>4 DEF HasRedeemed
<1>7. promotion.redeemed = Cardinality({u \in Buyers : HasRedeemed(u)})
  <2>1. {u \in Buyers : HasRedeemed(u)} = {}
    BY <1>6
  <2> QED
    BY <1>1, <2>1, FS_EmptySet
<1> QED
  BY <1>1, <1>2, <1>3, <1>4, <1>5, <1>6, <1>7 DEF QInv, PromotionsTypeOK, DiscountsAddUp

\* Administration leaves the buyers and the count alone.
LEMMA BuyersStay ==
    ASSUME QInv, UNCHANGED <<placing, orders>>, promotion'.redeemed = promotion.redeemed,
           promotion' \in {NoPromotion} \cup PromotionType, edit' \in [Admins -> EditType],
           promotion' = NoPromotion => \A x \in Admins : edit'[x] = NoEdit
    PROVE  QInv'
<1>1. PromotionsTypeOK'
  BY DEF QInv, PromotionsTypeOK
<1>2. DiscountsAddUp'
  BY DEF QInv, DiscountsAddUp, HasRedeemed
<1> QED
  BY <1>1, <1>2 DEF QInv

\* A promotion is none until it is created.
LEMMA PromotionKinds ==
    /\ NoPromotion \notin PromotionType
    /\ NoEdit \in EditType
BY DEF NoPromotion, PromotionType, PromotionStatuses, NoEdit, EditType

LEMMA CreatePromotionKeeps == ASSUME QInv, CreatePromotion PROVE QInv'
<1>1. /\ promotion = NoPromotion /\ UNCHANGED <<edit, placing, orders>>
      /\ promotion' \in [status : {"draft"}, kind : {"percent", "fixed"}, value : Values,
                         max : Budgets \cup {Unlimited}, redeemed : {0}, open : BOOLEAN]
  BY DEF CreatePromotion
<1>2. promotion' \in PromotionType /\ promotion'.redeemed = promotion.redeemed
  BY <1>1 DEF PromotionType, PromotionStatuses, NoPromotion
<1>3. edit' \in [Admins -> EditType] /\ promotion' # NoPromotion
  BY <1>1, <1>2, PromotionKinds DEF QInv, PromotionsTypeOK
<1> QED
  BY <1>1, <1>2, <1>3, BuyersStay

LEMMA EditPromotionKeeps ==
    ASSUME QInv, NEW x \in Admins, UpdatePromotionRead(x) \/ UpdatePromotionWrite(x)
    PROVE  QInv'
<1>0. edit \in [Admins -> EditType] /\ promotion \in {NoPromotion} \cup PromotionType
  BY DEF QInv, PromotionsTypeOK
<1>1. CASE UpdatePromotionRead(x)
  <2>1. PICK fields \in Edits(promotion) :
           /\ promotion # NoPromotion /\ edit' = [edit EXCEPT ![x] = fields]
           /\ UNCHANGED <<promotion, placing, orders>>
    BY <1>1 DEF UpdatePromotionRead
  <2>2. fields \in EditType
    BY DEF Edits, EditType
  <2>3. edit' \in [Admins -> EditType] /\ promotion' # NoPromotion
    BY <1>0, <2>1, <2>2
  <2> QED
    BY <1>0, <2>1, <2>3, BuyersStay
<1>2. CASE UpdatePromotionWrite(x)
  <2> DEFINE e == edit[x]
  <2>1. /\ e # NoEdit /\ edit' = [edit EXCEPT ![x] = NoEdit]
        /\ promotion' = [promotion EXCEPT
               !.status = IF e.status = Kept THEN promotion.status ELSE e.status,
               !.value = IF e.value = Unset THEN promotion.value ELSE e.value,
               !.max = IF e.max = Unset THEN promotion.max ELSE e.max]
        /\ UNCHANGED <<placing, orders>>
    BY <1>2 DEF UpdatePromotionWrite
  <2>2. promotion \in PromotionType
    BY <1>0, <2>1 DEF QInv
  <2>3. e \in EditType
    BY <1>0
  <2> HIDE DEF e
  <2>4. promotion' \in PromotionType /\ promotion'.redeemed = promotion.redeemed
    BY <2>1, <2>2, <2>3 DEF PromotionType, EditType, Kept, Unset
  <2>5. edit' \in [Admins -> EditType] /\ promotion' # NoPromotion
    BY <1>0, <2>1, <2>4, PromotionKinds
  <2> QED
    BY <2>1, <2>4, <2>5, BuyersStay
<1> QED
  BY <1>1, <1>2

LEMMA WindowKeeps == ASSUME QInv, WindowMoves PROVE QInv'
<1>1. /\ promotion # NoPromotion /\ promotion' = [promotion EXCEPT !.open = ~promotion.open]
      /\ UNCHANGED <<edit, placing, orders>>
  BY DEF WindowMoves
<1>2. promotion \in PromotionType /\ edit \in [Admins -> EditType]
  BY <1>1 DEF QInv, PromotionsTypeOK
<1>3. promotion' \in PromotionType /\ promotion'.redeemed = promotion.redeemed
  BY <1>1, <1>2 DEF PromotionType
<1>4. promotion' # NoPromotion
  BY <1>3, PromotionKinds
<1> QED
  BY <1>1, <1>2, <1>3, <1>4, BuyersStay

\* A discount is no number below nothing, and none above the subtotal.
LEMMA DiscountBounded ==
    ASSUME NEW p \in PromotionType, NEW subtotal \in Nat
    PROVE  /\ ComputeDiscount(p, subtotal) \in Nat
           /\ ComputeDiscount(p, subtotal) <= subtotal
<1>1. p.value \in Nat
  BY ValuesAssumption DEF PromotionType
<1>2. subtotal * p.value \in Nat
  BY <1>1
<1>3. (subtotal * p.value) \div 100 \in Nat
  BY <1>2
<1> QED
  BY <1>1, <1>3 DEF ComputeDiscount

LEMMA CartsKnown ==
    ASSUME NEW u \in Buyers
    PROVE  Subtotals[u] \in Cart /\ Worth(Subtotals[u]) \in Nat
<1>1. Subtotals[u] \in Cart
  BY SubtotalsAssumption DEF Cart
<1> QED
  BY <1>1, CartKnown, TotalNat DEF Worth

\* A checkout that has redeemed nothing takes or drops a discount.
LEMMA PlacingMoves ==
    ASSUME QInv, NEW u \in Buyers, ~HasRedeemed(u),
           NEW p \in {NoPlacing} \cup [discount : Nat], p.discount <= Worth(Subtotals[u]),
           placing' = [placing EXCEPT ![u] = p], UNCHANGED <<promotion, edit, orders>>
    PROVE  QInv'
<1>1. placing \in [Buyers -> {NoPlacing} \cup [discount : Nat]]
  BY DEF QInv, PromotionsTypeOK
<1>2. placing'[u] = p /\ \A x \in Buyers \ {u} : placing'[x] = placing[x]
  BY <1>1
<1>3. PromotionsTypeOK'
  <2>1. placing' \in [Buyers -> {NoPlacing} \cup [discount : Nat]]
    BY <1>1
  <2>2. \A x \in Buyers : placing'[x].discount <= Worth(Subtotals[x])
    BY <1>2 DEF QInv, PromotionsTypeOK
  <2> QED
    BY <2>1, <2>2 DEF QInv, PromotionsTypeOK
<1>4. \A x \in Buyers : HasRedeemed(x)' <=> HasRedeemed(x)
  BY DEF HasRedeemed
<1>5. ASSUME NEW x \in Buyers, HasRedeemed(x)
      PROVE  placing'[x] = placing[x]
  BY <1>2, <1>5
<1>6. DiscountsAddUp'
  BY <1>4, <1>5 DEF QInv, DiscountsAddUp
<1> QED
  BY <1>3, <1>6 DEF QInv

LEMMA CheckoutStartsKeeps ==
    ASSUME QInv, NEW u \in Buyers, ValidateVoucher(u) \/ CheckoutFails(u) PROVE QInv'
<1>0. Worth(Subtotals[u]) \in Nat
  BY CartsKnown
<1>1. CASE ValidateVoucher(u)
  <2> DEFINE d == ComputeDiscount(promotion, Worth(Subtotals[u]))
  <2>1. /\ Redeemable /\ ~HasRedeemed(u)
        /\ placing' = [placing EXCEPT ![u] = [discount |-> d]]
        /\ UNCHANGED <<promotion, edit, orders>>
    BY <1>1 DEF ValidateVoucher
  <2>2. promotion \in PromotionType
    BY <2>1 DEF QInv, PromotionsTypeOK, Redeemable, NoPromotion
  <2>3. d \in Nat /\ d <= Worth(Subtotals[u])
    BY <1>0, <2>2, DiscountBounded
  <2> HIDE DEF d
  <2>4. [discount |-> d] \in [discount : Nat] /\ [discount |-> d].discount = d
    BY <2>3
  <2> QED
    BY <2>1, <2>3, <2>4, PlacingMoves
<1>2. CASE CheckoutFails(u)
  <2>1. /\ ~HasRedeemed(u) /\ placing' = [placing EXCEPT ![u] = NoPlacing]
        /\ UNCHANGED <<promotion, edit, orders>>
    BY <1>2 DEF CheckoutFails
  <2>2. NoPlacing.discount <= Worth(Subtotals[u])
    BY <1>0 DEF NoPlacing
  <2> QED
    BY <2>1, <2>2, PlacingMoves
<1> QED
  BY <1>1, <1>2

\* The order set: the discount of the checkout is shared out, and one more
\* buyer has redeemed what is counted once more.
LEMMA CreateOrderSetKeeps == ASSUME QInv, NEW u \in Buyers, CreateOrderSet(u) PROVE QInv'
<1> DEFINE d == placing[u].discount
           shares == splitDiscount(Subtotals[u], d)
<1>1. /\ placing[u] # NoPlacing /\ ~HasRedeemed(u) /\ Redeemable
      /\ TotalsCheck(Subtotals[u], shares)
      /\ promotion' = [promotion EXCEPT !.redeemed = promotion.redeemed + 1]
      /\ orders' = [orders EXCEPT ![u] = shares]
      /\ UNCHANGED <<edit, placing>>
  BY DEF CreateOrderSet
<1>2. /\ promotion \in PromotionType
      /\ orders \in [Buyers -> Seq(0..MaxInt)]
  BY <1>1 DEF QInv, PromotionsTypeOK, Redeemable, NoPromotion
<1>3. d \in Nat /\ d <= Worth(Subtotals[u]) /\ Subtotals[u] \in Cart
  BY <1>1, CartsKnown DEF QInv, PromotionsTypeOK
<1>4. shares \in Seq(0..MaxInt) \ {<<>>} /\ Shared(shares, Subtotals[u], d)
  BY <1>1, <1>3, SplitAddsUp
<1> HIDE DEF shares
<1>5. /\ orders' \in [Buyers -> Seq(0..MaxInt)] /\ orders'[u] = shares
      /\ \A x \in Buyers \ {u} : orders'[x] = orders[x]
  BY <1>1, <1>2, <1>4
<1>6. promotion' \in PromotionType /\ promotion'.redeemed = promotion.redeemed + 1
  <2> DEFINE n == promotion.redeemed + 1
  <2>1. n \in Nat
    BY <1>2 DEF PromotionType
  <2>2. promotion' = [promotion EXCEPT !.redeemed = n]
    BY <1>1
  <2> HIDE DEF n
  <2>3. promotion' \in PromotionType /\ promotion'.redeemed = n
    BY <1>2, <2>1, <2>2 DEF PromotionType
  <2> QED
    BY <2>3 DEF n
<1>7. PromotionsTypeOK'
  BY <1>1, <1>5, <1>6 DEF QInv, PromotionsTypeOK
<1>8. HasRedeemed(u)' /\ \A x \in Buyers \ {u} : HasRedeemed(x)' <=> HasRedeemed(x)
  BY <1>4, <1>5 DEF HasRedeemed
<1>9. promotion'.redeemed = Cardinality(Redeemers')
  <2>1. Redeemers' = Redeemers \cup {u} /\ u \notin Redeemers
    BY <1>1, <1>8 DEF Redeemers
  <2>2. IsFiniteSet(Redeemers)
    BY BuyersAssumption, FS_Subset DEF Redeemers
  <2>3. Cardinality(Redeemers \cup {u}) = Cardinality(Redeemers) + 1
    BY <2>1, <2>2, FS_AddElement
  <2>4. promotion.redeemed = Cardinality(Redeemers)
    BY DEF QInv, DiscountsAddUp, Redeemers
  <2> QED
    BY <1>6, <2>1, <2>3, <2>4
<1>10. ASSUME NEW x \in Buyers, HasRedeemed(x)'
       PROVE  Shared(orders'[x], Subtotals[x], placing'[x].discount)
  <2>1. CASE x = u
    BY <1>1, <1>4, <1>5, <2>1
  <2>2. CASE x # u
    <3>1. HasRedeemed(x) /\ orders'[x] = orders[x] /\ placing'[x] = placing[x]
      BY <1>1, <1>5, <1>8, <1>10, <2>2
    <3>2. Shared(orders[x], Subtotals[x], placing[x].discount)
      BY <3>1 DEF QInv, DiscountsAddUp, Shared
    <3> QED
      BY <3>1, <3>2
  <2> QED
    BY <2>1, <2>2
<1>11. DiscountsAddUp'
  BY <1>9, <1>10 DEF DiscountsAddUp, Redeemers, Shared
<1> QED
  BY <1>6, <1>7, <1>11, PromotionKinds DEF QInv

LEMMA PromotionsSteps == QInv /\ [PromotionsNext]_promotionVars => QInv'
<1> SUFFICES ASSUME QInv, [PromotionsNext]_promotionVars PROVE QInv'
  OBVIOUS
<1>1. CASE UNCHANGED promotionVars
  BY <1>1 DEF promotionVars, QInv, PromotionsTypeOK, DiscountsAddUp, HasRedeemed
<1> QED
  BY <1>1, CreatePromotionKeeps, EditPromotionKeeps, WindowKeeps, CheckoutStartsKeeps,
     CreateOrderSetKeeps DEF PromotionsNext

-----------------------------------------------------------------------------
(* All of MCPayments: each step is one of a module that moves alone. *)

AllInv == PInv /\ QInv /\ AInv

LEMMA AllStart == MCPaymentsInit => AllInv
BY PaymentsStart, PromotionsStart, AccountsStart DEF MCPaymentsInit, AllInv

LEMMA AllSteps ==
    /\ AllInv
    /\ [PaymentsOnly \/ PromotionsOnly \/ AccountsOnly]_<<paymentsVars, promotionVars, accountVars>>
    => AllInv'
<1> SUFFICES
      ASSUME AllInv,
             [PaymentsOnly \/ PromotionsOnly \/ AccountsOnly]_
               <<paymentsVars, promotionVars, accountVars>>
      PROVE  AllInv'
  OBVIOUS
<1>1. /\ [PaymentsNext]_paymentsVars
      /\ [PromotionsNext]_promotionVars
      /\ [AccountsNext]_accountVars
  BY DEF PaymentsOnly, PromotionsOnly, AccountsOnly
<1> QED
  BY <1>1, PaymentsSteps, PromotionsSteps, AccountsSteps DEF AllInv

LEMMA AllInvariant == MCPaymentsSpec => []AllInv
BY AllStart, AllSteps, PTL DEF MCPaymentsSpec

\* DiscountsAddUp: the orders of a checkout share out exactly the discount it
\* computed, none is charged less than nothing, and every redemption is
\* counted, however the promotion was edited in between.
THEOREM DiscountsAreSharedOut == MCPaymentsSpec => []DiscountsAddUp
<1>1. AllInv => DiscountsAddUp
  BY DEF AllInv, QInv
<1> QED
  BY <1>1, AllInvariant, PTL

\* FlagsAreEarned: an account is verified only after its code was presented,
\* and locked only after as many wrong passwords as lock it, whatever rows are
\* written back from reads that had grown old.
THEOREM AccountFlagsAreEarned == MCPaymentsSpec => []FlagsAreEarned
<1>1. AInv => FlagsAreEarned
  <2>1. AInv => (user.locked = TRUE => failed >= MaxFailures)
    BY DEF AInv, RowSound, RowCounted
  <2>2. AInv => (user.verified = TRUE => presented = TRUE)
    BY DEF AInv, RowSound, RowCoded
  <2>3. AInv => user.locked \in BOOLEAN /\ user.verified \in BOOLEAN
    BY DEF AInv, AccountsTypeOK, Rows
  <2> QED
    BY <2>1, <2>2, <2>3, Zenon DEF FlagsAreEarned
<1>2. AllInv => FlagsAreEarned
  BY <1>1 DEF AllInv
<1> QED
  BY <1>2, AllInvariant, PTL

\* The type invariant of the three modules together.
THEOREM MCPaymentsTypeCorrect == MCPaymentsSpec => []MCPaymentsTypeOK
<1>1. AllInv => MCPaymentsTypeOK
  <2>1. PInv => PaymentsTypeOK
    BY DEF PInv, BInv, SInv, RInv, RefundsTypeOK, PaymentsTypeOK
  <2>2. QInv => PromotionsTypeOK
    BY DEF QInv
  <2>3. AInv => AccountsTypeOK
    BY DEF AInv
  <2> QED
    BY <2>1, <2>2, <2>3 DEF AllInv, MCPaymentsTypeOK
<1> QED
  BY <1>1, AllInvariant, PTL

=============================================================================
