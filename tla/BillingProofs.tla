---------------------------- MODULE BillingProofs ----------------------------
(***************************************************************************)
(* Proofs about Billing: for any number of orders, workers and keys and    *)
(* any prices, the ledger of an invoice is right and no car leaves unpaid. *)
(*                                                                         *)
(* Neither property is inductive.  The ledger needs that an invoice has at *)
(* most one payment in progress, checked against a balance that cannot     *)
(* have moved since.  The delivery needs that an edit which read the OS as *)
(* delivered finds the invoice paid when it writes that status back.       *)
(***************************************************************************)
EXTENDS StatusHistory, TLAPS

\* The names Billing gives to parts of its actions are always expanded.
USE DEF Invoiced, AddInvoice, TakesPayments, Replayed, AddPayment, Settles,
        SaveInvoice, HandsOver

\* A payment in progress still fits what is owed.
PaymentsFit ==
  \A w \in Workers : Serves(w, "payment") =>
    /\ invoice[jobs[w].os] \in {"PENDING", "PARTIALLY_PAID"}
    /\ jobs[w].amount <= Balance(jobs[w].os)

\* The lock of an invoice row is held once.
OnePayment ==
  \A v, w \in Workers :
    /\ Serves(v, "payment")
    /\ Serves(w, "payment")
    /\ jobs[v].os = jobs[w].os
    => v = w

\* Who has read an OS as delivered has read it after its invoice was paid.
SeenDelivered ==
  \A w \in Workers :
    jobs[w] # Idle /\ jobs[w].seen = "ENTREGUE" => invoice[jobs[w].os] = "PAID"

IInv == /\ TypeOK
        /\ LedgerAgrees
        /\ PaymentsFit
        /\ OnePayment
        /\ DeliveredMeansPaid
        /\ SeenDelivered

-----------------------------------------------------------------------------
(***************************************************************************)
(* The invariant holds at first and every step preserves it.               *)
(***************************************************************************)

LEMMA Initially == Init => IInv
<1> SUFFICES ASSUME Init PROVE IInv
  OBVIOUS
<1>1. TypeOK
  BY DEF Init, TypeOK, Closing, InvoiceStatuses, NoInvoice
<1>2. LedgerAgrees
  <2> SUFFICES ASSUME NEW o \in Orders
               PROVE  /\ paid[o] <= total[o]
                      /\ invoice[o] \in {NoInvoice, "PENDING"} <=> paid[o] = 0
                      /\ invoice[o] = "PAID" <=> paid[o] > 0 /\ paid[o] = total[o]
    BY DEF LedgerAgrees
  <2>1. total[o] \in Nat /\ paid[o] = 0 /\ invoice[o] = NoInvoice
    BY PricesAssumption DEF Init
  <2> QED BY <2>1 DEF NoInvoice
<1>3. PaymentsFit /\ OnePayment /\ SeenDelivered
  BY DEF Init, PaymentsFit, OnePayment, SeenDelivered, Serves
<1>4. DeliveredMeansPaid
  BY DEF Init, DeliveredMeansPaid
<1> QED BY <1>1, <1>2, <1>3, <1>4 DEF IInv

\* A worker that serves a request holds a job of its own kind.
LEMMA JobType ==
  ASSUME TypeOK, NEW w \in Workers, jobs[w] # Idle
  PROVE  /\ jobs[w].os \in Orders
         /\ jobs[w].seen \in Closing
         /\ jobs[w].kind = "payment" => jobs[w] \in Paying
BY DEF TypeOK, Reading, Paying

\* Reading an OS changes the worker's job alone.
LEMMA BeginPreserves ==
  ASSUME IInv, NEW w \in Workers, NEW o \in Orders,
         NEW kind \in {"edit", "finish", "deliver"}, NEW accepted,
         Begin(w, o, kind, accepted)
  PROVE  IInv'
<1> DEFINE job == [kind |-> kind, os |-> o, seen |-> status[o]]
<1>1. /\ TypeOK
      /\ jobs' = [jobs EXCEPT ![w] = job]
      /\ UNCHANGED <<status, total, invoice, paid, used>>
  BY DEF IInv, Begin
<1>2. job \in Reading /\ job.kind # "payment" /\ job.os = o /\ job.seen = status[o]
  BY <1>1 DEF TypeOK, Reading
<1>3. jobs'[w] = job /\ \A v \in Workers \ {w} : jobs'[v] = jobs[v]
  BY <1>1 DEF TypeOK
<1>4. \A v \in Workers : Serves(v, "payment")' => v # w /\ Serves(v, "payment")
  BY <1>2, <1>3 DEF Serves
<1> HIDE DEF job
<1>5. TypeOK'
  BY <1>1, <1>2 DEF TypeOK
<1>6. LedgerAgrees' /\ DeliveredMeansPaid'
  BY <1>1 DEF IInv, LedgerAgrees, DeliveredMeansPaid
<1>7. PaymentsFit'
  BY <1>1, <1>3, <1>4 DEF IInv, PaymentsFit, Balance
<1>8. OnePayment'
  BY <1>3, <1>4 DEF IInv, OnePayment
<1>9. SeenDelivered'
  <2> SUFFICES ASSUME NEW v \in Workers, jobs'[v] # Idle, jobs'[v].seen = "ENTREGUE"
               PROVE  invoice'[jobs'[v].os] = "PAID"
    BY DEF SeenDelivered
  <2>1. CASE v = w
    BY <2>1, <1>1, <1>2, <1>3 DEF IInv, DeliveredMeansPaid
  <2>2. CASE v # w
    BY <2>2, <1>1, <1>3 DEF IInv, SeenDelivered
  <2> QED BY <2>1, <2>2
<1> QED BY <1>5, <1>6, <1>7, <1>8, <1>9 DEF IInv

\* A request that ends and leaves the invoices alone only has to keep the
\* cars that are not paid for.
LEMMA AnswerPreserves ==
  ASSUME IInv, NEW w \in Workers, Answer(w),
         UNCHANGED <<total, invoice, paid, used>>,
         status' \in [Orders -> Closing], DeliveredMeansPaid'
  PROVE  IInv'
<1>1. /\ TypeOK
      /\ jobs' = [jobs EXCEPT ![w] = Idle]
  BY DEF IInv, Answer
<1>2. jobs'[w] = Idle /\ \A v \in Workers \ {w} : jobs'[v] = jobs[v]
  BY <1>1 DEF TypeOK
<1>3. TypeOK'
  BY <1>1 DEF TypeOK
<1>4. LedgerAgrees'
  BY DEF IInv, LedgerAgrees
<1>5. \A v \in Workers : Serves(v, "payment")' => v # w /\ Serves(v, "payment")
  BY <1>2 DEF Serves
<1>6. PaymentsFit'
  BY <1>2, <1>5 DEF IInv, PaymentsFit, Balance
<1>7. OnePayment'
  BY <1>2, <1>5 DEF IInv, OnePayment
<1>8. SeenDelivered'
  BY <1>2 DEF IInv, SeenDelivered
<1> QED BY <1>3, <1>4, <1>6, <1>7, <1>8 DEF IInv

\* No payment is in progress and no OS delivered where there is no invoice.
LEMMA CreateInvoicePreserves ==
  ASSUME IInv, NEW o \in Orders, CreateInvoice(o)
  PROVE  IInv'
<1>1. /\ TypeOK
      /\ invoice[o] = NoInvoice
      /\ invoice' = [invoice EXCEPT ![o] = "PENDING"]
      /\ UNCHANGED <<status, total, paid, used, jobs>>
  BY DEF IInv, CreateInvoice
<1>2. invoice'[o] = "PENDING" /\ \A p \in Orders \ {o} : invoice'[p] = invoice[p]
  BY <1>1 DEF TypeOK
<1>3. TypeOK'
  BY <1>1 DEF TypeOK, InvoiceStatuses
<1>4. LedgerAgrees'
  BY <1>1, <1>2 DEF IInv, LedgerAgrees, NoInvoice
<1>5. PaymentsFit' /\ OnePayment'
  BY <1>1, <1>2, JobType DEF IInv, PaymentsFit, OnePayment, Serves, Balance
<1>6. DeliveredMeansPaid' /\ SeenDelivered'
  BY <1>1, <1>2, JobType DEF IInv, DeliveredMeansPaid, SeenDelivered, NoInvoice
<1> QED BY <1>3, <1>4, <1>5, <1>6 DEF IInv

\* A payment is checked against the balance under the lock of its invoice.
LEMMA RecordPaymentPreserves ==
  ASSUME IInv, NEW w \in Workers, NEW o \in Orders, NEW key \in Keys,
         NEW amount \in Nat, RecordPayment(w, o, key, amount)
  PROVE  IInv'
<1> DEFINE job == [kind |-> "payment", os |-> o, seen |-> status[o],
                   key |-> key, amount |-> amount]
<1>1. /\ TypeOK
      /\ invoice[o] \in {"PENDING", "PARTIALLY_PAID"}
      /\ ~Locked(o)
      /\ 0 < amount
      /\ amount <= Balance(o)
      /\ jobs' = [jobs EXCEPT ![w] = job]
      /\ UNCHANGED <<status, total, invoice, paid, used>>
  BY DEF IInv, RecordPayment, Payable
<1>2. /\ job \in Paying
      /\ job.os = o
      /\ job.seen = status[o]
      /\ job.amount = amount
  BY <1>1 DEF TypeOK, Paying
<1>3. jobs'[w] = job /\ \A v \in Workers \ {w} : jobs'[v] = jobs[v]
  BY <1>1 DEF TypeOK
<1>4. \A v \in Workers \ {w} : Serves(v, "payment")' => jobs'[v].os # o
  BY <1>1, <1>3 DEF Locked, Serves
<1> HIDE DEF job
<1>5. TypeOK'
  BY <1>1, <1>2 DEF TypeOK
<1>6. LedgerAgrees' /\ DeliveredMeansPaid'
  BY <1>1 DEF IInv, LedgerAgrees, DeliveredMeansPaid
<1>7. PaymentsFit'
  <2> SUFFICES ASSUME NEW v \in Workers, Serves(v, "payment")'
               PROVE  /\ invoice'[jobs'[v].os] \in {"PENDING", "PARTIALLY_PAID"}
                      /\ (jobs[v].amount <= Balance(jobs[v].os))'
    BY DEF PaymentsFit
  <2>1. CASE v = w
    BY <2>1, <1>1, <1>2, <1>3 DEF Balance
  <2>2. CASE v # w
    BY <2>2, <1>1, <1>3 DEF IInv, PaymentsFit, Serves, Balance
  <2> QED BY <2>1, <2>2
<1>8. OnePayment'
  BY <1>2, <1>3, <1>4 DEF IInv, OnePayment, Serves
<1>9. SeenDelivered'
  <2> SUFFICES ASSUME NEW v \in Workers, jobs'[v] # Idle, jobs'[v].seen = "ENTREGUE"
               PROVE  invoice'[jobs'[v].os] = "PAID"
    BY DEF SeenDelivered
  <2>1. CASE v = w
    BY <2>1, <1>1, <1>2, <1>3 DEF IInv, DeliveredMeansPaid
  <2>2. CASE v # w
    BY <2>2, <1>1, <1>3 DEF IInv, SeenDelivered
  <2> QED BY <2>1, <2>2
<1> QED BY <1>5, <1>6, <1>7, <1>8, <1>9 DEF IInv

\* The committed payment moves the balance of its own invoice, on which no
\* other payment is in progress.
LEMMA CommitPaymentPreserves ==
  ASSUME IInv, NEW w \in Workers, CommitPayment(w)
  PROVE  IInv'
<1> DEFINE o == jobs[w].os
           amount == jobs[w].amount
           settled == amount = Balance(o)
<1>1. /\ TypeOK
      /\ Serves(w, "payment")
      /\ paid' = [paid EXCEPT ![o] = @ + amount]
      /\ used' = [used EXCEPT ![o] = @ \cup {jobs[w].key}]
      /\ invoice' = [invoice EXCEPT ![o] = IF settled THEN "PAID" ELSE "PARTIALLY_PAID"]
      /\ status' = IF settled /\ jobs[w].seen = "FINALIZADA"
                   THEN [status EXCEPT ![o] = "ENTREGUE"] ELSE status
      /\ jobs' = [jobs EXCEPT ![w] = Idle]
      /\ total' = total
  BY DEF IInv, CommitPayment, Answer
<1>2. /\ o \in Orders
      /\ amount \in Nat \ {0}
      /\ jobs[w].key \in Keys
  BY <1>1, JobType DEF Serves, Paying
<1>3. /\ total[o] \in Nat
      /\ paid[o] \in Nat
      /\ amount <= total[o] - paid[o]
      /\ invoice[o] \in {"PENDING", "PARTIALLY_PAID"}
  BY <1>1, <1>2, PricesAssumption DEF IInv, TypeOK, PaymentsFit, Balance
<1>4. jobs'[w] = Idle /\ \A v \in Workers \ {w} : jobs'[v] = jobs[v]
  BY <1>1 DEF TypeOK
<1>5. \A v \in Workers : Serves(v, "payment")'
                           => v # w /\ Serves(v, "payment") /\ jobs[v].os # o
  BY <1>1, <1>4 DEF IInv, OnePayment, Serves
<1> HIDE DEF o, amount
<1>6. /\ paid'[o] = paid[o] + amount
      /\ invoice'[o] = IF settled THEN "PAID" ELSE "PARTIALLY_PAID"
      /\ \A p \in Orders \ {o} : /\ paid'[p] = paid[p]
                                 /\ invoice'[p] = invoice[p]
                                 /\ status'[p] = status[p]
  BY <1>1, <1>2 DEF TypeOK
<1>7. TypeOK'
  <2>1. status' \in [Orders -> Closing]
    BY <1>1 DEF TypeOK, Closing
  <2>2. paid' \in [Orders -> Nat] /\ invoice' \in [Orders -> InvoiceStatuses]
    BY <1>1, <1>2 DEF TypeOK, InvoiceStatuses
  <2>3. used' \in [Orders -> SUBSET Keys]
    BY <1>1, <1>2 DEF TypeOK
  <2> QED BY <1>1, <2>1, <2>2, <2>3 DEF TypeOK
<1>8. LedgerAgrees'
  <2> SUFFICES ASSUME NEW p \in Orders
               PROVE  /\ paid'[p] <= total'[p]
                      /\ invoice'[p] \in {NoInvoice, "PENDING"} <=> paid'[p] = 0
                      /\ invoice'[p] = "PAID" <=> paid'[p] > 0 /\ paid'[p] = total'[p]
    BY DEF LedgerAgrees
  <2>1. CASE p = o
    BY <2>1, <1>1, <1>2, <1>3, <1>6 DEF Balance, NoInvoice
  <2>2. CASE p # o
    BY <2>2, <1>1, <1>6 DEF IInv, LedgerAgrees
  <2> QED BY <2>1, <2>2
<1>9. invoice[o] # "PAID" /\ \A p \in Orders : invoice[p] = "PAID" => invoice'[p] = "PAID"
  BY <1>3, <1>6
<1>10. DeliveredMeansPaid'
  <2> SUFFICES ASSUME NEW p \in Orders, status'[p] = "ENTREGUE"
               PROVE  invoice'[p] = "PAID"
    BY DEF DeliveredMeansPaid
  <2>1. CASE status[p] = "ENTREGUE"
    BY <2>1, <1>9 DEF IInv, DeliveredMeansPaid
  <2>2. CASE status[p] # "ENTREGUE"
    BY <2>2, <1>1, <1>6
  <2> QED BY <2>1, <2>2
<1>11. PaymentsFit'
  <2> SUFFICES ASSUME NEW v \in Workers, Serves(v, "payment")'
               PROVE  /\ invoice'[jobs'[v].os] \in {"PENDING", "PARTIALLY_PAID"}
                      /\ (jobs[v].amount <= Balance(jobs[v].os))'
    BY DEF PaymentsFit
  <2>1. jobs'[v] = jobs[v] /\ Serves(v, "payment") /\ jobs[v].os # o
    BY <1>4, <1>5
  <2>2. jobs[v].os \in Orders
    BY <2>1, <1>1, JobType DEF Serves
  <2> QED BY <2>1, <2>2, <1>1, <1>6 DEF IInv, PaymentsFit, Balance
<1>12. OnePayment'
  BY <1>4, <1>5 DEF IInv, OnePayment
<1>13. SeenDelivered'
  BY <1>1, <1>4, <1>9, JobType DEF IInv, SeenDelivered
<1> QED BY <1>7, <1>8, <1>10, <1>11, <1>12, <1>13 DEF IInv

LEMMA StepPreserves == IInv /\ [Next]_vars => IInv'
<1> SUFFICES ASSUME IInv, [Next]_vars PROVE IInv'
  OBVIOUS
<1>0. TypeOK /\ DeliveredMeansPaid /\ SeenDelivered
  BY DEF IInv
<1>1. ASSUME NEW w \in Workers, NEW o \in Orders,
             BeginEdit(w, o) \/ BeginFinish(w, o) \/ BeginDeliver(w, o)
      PROVE  IInv'
  BY <1>1, BeginPreserves DEF BeginEdit, BeginFinish, BeginDeliver
<1>2. ASSUME NEW w \in Workers, NEW o \in Orders, NEW key \in Keys,
             PayInvoice(w, o, key)
      PROVE  IInv'
  <2>1. total[o] \in Nat /\ paid[o] \in Nat /\ paid[o] <= total[o]
    BY PricesAssumption DEF IInv, TypeOK, LedgerAgrees
  <2>2. Balance(o) \in Nat
    BY <2>1 DEF Balance
  <2> QED BY <1>2, <2>2, RecordPaymentPreserves DEF PayInvoice
<1>3. ASSUME NEW w \in Workers, NEW o \in Orders, NEW key \in Keys,
             NEW amount \in 1 .. total[o], RecordPayment(w, o, key, amount)
      PROVE  IInv'
  <2>1. amount \in Nat
    BY <1>0, PricesAssumption DEF TypeOK
  <2> QED BY <1>3, <2>1, RecordPaymentPreserves
<1>4. ASSUME NEW w \in Workers, SaveEdit(w)
      PROVE  IInv'
  <2>1. /\ jobs[w].os \in Orders
        /\ jobs[w].seen \in Closing
        /\ jobs[w].seen = "ENTREGUE" => invoice[jobs[w].os] = "PAID"
    BY <1>0, <1>4, JobType DEF SaveEdit, Serves, SeenDelivered
  <2>2. status' \in [Orders -> Closing] /\ DeliveredMeansPaid'
    BY <1>0, <1>4, <2>1 DEF SaveEdit, TypeOK, DeliveredMeansPaid
  <2> QED BY <1>4, <2>2, AnswerPreserves DEF SaveEdit
<1>5. ASSUME NEW w \in Workers, SaveFinish(w)
      PROVE  IInv'
  <2>1. status' \in [Orders -> Closing] /\ DeliveredMeansPaid'
    BY <1>0, <1>5 DEF SaveFinish, TypeOK, DeliveredMeansPaid, Closing
  <2> QED BY <1>5, <2>1, AnswerPreserves DEF SaveFinish
<1>6. ASSUME NEW w \in Workers, SaveDeliver(w)
      PROVE  IInv'
  <2>1. status' \in [Orders -> Closing] /\ DeliveredMeansPaid'
    BY <1>0, <1>6 DEF SaveDeliver, TypeOK, DeliveredMeansPaid, Closing
  <2> QED BY <1>6, <2>1, AnswerPreserves DEF SaveDeliver
<1>7. ASSUME NEW w \in Workers, CommitPayment(w)
      PROVE  IInv'
  BY <1>7, CommitPaymentPreserves
<1>8. ASSUME NEW w \in Workers, Rollback(w)
      PROVE  IInv'
  <2>1. status' \in [Orders -> Closing] /\ DeliveredMeansPaid'
    BY <1>0, <1>8 DEF Rollback, TypeOK, DeliveredMeansPaid
  <2> QED BY <1>8, <2>1, AnswerPreserves DEF Rollback
<1>9. ASSUME NEW o \in Orders, CreateInvoice(o)
      PROVE  IInv'
  BY <1>9, CreateInvoicePreserves
<1>10. CASE UNCHANGED vars
  BY <1>10 DEF vars, IInv, TypeOK, LedgerAgrees, PaymentsFit, OnePayment,
               DeliveredMeansPaid, SeenDelivered, Serves, Balance
<1> QED
  BY <1>1, <1>2, <1>3, <1>4, <1>5, <1>6, <1>7, <1>8, <1>9, <1>10 DEF Next

LEMMA Invariance == Spec => []IInv
BY Initially, StepPreserves, PTL DEF Spec

-----------------------------------------------------------------------------
\* Every variable keeps its type.
THEOREM TypeCorrect == Spec => []TypeOK
<1>1. IInv => TypeOK
  BY DEF IInv
<1> QED BY <1>1, Invariance, PTL

\* Whatever payments overlap, the status of an invoice is what its payments
\* add up to, and they never exceed its amount.
THEOREM LedgerAlwaysAgrees == Spec => []LedgerAgrees
<1>1. IInv => LedgerAgrees
  BY DEF IInv
<1> QED BY <1>1, Invariance, PTL

\* No car leaves before its invoice is paid.
THEOREM NoCarLeavesUnpaid == Spec => []DeliveredMeansPaid
<1>1. IInv => DeliveredMeansPaid
  BY DEF IInv
<1> QED BY <1>1, Invariance, PTL

-----------------------------------------------------------------------------
(***************************************************************************)
(* Who takes a delivered OS back.                                          *)
(***************************************************************************)

\* Only an OS in execution is being finished.
FinishingSeen ==
  \A w \in Workers : Serves(w, "finish") => jobs[w].seen = "EM_EXECUCAO"

LEMMA FinishingInvariance == Spec => []FinishingSeen
<1>1. Init => FinishingSeen
  BY DEF Init, FinishingSeen, Serves
<1>2. TypeOK /\ FinishingSeen /\ [Next]_vars => FinishingSeen'
  <2> SUFFICES ASSUME TypeOK, FinishingSeen, [Next]_vars,
                      NEW v \in Workers, Serves(v, "finish")'
               PROVE  jobs'[v].seen = "EM_EXECUCAO"
    BY DEF FinishingSeen
  <2>1. ASSUME NEW w \in Workers, Answer(w)
        PROVE  jobs'[v].seen = "EM_EXECUCAO"
    BY <2>1 DEF Answer, TypeOK, FinishingSeen, Serves
  <2>2. ASSUME NEW w \in Workers, NEW o \in Orders,
               BeginEdit(w, o) \/ BeginFinish(w, o) \/ BeginDeliver(w, o)
        PROVE  jobs'[v].seen = "EM_EXECUCAO"
    BY <2>2 DEF BeginEdit, BeginFinish, BeginDeliver, Begin, TypeOK,
                FinishingSeen, Serves
  <2>3. ASSUME NEW w \in Workers, NEW o \in Orders, NEW key \in Keys,
               NEW amount, RecordPayment(w, o, key, amount)
        PROVE  jobs'[v].seen = "EM_EXECUCAO"
    BY <2>3 DEF RecordPayment, TypeOK, FinishingSeen, Serves
  <2>4. CASE UNCHANGED jobs
    BY <2>4 DEF FinishingSeen, Serves
  <2> QED
    BY <2>1, <2>2, <2>3, <2>4
    DEF Next, vars, PayInvoice, CreateInvoice, SaveEdit, SaveFinish,
        SaveDeliver, CommitPayment, Rollback
<1> QED BY <1>1, <1>2, TypeCorrect, PTL DEF Spec

\* An OS that stops being delivered was read before its delivery by the
\* request that writes it: no operation that starts later does that.
THEOREM DeliveryIsFinalButForStaleWrites == Spec => OnlyStaleWritesReopen
<1> DEFINE Reopened(o) == status[o] = "ENTREGUE" /\ status'[o] # "ENTREGUE"
           StaleWrite(w, o) == /\ jobs[w] # Idle
                               /\ jobs'[w] = Idle
                               /\ jobs[w].os = o
                               /\ jobs[w].seen # "ENTREGUE"
<1>1. TypeOK /\ FinishingSeen /\ [Next]_vars
        => [\A o \in Orders : Reopened(o) => \E w \in Workers : StaleWrite(w, o)]_vars
  <2> SUFFICES ASSUME TypeOK, FinishingSeen, Next, NEW o \in Orders, Reopened(o)
               PROVE  \E w \in Workers : StaleWrite(w, o)
    OBVIOUS
  <2>1. ASSUME NEW w \in Workers, SaveEdit(w)
        PROVE  StaleWrite(w, o)
    <3>1. jobs'[w] = Idle
      BY <2>1 DEF SaveEdit, Answer, TypeOK
    <3>2. status'[o] = jobs[w].seen /\ jobs[w].os = o
      BY <2>1 DEF SaveEdit, TypeOK
    <3> QED BY <2>1, <3>1, <3>2 DEF SaveEdit, Serves
  <2>2. ASSUME NEW w \in Workers, SaveFinish(w)
        PROVE  StaleWrite(w, o)
    <3>1. jobs'[w] = Idle
      BY <2>2 DEF SaveFinish, Answer, TypeOK
    <3>2. jobs[w].os = o
      BY <2>2 DEF SaveFinish, TypeOK
    <3> QED BY <2>2, <3>1, <3>2 DEF SaveFinish, Serves, FinishingSeen
  <2>3. ASSUME NEW w \in Workers, SaveDeliver(w) \/ CommitPayment(w)
        PROVE  FALSE
    BY <2>3 DEF SaveDeliver, CommitPayment, TypeOK
  <2>4. UNCHANGED status => FALSE
    OBVIOUS
  <2> QED
    BY <2>1, <2>2, <2>3, <2>4
    DEF Next, BeginEdit, BeginFinish, BeginDeliver, Begin, PayInvoice,
        RecordPayment, CreateInvoice, Rollback
<1>2. []TypeOK /\ []FinishingSeen /\ [][Next]_vars => OnlyStaleWritesReopen
  BY <1>1, PTL DEF OnlyStaleWritesReopen
<1> QED BY <1>2, TypeCorrect, FinishingInvariance, PTL DEF Spec

-----------------------------------------------------------------------------
(***************************************************************************)
(* What paying in full takes: that no request changes the status of an OS  *)
(* it read in another one, which a version or a lock on the row would see  *)
(* to.                                                                     *)
(***************************************************************************)

\* Whoever changes a status has read the one it replaces.
NoStaleChange ==
  \A w \in Workers :
    /\ jobs[w] # Idle
    /\ jobs'[w] = Idle
    /\ status'[jobs[w].os] # status[jobs[w].os]
    => jobs[w].seen = status[jobs[w].os]

\* The inductive invariant: an OS stays finished from its invoice on, so that
\* every payment reads it as finished, the one that settles the invoice too.
InvoicedIsFinished ==
  \A o \in Orders : Invoiced(o) => status[o] \in {"FINALIZADA", "ENTREGUE"}

PayingSeesFinished ==
  \A w \in Workers : Serves(w, "payment") => jobs[w].seen = "FINALIZADA"

PaidInv == InvoicedIsFinished /\ PayingSeesFinished /\ PaidMeansDelivered

\* A request that ends without a payment leaves the invoices, and the status of
\* an OS with an invoice only changes into delivered.
LEMMA AnswerKeepsPaid ==
  ASSUME TypeOK, PaidInv, NEW w \in Workers, jobs[w] # Idle, Answer(w),
         UNCHANGED invoice,
         \A o \in Orders : status'[o] # status[o] =>
           \/ status'[o] = "ENTREGUE"
           \/ ~Invoiced(o)
           \/ status[o] # "ENTREGUE" /\ status'[o] = "FINALIZADA"
  PROVE  PaidInv'
<1>1. jobs'[w] = Idle /\ \A v \in Workers \ {w} : jobs'[v] = jobs[v]
  BY DEF TypeOK, Answer
<1>2. PayingSeesFinished'
  BY <1>1 DEF PaidInv, PayingSeesFinished, Serves
<1>3. InvoicedIsFinished'
  BY DEF PaidInv, InvoicedIsFinished
<1>4. PaidMeansDelivered'
  BY DEF PaidInv, PaidMeansDelivered, NoInvoice
<1> QED BY <1>2, <1>3, <1>4 DEF PaidInv

\* A job that is read, with the status its OS has.
LEMMA ReadingKeepsPaid ==
  ASSUME TypeOK, PaidInv, NEW w \in Workers, NEW job,
         jobs' = [jobs EXCEPT ![w] = job], UNCHANGED <<status, invoice>>,
         job.kind = "payment" => job.seen = "FINALIZADA"
  PROVE  PaidInv'
<1>1. jobs'[w] = job /\ \A v \in Workers \ {w} : jobs'[v] = jobs[v]
  BY DEF TypeOK
<1>2. PayingSeesFinished'
  BY <1>1 DEF PaidInv, PayingSeesFinished, Serves
<1>3. InvoicedIsFinished' /\ PaidMeansDelivered'
  BY DEF PaidInv, InvoicedIsFinished, PaidMeansDelivered
<1> QED BY <1>2, <1>3 DEF PaidInv

LEMMA PaidStep ==
  ASSUME IInv, FinishingSeen, PaidInv, [Next /\ NoStaleChange]_vars
  PROVE  PaidInv'
<1>1. TypeOK /\ DeliveredMeansPaid
  BY DEF IInv
<1>2. ASSUME NEW w \in Workers, NEW o \in Orders,
             BeginEdit(w, o) \/ BeginFinish(w, o) \/ BeginDeliver(w, o)
      PROVE  PaidInv'
  <2>1. PICK kind \in {"edit", "finish", "deliver"} :
          /\ jobs' = [jobs EXCEPT ![w] = [kind |-> kind, os |-> o, seen |-> status[o]]]
          /\ UNCHANGED <<status, invoice>>
    BY <1>2 DEF BeginEdit, BeginFinish, BeginDeliver, Begin
  <2> QED BY <1>1, <2>1, ReadingKeepsPaid
<1>3. ASSUME NEW w \in Workers, NEW o \in Orders, NEW key \in Keys,
             NEW amount, RecordPayment(w, o, key, amount)
      PROVE  PaidInv'
  <2>1. invoice[o] \in {"PENDING", "PARTIALLY_PAID"}
    BY <1>3 DEF RecordPayment
  <2>2. status[o] = "FINALIZADA"
    BY <1>1, <2>1 DEF PaidInv, InvoicedIsFinished, DeliveredMeansPaid, NoInvoice
  <2>3. /\ jobs' = [jobs EXCEPT ![w] = [kind |-> "payment", os |-> o,
                      seen |-> status[o], key |-> key, amount |-> amount]]
        /\ UNCHANGED <<status, invoice>>
    BY <1>3 DEF RecordPayment
  <2> QED BY <1>1, <2>2, <2>3, ReadingKeepsPaid
<1>4. ASSUME NEW w \in Workers, SaveEdit(w), NoStaleChange
      PROVE  PaidInv'
  <2>1. jobs[w] # Idle /\ jobs[w].os \in Orders /\ jobs'[w] = Idle
    BY <1>1, <1>4, JobType DEF SaveEdit, Serves, Answer, TypeOK
  <2>2. status' = status
    BY <1>1, <1>4, <2>1 DEF SaveEdit, NoStaleChange, TypeOK
  <2> QED BY <1>1, <1>4, <2>1, <2>2, AnswerKeepsPaid DEF SaveEdit
<1>5. ASSUME NEW w \in Workers, SaveFinish(w), NoStaleChange
      PROVE  PaidInv'
  <2>1. /\ jobs[w] # Idle /\ jobs[w].os \in Orders /\ jobs'[w] = Idle
        /\ jobs[w].seen = "EM_EXECUCAO"
    BY <1>1, <1>5, JobType DEF SaveFinish, Serves, Answer, TypeOK, FinishingSeen
  <2>2. \A o \in Orders : status'[o] # status[o] =>
          status[o] # "ENTREGUE" /\ status'[o] = "FINALIZADA"
    BY <1>1, <1>5, <2>1 DEF SaveFinish, NoStaleChange, TypeOK
  <2> QED BY <1>1, <1>5, <2>1, <2>2, AnswerKeepsPaid DEF SaveFinish
<1>6. ASSUME NEW w \in Workers, SaveDeliver(w)
      PROVE  PaidInv'
  <2>1. /\ jobs[w] # Idle
        /\ \A o \in Orders : status'[o] # status[o] => status'[o] = "ENTREGUE"
    BY <1>1, <1>6 DEF SaveDeliver, Serves, TypeOK
  <2> QED BY <1>1, <1>6, <2>1, AnswerKeepsPaid DEF SaveDeliver
<1>7. ASSUME NEW w \in Workers, Rollback(w)
      PROVE  PaidInv'
  BY <1>1, <1>7, AnswerKeepsPaid DEF Rollback
<1>8. ASSUME NEW w \in Workers, CommitPayment(w)
      PROVE  PaidInv'
  <2> DEFINE o == jobs[w].os
             settled == jobs[w].amount = Balance(o)
  <2>1. /\ Serves(w, "payment")
        /\ jobs[w].seen = "FINALIZADA"
        /\ invoice' = [invoice EXCEPT ![o] = IF settled THEN "PAID" ELSE "PARTIALLY_PAID"]
        /\ status' = IF settled THEN [status EXCEPT ![o] = "ENTREGUE"] ELSE status
        /\ jobs' = [jobs EXCEPT ![w] = Idle]
    BY <1>8 DEF CommitPayment, Answer, PaidInv, PayingSeesFinished
  <2>2. /\ o \in Orders
        /\ invoice[o] \in {"PENDING", "PARTIALLY_PAID"}
    BY <1>1, <2>1, JobType DEF IInv, PaymentsFit, Serves
  <2> HIDE DEF o, settled
  <2>3. /\ invoice'[o] = IF settled THEN "PAID" ELSE "PARTIALLY_PAID"
        /\ status'[o] = IF settled THEN "ENTREGUE" ELSE status[o]
        /\ \A p \in Orders \ {o} : invoice'[p] = invoice[p] /\ status'[p] = status[p]
    BY <1>1, <2>1, <2>2 DEF TypeOK
  <2>4. PayingSeesFinished'
    BY <1>1, <2>1 DEF PaidInv, PayingSeesFinished, Serves, TypeOK
  <2>5. InvoicedIsFinished'
    BY <2>2, <2>3 DEF PaidInv, InvoicedIsFinished, NoInvoice
  <2>6. PaidMeansDelivered'
    BY <2>3 DEF PaidInv, PaidMeansDelivered
  <2> QED BY <2>4, <2>5, <2>6 DEF PaidInv
<1>9. ASSUME NEW o \in Orders, CreateInvoice(o)
      PROVE  PaidInv'
  <2>1. /\ status[o] = "FINALIZADA"
        /\ invoice' = [invoice EXCEPT ![o] = "PENDING"]
        /\ UNCHANGED <<status, jobs>>
    BY <1>9 DEF CreateInvoice
  <2> QED
    BY <1>1, <2>1
    DEF TypeOK, PaidInv, InvoicedIsFinished, PayingSeesFinished, PaidMeansDelivered, Serves
<1>10. CASE UNCHANGED vars
  BY <1>10 DEF vars, PaidInv, InvoicedIsFinished, PayingSeesFinished,
               PaidMeansDelivered, Serves
<1> QED
  BY <1>2, <1>3, <1>4, <1>5, <1>6, <1>7, <1>8, <1>9, <1>10 DEF Next, PayInvoice

\* Paying in full delivers the OS, as README.md has it, however the requests on it
\* overlap, if none of them changes a status it has not read: the stale change is all
\* that keeps a paid car in the workshop.
THEOREM PaidIsDeliveredUnlessStale ==
  Spec /\ [][NoStaleChange]_vars => []PaidMeansDelivered
<1>1. Init => PaidInv
  BY DEF Init, PaidInv, InvoicedIsFinished, PayingSeesFinished, PaidMeansDelivered,
         Serves, NoInvoice
<1>2. IInv /\ FinishingSeen /\ PaidInv /\ [Next]_vars /\ [NoStaleChange]_vars => PaidInv'
  <2>1. [Next]_vars /\ [NoStaleChange]_vars => [Next /\ NoStaleChange]_vars
    OBVIOUS
  <2> QED BY <2>1, PaidStep
<1>3. PaidInv => PaidMeansDelivered
  BY DEF PaidInv
<1> QED BY <1>1, <1>2, <1>3, Invariance, FinishingInvariance, PTL DEF Spec

-----------------------------------------------------------------------------
(***************************************************************************)
(* The audit trail of StatusHistory: laying it over Billing adds no        *)
(* behaviour to it, and the trail can be relied on, for any orders,        *)
(* workers and request ids, however often ids are reused.                  *)
(*                                                                         *)
(* EventsOnRecord needs, to be inductive, that a worker with a request has *)
(* an id; the step properties then follow action by action.                *)
(***************************************************************************)

\* A worker that serves a request serves one with an id.
AskedWithId ==
  /\ asked \in [Workers -> Keys \cup {Idle}]
  /\ \A w \in Workers : jobs[w] # Idle => asked[w] \in Keys

RecordsTyped ==
  /\ history \in [Orders -> SUBSET Rows]
  /\ emitted \in [Orders -> SUBSET Rows]
  /\ failures \in [Orders -> SUBSET Failures]

HistoryInv == AskedWithId /\ RecordsTyped /\ EventsOnRecord

-----------------------------------------------------------------------------
\* Every step of the history is one of Billing, so what holds of Billing
\* holds with its audit trail laid over it.
THEOREM HistoryIsBilling == HistorySpec => Spec
<1>1. HistoryInit => Init
  BY DEF HistoryInit
<1>2. [HistoryNext]_historyVars => [Next]_vars
  <2>1. ASSUME NEW w \in Workers, NEW o \in Orders, NEW id \in Keys,
               Receive(w, o, id) \/ ReceivePayment(w, o, id)
        PROVE  Next
    BY <2>1 DEF Receive, ReceivePayment, Next
  <2>2. ASSUME NEW w \in Workers,
               \/ CommitEdit(w) \/ CommitFinish(w) \/ CommitDeliver(w)
               \/ Pay(w) \/ Abandon(w)
        PROVE  Next
    BY <2>2 DEF CommitEdit, CommitFinish, CommitDeliver, Pay, Abandon, Next
  <2>3. ASSUME NEW o \in Orders, CreateInvoice(o)
        PROVE  Next
    BY <2>3 DEF Next
  <2>4. UNCHANGED historyVars => UNCHANGED vars
    BY DEF historyVars
  <2> QED BY <2>1, <2>2, <2>3, <2>4 DEF HistoryNext
<1> QED BY <1>1, <1>2, PTL DEF HistorySpec, Spec

LEMMA HistoryTyped == HistorySpec => []TypeOK
BY HistoryIsBilling, TypeCorrect, PTL

-----------------------------------------------------------------------------
LEMMA HistoryInitially == HistoryInit => HistoryInv
BY DEF HistoryInit, Init, HistoryInv, AskedWithId, RecordsTyped, EventsOnRecord

\* The id of a worker that reads is that of its request.
LEMMA ReadingKeepsIds ==
  ASSUME TypeOK, HistoryInv, NEW w \in Workers, NEW id \in Keys, NEW job,
         jobs' = [jobs EXCEPT ![w] = job], Asks(w, id), Quiet
  PROVE  HistoryInv'
<1>1. AskedWithId'
  BY DEF HistoryInv, AskedWithId, Asks, TypeOK
<1>2. RecordsTyped' /\ EventsOnRecord'
  BY DEF HistoryInv, RecordsTyped, EventsOnRecord, Quiet
<1> QED BY <1>1, <1>2 DEF HistoryInv

LEMMA AnsweringKeepsIds ==
  ASSUME TypeOK, HistoryInv, NEW w \in Workers, Answer(w), Done(w)
  PROVE  AskedWithId'
BY DEF HistoryInv, AskedWithId, Answer, Done, TypeOK

\* Recording adds the transition or nothing, and never under an id that is
\* there.
LEMMA RecordAddsOneRow ==
  ASSUME TypeOK, HistoryInv, NEW w \in Workers, jobs[w] # Idle,
         NEW to \in Closing, Record(w, to) \/ UNCHANGED history
  PROVE  /\ history' \in [Orders -> SUBSET Rows]
         /\ \A o \in Orders : history[o] \subseteq history'[o]
         /\ \A o \in Orders : \A row \in history'[o] \ history[o] :
              /\ o = jobs[w].os
              /\ row = Transition(w, to)
              /\ row.id \notin RecordedIds(o)
<1>1. jobs[w].os \in Orders /\ jobs[w].seen \in Closing
  BY JobType
<1>2. Transition(w, to) \in Rows
  BY <1>1 DEF HistoryInv, AskedWithId, Transition, Rows
<1>3. history \in [Orders -> SUBSET Rows]
  BY DEF HistoryInv, RecordsTyped
<1>4. CASE UNCHANGED history
  BY <1>3, <1>4 DEF RecordsTyped
<1>5. CASE /\ asked[w] \notin RecordedIds(jobs[w].os)
           /\ history' = [history EXCEPT ![jobs[w].os] =
                            @ \cup {Transition(w, to)}]
  <2>1. Transition(w, to).id = asked[w]
    BY DEF Transition
  <2> QED BY <1>1, <1>2, <1>3, <1>5, <2>1 DEF RecordsTyped
<1> QED BY <1>4, <1>5 DEF Record

\* The records after a request of w: its row, the telemetry of that row and
\* the report of a failure keep EventsOnRecord.
LEMMA RecordingPreserves ==
  ASSUME TypeOK, HistoryInv, NEW w \in Workers, jobs[w] # Idle,
         NEW to \in Closing, Record(w, to) \/ UNCHANGED history,
         Flush(w) \/ UNCHANGED emitted,
         Report(w) \/ UNCHANGED failures,
         Answer(w), Done(w)
  PROVE  HistoryInv'
<1>1. /\ history' \in [Orders -> SUBSET Rows]
      /\ \A o \in Orders : history[o] \subseteq history'[o]
      /\ \A o \in Orders : \A row \in history'[o] \ history[o] :
           /\ row = Transition(w, to)
           /\ row.id \notin RecordedIds(o)
  BY RecordAddsOneRow
<1>2. jobs[w].os \in Orders /\ asked[w] \in Keys
  BY JobType DEF HistoryInv, AskedWithId
<1>3. /\ emitted' \in [Orders -> SUBSET Rows]
      /\ \A o \in Orders : emitted'[o] \subseteq {row \in history'[o] : IsChange(row)}
  <2>1. CASE UNCHANGED emitted
    BY <1>1, <2>1 DEF HistoryInv, RecordsTyped, EventsOnRecord
  <2>2. ASSUME NEW row \in history'[jobs[w].os] \ history[jobs[w].os],
               IsChange(row), Emit(jobs[w].os, row)
        PROVE  /\ emitted' \in [Orders -> SUBSET Rows]
               /\ \A o \in Orders :
                    emitted'[o] \subseteq {r \in history'[o] : IsChange(r)}
    BY <1>1, <1>2, <2>2 DEF HistoryInv, RecordsTyped, EventsOnRecord, Emit
  <2> QED BY <2>1, <2>2 DEF Flush
<1>4. failures' \in [Orders -> SUBSET Failures]
  <2>1. CASE UNCHANGED failures
    BY <2>1 DEF HistoryInv, RecordsTyped
  <2>2. CASE Report(w)
    <3>1. PICK subsystems \in {{"service_order"}, {"service_order", "event_bus"}} :
            failures' = [failures EXCEPT ![jobs[w].os] = @ \cup
                          {Failure(w, subsystem) : subsystem \in subsystems}]
      BY <2>2 DEF Report
    <3>2. {Failure(w, subsystem) : subsystem \in subsystems} \subseteq Failures
      BY <1>2, <3>1 DEF Failure, Failures
    <3> QED BY <1>2, <3>1, <3>2 DEF HistoryInv, RecordsTyped
  <2> QED BY <2>1, <2>2
<1>5. \A o \in Orders : \A r, s \in history'[o] : r.id = s.id => r = s
  BY <1>1 DEF HistoryInv, EventsOnRecord, RecordedIds
<1>6. RecordsTyped' /\ EventsOnRecord'
  BY <1>1, <1>3, <1>4, <1>5 DEF RecordsTyped, EventsOnRecord
<1>7. AskedWithId'
  BY AnsweringKeepsIds
<1> QED BY <1>6, <1>7 DEF HistoryInv

LEMMA HistoryStepPreserves ==
  TypeOK /\ HistoryInv /\ [HistoryNext]_historyVars => HistoryInv'
<1> SUFFICES ASSUME TypeOK, HistoryInv, [HistoryNext]_historyVars
             PROVE  HistoryInv'
  OBVIOUS
<1>1. ASSUME NEW w \in Workers, NEW o \in Orders, NEW id \in Keys,
             Receive(w, o, id) \/ ReceivePayment(w, o, id)
      PROVE  HistoryInv'
  <2>1. \E job : jobs' = [jobs EXCEPT ![w] = job]
    BY <1>1 DEF Receive, ReceivePayment, BeginEdit, BeginFinish, BeginDeliver,
                Begin, PayInvoice, RecordPayment
  <2>2. Asks(w, id) /\ Quiet
    BY <1>1 DEF Receive, ReceivePayment
  <2> QED BY <2>1, <2>2, ReadingKeepsIds
<1>2. ASSUME NEW w \in Workers, CommitEdit(w)
      PROVE  HistoryInv'
  <2>1. jobs[w] # Idle /\ Answer(w)
    BY <1>2 DEF CommitEdit, SaveEdit, Serves
  <2>2. jobs[w].seen \in Closing
    BY <2>1, JobType
  <2> QED BY <1>2, <2>1, <2>2, RecordingPreserves DEF CommitEdit
<1>3. ASSUME NEW w \in Workers, CommitFinish(w)
      PROVE  HistoryInv'
  <2>1. jobs[w] # Idle /\ Answer(w)
    BY <1>3 DEF CommitFinish, SaveFinish, Serves
  <2>2. "FINALIZADA" \in Closing
    BY DEF Closing
  <2> QED BY <1>3, <2>1, <2>2, RecordingPreserves DEF CommitFinish
<1>4. ASSUME NEW w \in Workers, CommitDeliver(w) \/ Pay(w)
      PROVE  HistoryInv'
  <2>1. jobs[w] # Idle /\ Answer(w)
    BY <1>4 DEF CommitDeliver, SaveDeliver, Pay, CommitPayment, Serves
  <2>2. "ENTREGUE" \in Closing
    BY DEF Closing
  <2> QED BY <1>4, <2>1, <2>2, RecordingPreserves DEF CommitDeliver, Pay
<1>5. ASSUME NEW w \in Workers, Abandon(w)
      PROVE  HistoryInv'
  <2>1. jobs[w] # Idle /\ Answer(w)
    BY <1>5 DEF Abandon, Rollback
  <2>2. "ENTREGUE" \in Closing
    BY DEF Closing
  <2> QED BY <1>5, <2>1, <2>2, RecordingPreserves DEF Abandon
<1>6. CASE UNCHANGED <<jobs, records>>
  BY <1>6 DEF records, HistoryInv, AskedWithId, RecordsTyped, EventsOnRecord
<1> QED
  BY <1>1, <1>2, <1>3, <1>4, <1>5, <1>6
  DEF HistoryNext, historyVars, vars, records, CreateInvoice

LEMMA HistoryInvariance == HistorySpec => []HistoryInv
BY HistoryInitially, HistoryStepPreserves, HistoryTyped, PTL DEF HistorySpec

-----------------------------------------------------------------------------
\* A request of w that ends writes the status of its OS or leaves it; if it
\* writes another one, it records the transition it makes unless the status
\* it saw is not the one it replaces or its id is there already.
LEMMA SaveIsOnRecord ==
  ASSUME TypeOK, HistoryInv, NEW w \in Workers, jobs[w] # Idle, Answer(w),
         NEW to \in Closing, Record(w, to) \/ UNCHANGED history,
         \/ UNCHANGED status
         \/ status' = [status EXCEPT ![jobs[w].os] = jobs[w].seen]
         \/ Record(w, to) /\ status' = [status EXCEPT ![jobs[w].os] = to],
         \A row \in history'[jobs[w].os] \ history[jobs[w].os] :
           IsChange(row) => status'[jobs[w].os] = to
  PROVE  ChangeOnRecord
<1>1. /\ \A o \in Orders : history[o] \subseteq history'[o]
      /\ \A o \in Orders : \A row \in history'[o] \ history[o] :
           o = jobs[w].os /\ row = Transition(w, to)
  BY RecordAddsOneRow
<1>2. jobs'[w] = Idle
  BY DEF Answer, TypeOK
<1>3. status \in [Orders -> Closing] /\ jobs[w].os \in Orders
  BY JobType DEF TypeOK
<1> SUFFICES ASSUME NEW o \in Orders
             PROVE  /\ history[o] \subseteq history'[o]
                    /\ status'[o] # status[o] =>
                         \/ Unrecorded(o)
                         \/ \E row \in history'[o] \ history[o] :
                              row.from = status[o] /\ row.to = status'[o]
                    /\ \A row \in history'[o] \ history[o] :
                         IsChange(row) => status'[o] = row.to
  BY DEF ChangeOnRecord
<1>4. ASSUME status'[o] # status[o], ~Unrecorded(o)
      PROVE  \E row \in history'[o] \ history[o] :
               row.from = status[o] /\ row.to = status'[o]
  <2>1. o = jobs[w].os
    BY <1>3, <1>4
  <2>2. jobs[w].seen = status[o] /\ asked[w] \notin RecordedIds(o)
    BY <1>2, <1>4, <2>1 DEF Unrecorded
  <2>3. Record(w, to) /\ status'[o] = to
    BY <1>3, <1>4, <2>1, <2>2
  <2>4. Transition(w, to) \in history'[o]
    BY <1>3, <2>1, <2>2, <2>3 DEF Record, HistoryInv, RecordsTyped
  <2>5. Transition(w, to) \notin history[o]
    BY <2>2 DEF RecordedIds, Transition
  <2> QED BY <2>2, <2>3, <2>4, <2>5 DEF Transition
<1>5. \A row \in history'[o] \ history[o] : IsChange(row) => status'[o] = row.to
  BY <1>1 DEF Transition
<1> QED BY <1>1, <1>4, <1>5

\* A step that leaves the statuses and the history leaves nothing to record.
LEMMA NothingToRecord ==
  ASSUME UNCHANGED <<status, history>>
  PROVE  ChangeOnRecord
BY DEF ChangeOnRecord

LEMMA StepIsOnRecord ==
  ASSUME TypeOK, HistoryInv, HistoryNext
  PROVE  ChangeOnRecord
<1>1. ASSUME NEW w \in Workers, NEW o \in Orders, NEW id \in Keys,
             Receive(w, o, id) \/ ReceivePayment(w, o, id)
      PROVE  ChangeOnRecord
  <2>1. UNCHANGED <<status, history>>
    BY <1>1 DEF Receive, ReceivePayment, BeginEdit, BeginFinish, BeginDeliver,
                Begin, PayInvoice, RecordPayment, Quiet
  <2> QED BY <2>1, NothingToRecord
<1>2. ASSUME NEW w \in Workers, CommitEdit(w)
      PROVE  ChangeOnRecord
  <2>1. jobs[w] # Idle /\ Answer(w)
    BY <1>2 DEF CommitEdit, SaveEdit, Serves
  <2>2. jobs[w].seen \in Closing
    BY <2>1, JobType
  <2>3. /\ Record(w, jobs[w].seen) \/ UNCHANGED history
        /\ \/ UNCHANGED status
           \/ status' = [status EXCEPT ![jobs[w].os] = jobs[w].seen]
    BY <1>2 DEF CommitEdit, SaveEdit
  <2>4. \A row \in history'[jobs[w].os] \ history[jobs[w].os] : ~IsChange(row)
    BY <2>1, <2>2, <2>3, RecordAddsOneRow, JobType DEF Transition, IsChange
  <2> QED BY <2>1, <2>2, <2>3, <2>4, SaveIsOnRecord
<1>3. ASSUME NEW w \in Workers, CommitFinish(w)
      PROVE  ChangeOnRecord
  <2>1. jobs[w] # Idle /\ Answer(w) /\ "FINALIZADA" \in Closing
    BY <1>3 DEF CommitFinish, SaveFinish, Serves, Closing
  <2>2. /\ Record(w, "FINALIZADA")
        /\ status' = [status EXCEPT ![jobs[w].os] = "FINALIZADA"]
    BY <1>3 DEF CommitFinish, SaveFinish
  <2>3. status'[jobs[w].os] = "FINALIZADA"
    BY <2>1, <2>2, JobType DEF TypeOK
  <2> QED BY <2>1, <2>2, <2>3, SaveIsOnRecord
<1>4. ASSUME NEW w \in Workers, CommitDeliver(w) \/ Pay(w)
      PROVE  ChangeOnRecord
  <2>1. jobs[w] # Idle /\ Answer(w) /\ "ENTREGUE" \in Closing
    BY <1>4 DEF CommitDeliver, SaveDeliver, Pay, CommitPayment, Serves, Closing
  <2>2. CASE UNCHANGED <<status, history>>
    BY <2>2, NothingToRecord
  <2>3. CASE /\ Record(w, "ENTREGUE")
             /\ status' = [status EXCEPT ![jobs[w].os] = "ENTREGUE"]
    <3>1. status'[jobs[w].os] = "ENTREGUE"
      BY <2>1, <2>3, JobType DEF TypeOK
    <3> QED BY <2>1, <2>3, <3>1, SaveIsOnRecord
  <2> QED
    BY <1>4, <2>2, <2>3 DEF CommitDeliver, SaveDeliver, Pay, CommitPayment
<1>5. ASSUME NEW w \in Workers, Abandon(w)
      PROVE  ChangeOnRecord
  BY <1>5, NothingToRecord DEF Abandon, Rollback
<1>6. ASSUME NEW o \in Orders, CreateInvoice(o), UNCHANGED records
      PROVE  ChangeOnRecord
  BY <1>6, NothingToRecord DEF CreateInvoice, records
<1> QED BY <1>1, <1>2, <1>3, <1>4, <1>5, <1>6 DEF HistoryNext

LEMMA StepHasOneOutcome == ASSUME HistoryNext PROVE OneOutcome
BY DEF HistoryNext, Receive, ReceivePayment, Quiet, CommitEdit, CommitFinish,
       CommitDeliver, Pay, Abandon, records, OneOutcome

\* Events are exported only of committed rows, and there is one row per id.
THEOREM OnlyRecordsAreEmitted == HistorySpec => []EventsOnRecord
<1>1. HistoryInv => EventsOnRecord
  BY DEF HistoryInv
<1> QED BY <1>1, HistoryInvariance, PTL

\* Every change of status is on record as it happened, but for stale writes
\* and reused ids.
THEOREM TrailCanBeReliedOn == HistorySpec => AuditTrail
<1>1. TypeOK /\ HistoryInv /\ [HistoryNext]_historyVars
        => [ChangeOnRecord /\ OneOutcome]_historyVars
  BY StepIsOnRecord, StepHasOneOutcome
<1> QED
  BY <1>1, HistoryTyped, HistoryInvariance, PTL
  DEF HistorySpec, AuditTrail
=============================================================================
