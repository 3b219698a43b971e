------------------------------- MODULE Billing -------------------------------
(***************************************************************************)
(* The end of a service order (OS): its work is finished, it is invoiced,  *)
(* the invoice is paid in one or several payments, and the car is handed   *)
(* over.                                                                   *)
(*                                                                         *)
(* A payment holds the lock of its invoice row from its first read to its  *)
(* commit.  The row of the OS is read without a lock by every operation    *)
(* and written back later, so each of these operations is two steps: a     *)
(* Begin that reads, kept in jobs, and a Save or Commit that writes what   *)
(* it derived from what it had read.                                       *)
(***************************************************************************)
EXTENDS ServiceOrderStatus, Naturals, FiniteSets

CONSTANTS
  Orders,    \* OSs in execution, each with a mechanic
  Prices,    \* totals, in the smallest payable unit
  Keys,      \* idempotency keys clients send: bounds the payments
  Workers,   \* requests being served at the same time
  Idle       \* a worker without a request

ASSUME PricesAssumption == Prices \subseteq Nat
ASSUME KeysAssumption == IsFiniteSet(Keys)

VARIABLES
  status,    \* service_orders.status
  total,     \* sum of the priced lines of the OS, its invoice's amount
  invoice,   \* invoices.status, or NoInvoice
  paid,      \* sum of the payments of the invoice
  used,      \* their idempotency keys
  jobs       \* what each worker has read and not yet written

vars == <<status, total, invoice, paid, used, jobs>>

NoInvoice == "NO_INVOICE"
InvoiceStatuses == {NoInvoice, "PENDING", "PARTIALLY_PAID", "PAID"}
Closing == {"EM_EXECUCAO", "FINALIZADA", "ENTREGUE"}

\* A request for an OS that read its status as seen.
Reading == [kind : {"edit", "finish", "deliver"}, os : Orders, seen : Closing]
\* A payment inserted and not committed.
Paying == [kind : {"payment"}, os : Orders, seen : Closing,
           key : Keys, amount : Nat \ {0}]

Init ==
  /\ status = [o \in Orders |-> "EM_EXECUCAO"]
  /\ total \in [Orders -> Prices]
  /\ invoice = [o \in Orders |-> NoInvoice]
  /\ paid = [o \in Orders |-> 0]
  /\ used = [o \in Orders |-> {}]
  /\ jobs = [w \in Workers |-> Idle]

Balance(o) == total[o] - paid[o]

Serves(w, kind) == jobs[w] # Idle /\ jobs[w].kind = kind

\* Worker w answers its request: its transaction ends.
Answer(w) == jobs' = [jobs EXCEPT ![w] = Idle]

-----------------------------------------------------------------------------
(***************************************************************************)
(* The row of the OS.                                                      *)
(***************************************************************************)

\* An operation of kind reads an OS in one of the statuses it accepts.
Begin(w, o, kind, accepted) ==
  /\ jobs[w] = Idle
  /\ status[o] \in accepted
  /\ jobs' = [jobs EXCEPT ![w] = [kind |-> kind, os |-> o, seen |-> status[o]]]
  /\ UNCHANGED <<status, total, invoice, paid, used>>

\* assign_mechanic, update: naming the mechanic of the OS again is accepted
\* in every status, replacing it or changing the priority before the end.
BeginEdit(w, o) == Begin(w, o, "edit", Closing)

\* save assigns the status that was read.  The assignment is a change when
\* the row was loaded afresh by save, and none when the session still holds
\* the instance it read first.
SaveEdit(w) ==
  /\ Serves(w, "edit")
  /\ status' \in {status, [status EXCEPT ![jobs[w].os] = jobs[w].seen]}
  /\ Answer(w)
  /\ UNCHANGED <<total, invoice, paid, used>>

\* Mutant: finishing is accepted in every status.
BeginFinishAnytime(w, o) == Begin(w, o, "finish", Closing)

\* finish_service.
BeginFinish(w, o) == Begin(w, o, "finish", {"EM_EXECUCAO"})

SaveFinish(w) ==
  /\ Serves(w, "finish")
  /\ status' = [status EXCEPT ![jobs[w].os] = "FINALIZADA"]
  /\ Answer(w)
  /\ UNCHANGED <<total, invoice, paid, used>>

\* deliver.
BeginDeliver(w, o) == Begin(w, o, "deliver", {"FINALIZADA"})

\* Mutant: having an invoice is enough.
SaveDeliverInvoiced(w) ==
  /\ Serves(w, "deliver")
  /\ invoice[jobs[w].os] # NoInvoice
  /\ status' = [status EXCEPT ![jobs[w].os] = "ENTREGUE"]
  /\ Answer(w)
  /\ UNCHANGED <<total, invoice, paid, used>>

\* The invoice is read after the OS.
SaveDeliver(w) ==
  /\ Serves(w, "deliver")
  /\ invoice[jobs[w].os] = "PAID"
  /\ status' = [status EXCEPT ![jobs[w].os] = "ENTREGUE"]
  /\ Answer(w)
  /\ UNCHANGED <<total, invoice, paid, used>>

-----------------------------------------------------------------------------
(***************************************************************************)
(* The invoice.                                                            *)
(***************************************************************************)

Invoiced(o) == invoice[o] # NoInvoice

AddInvoice(o) == invoice' = [invoice EXCEPT ![o] = "PENDING"]

\* One step: the invoice's service_order_id is unique, and nobody acts on
\* the absence of an invoice between the checks and the insertion.
CreateInvoice(o) ==
  /\ status[o] = "FINALIZADA"
  /\ ~Invoiced(o)
  /\ AddInvoice(o)
  /\ UNCHANGED <<status, total, paid, used, jobs>>

\* Mutant: the invoice is read without FOR UPDATE.
NeverLocked(o) == FALSE

\* The row of the invoice is locked by a payment in progress.
Locked(o) == \E w \in Workers : Serves(w, "payment") /\ jobs[w].os = o

\* Mutant: a payment of nothing is accepted.
PayableOrNothing(o, amount) == amount <= Balance(o)

Payable(o, amount) == 0 < amount /\ amount <= Balance(o)

TakesPayments(o) == invoice[o] \in {"PENDING", "PARTIALLY_PAID"}

Replayed(o, key) == key \in used[o]

\* record_payment up to its write of the OS.  A key that was used before is
\* answered with the invoice or a conflict, and changes nothing.
RecordPayment(w, o, key, amount) ==
  /\ jobs[w] = Idle
  /\ TakesPayments(o)
  /\ ~Locked(o)
  /\ ~Replayed(o, key)
  /\ Payable(o, amount)
  /\ jobs' = [jobs EXCEPT ![w] = [kind |-> "payment", os |-> o,
                                  seen |-> status[o], key |-> key,
                                  amount |-> amount]]
  /\ UNCHANGED <<status, total, invoice, paid, used>>

\* pay_invoice: what is left, in one payment.
PayInvoice(w, o, key) == RecordPayment(w, o, key, Balance(o))

AddPayment(o, payment) ==
  /\ paid' = [paid EXCEPT ![o] = @ + payment.amount]
  /\ used' = [used EXCEPT ![o] = @ \cup {payment.key}]

Settles(o, payment) == payment.amount = Balance(o)

SaveInvoice(o, payment) ==
  invoice' = [invoice EXCEPT ![o] =
                IF Settles(o, payment) THEN "PAID" ELSE "PARTIALLY_PAID"]

\* The payment that settles the invoice hands the car over, if the OS was
\* read as finished.
HandsOver(o, payment) == Settles(o, payment) /\ payment.seen = "FINALIZADA"

\* The rest of record_payment and its commit.
CommitPayment(w) ==
  LET o == jobs[w].os
  IN /\ Serves(w, "payment")
     /\ AddPayment(o, jobs[w])
     /\ SaveInvoice(o, jobs[w])
     /\ status' = IF HandsOver(o, jobs[w])
                  THEN [status EXCEPT ![o] = "ENTREGUE"] ELSE status
     /\ Answer(w)
     /\ UNCHANGED total

\* A request fails, is refused or loses its connection: it is rolled back.
Rollback(w) ==
  /\ jobs[w] # Idle
  /\ Answer(w)
  /\ UNCHANGED <<status, total, invoice, paid, used>>

-----------------------------------------------------------------------------
Next ==
  \/ \E w \in Workers, o \in Orders :
       \/ BeginEdit(w, o)
       \/ BeginFinish(w, o)
       \/ BeginDeliver(w, o)
       \/ \E key \in Keys :
            \/ PayInvoice(w, o, key)
            \/ \E amount \in 1 .. total[o] : RecordPayment(w, o, key, amount)
  \/ \E w \in Workers : \/ SaveEdit(w)
                        \/ SaveFinish(w)
                        \/ SaveDeliver(w)
                        \/ CommitPayment(w)
                        \/ Rollback(w)
  \/ \E o \in Orders : CreateInvoice(o)

Spec == Init /\ [][Next]_vars

-----------------------------------------------------------------------------
\* Every variable has its type.
TypeOK ==
  /\ status \in [Orders -> Closing]
  /\ total \in [Orders -> Prices]
  /\ invoice \in [Orders -> InvoiceStatuses]
  /\ paid \in [Orders -> Nat]
  /\ used \in [Orders -> SUBSET Keys]
  /\ jobs \in [Workers -> Reading \cup Paying \cup {Idle}]

\* What an invoice says of itself is what its payments add up to, whatever
\* payments overlap or are repeated: nobody pays more than the amount, it is
\* PAID when and only when nothing is owed, and a part is a part
\* (record_payment of the entity, get_by_id_for_update).
LedgerAgrees ==
  \A o \in Orders :
    /\ paid[o] <= total[o]
    /\ invoice[o] \in {NoInvoice, "PENDING"} <=> paid[o] = 0
    /\ invoice[o] = "PAID" <=> paid[o] > 0 /\ paid[o] = total[o]

\* No car leaves before its invoice is paid, by any of the operations that
\* write the row of the OS, stale ones included (deliver, _deliver_if_paid).
DeliveredMeansPaid ==
  \A o \in Orders : status[o] = "ENTREGUE" => invoice[o] = "PAID"

\* ENTREGUE is final but for writers that read the OS before it was
\* delivered and save after: an operation that starts on a delivered OS
\* never takes it back (_ALLOWED_TRANSITIONS, save).
OnlyStaleWritesReopen ==
  [][\A o \in Orders :
       status[o] = "ENTREGUE" /\ status'[o] # "ENTREGUE"
         => \E w \in Workers : /\ jobs[w] # Idle
                               /\ jobs'[w] = Idle
                               /\ jobs[w].os = o
                               /\ jobs[w].seen # "ENTREGUE"]_vars

\* Paying in full delivers the OS (README.md, "Faturamento e encerramento").
PaidMeansDelivered ==
  \A o \in Orders : invoice[o] = "PAID" => status[o] = "ENTREGUE"
=============================================================================
