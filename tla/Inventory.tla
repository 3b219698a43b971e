------------------------------ MODULE Inventory ------------------------------
(***************************************************************************)
(* The parts of a service order (OS): the stock of each product, the       *)
(* reservations and purchase requests an approved budget leads to, and     *)
(* the withdrawals that consume them while the work is done.               *)
(*                                                                         *)
(* A request of the API runs in one database transaction.  Reconciliation, *)
(* receipt and fulfilment take row locks before they write, so each of     *)
(* them is one action.  Asking for a withdrawal is two: the stock room's   *)
(* e-mail is awaited between the check and the commit.                     *)
(***************************************************************************)
EXTENDS ServiceOrderStatus, ReservationQueue

CONSTANTS
  Orders,         \* OSs, numbered in (created_at, id) order
  Products,       \* products of the catalogue
  Scopes,         \* what an approved budget may ask for: product -> quantity
  RowIds,         \* identities of withdrawal rows: bounds the open ones
  MaxStock,       \* bound on the stock of a product
  MaxRequest,     \* bound on a purchase request enlarged by hand
  MaxLoose,       \* bound on the pending requests of a product without OS
  MaxSent,        \* bound on the revisions of an OS sent and not decided
  Interventions   \* what the office does besides the ordinary flow

AllInterventions == {"ADJUST", "OVERRIDE", "PURCHASE", "RECONCILE", "REVISION"}

ASSUME OrdersAssumption == Orders \subseteq Nat /\ IsFiniteSet(Orders)
ASSUME ScopesAssumption == Scopes \subseteq [Products -> Nat]
ASSUME BoundsAssumption == /\ MaxStock \in Nat
                           /\ MaxRequest \in Nat
                           /\ MaxLoose \in Nat
                           /\ MaxSent \in Nat
ASSUME InterventionsAssumption == Interventions \subseteq AllInterventions

VARIABLES
  stock,        \* products.stock_quantity
  status,       \* service_orders.status
  mechanic,     \* service_orders.mechanic_name is not NULL
  sent,         \* number of SENT revisions in the budget family of an OS
  required,     \* the product lines of the OS, summed by product
  reserved,     \* quantity of the ACTIVE reservation of an OS for a product
  ordered,      \* quantity of the pending purchase request of an OS
  loose,        \* pending purchase requests of a product without an OS
  withdrawals,  \* withdrawal rows that are not fulfilled
  fulfilled     \* sum of the FULFILLED withdrawals of an OS for a product

vars == <<stock, status, mechanic, sent, required, reserved, ordered, loose,
          withdrawals, fulfilled>>

Nothing == [p \in Products |-> 0]

\* "SENDING": inserted by a transaction that still awaits its e-mail.
WithdrawalRow == [id : RowIds, os : Orders, product : Products,
                  quantity : Nat \ {0}, state : {"SENDING", "PENDING"}]

Init ==
  /\ stock \in [Products -> 0 .. MaxStock]
  /\ status = [o \in Orders |-> NotCreated]
  /\ mechanic = [o \in Orders |-> FALSE]
  /\ sent = [o \in Orders |-> 0]
  /\ required = [o \in Orders |-> Nothing]
  /\ reserved = [o \in Orders |-> Nothing]
  /\ ordered = [o \in Orders |-> Nothing]
  /\ loose = Nothing
  /\ withdrawals = {}
  /\ fulfilled = [o \in Orders |-> Nothing]

-----------------------------------------------------------------------------
(***************************************************************************)
(* Reconciliation.  Its arguments are the rows as the transaction that     *)
(* calls it has left them: statuses st, scopes req, stocks stk and         *)
(* purchase requests ord.                                                  *)
(***************************************************************************)

Column(table, p) == [q \in Orders |-> table[q][p]]

Requires(req, q, p) == req[q][p] > 0

\* list_reservation_queue: the OSs that compete for product p.
Queue(st, req, p) == {q \in Orders : st[q] \in Reservable /\ Requires(req, q, p)}

\* What the OSs of a set hold of product p.
HeldBy(orders, p) == Total(Column(reserved, p), orders)

\* Mutant: what the others hold is not deducted.
AvailableOnTheShelf(st, req, stk, p) == stk[p]

\* Stock of p that no OS outside the queue holds.
Available(st, req, stk, p) ==
  Less(stk[p], HeldBy(Orders \ Queue(st, req, p), p))

\* Mutant: what a revision removed stays reserved.
AllocationKeepingRemoved(o, st, req, stk) ==
  [q \in Orders |-> [p \in Products |->
    IF req[o][p] > 0 /\ q \in Queue(st, req, p)
    THEN Granted(Column(req, p), Queue(st, req, p),
                 Available(st, req, stk, p), q)
    ELSE reserved[q][p]]]

\* Mutant: the OS that asked takes what the others do not hold.
AllocationOfOne(o, st, req, stk) ==
  [reserved EXCEPT ![o] = [p \in Products |->
    Minimum(req[o][p], Less(stk[p], Total(Column(reserved, p), Orders \ {o})))]]

\* Products a revision of o removed from its scope.
Removed(o, req) == {p \in Products : req[o][p] = 0}

\* The reservations after _release_removed_product_reservations of o and
\* _reconcile_product_queue of every product o requires.
Allocation(o, st, req, stk) ==
  [q \in Orders |-> [p \in Products |->
    CASE Requires(req, o, p) /\ q \in Queue(st, req, p) ->
           Granted(Column(req, p), Queue(st, req, p),
                   Available(st, req, stk, p), q)
      [] p \in Removed(o, req) /\ q = o -> 0
      [] OTHER -> reserved[q][p]]]

\* Mutant: only the OS that asked has its purchase request updated.
BackordersOfOne(o, st, req, ord, held) ==
  [ord EXCEPT ![o] = [p \in Products |-> Less(req[o][p], held[o][p])]]

\* _reconcile_backorder: the request of a queued OS is what it still lacks.
Backorders(o, st, req, ord, held) ==
  [q \in Orders |-> [p \in Products |->
    IF Requires(req, o, p) /\ q \in Queue(st, req, p)
    THEN Less(req[q][p], held[q][p])
    ELSE ord[q][p]]]

Short(q, req, held) == \E p \in Products : held[q][p] < req[q][p]

\* set_reservation_status: waiting for parts, or ready to start.
WaitingStatus(q, req, held) == WaitingFor(Short(q, req, held))

\* Mutant: only the OS that asked has its status refreshed.
RefreshedOne(o, st, req, held) ==
  [st EXCEPT ![o] = WaitingStatus(o, req, held)]

\* _refresh_queue_statuses: o and whoever competes with it for a product.
Refreshed(o, st, req, held) ==
  [q \in Orders |->
    IF q = o \/ \E p \in Products : Requires(req, o, p) /\ q \in Queue(st, req, p)
    THEN WaitingStatus(q, req, held)
    ELSE st[q]]

ReleaseReservations(o) == reserved' = [reserved EXCEPT ![o] = Nothing]

CancelRequests(o, ord) == ordered' = [ord EXCEPT ![o] = Nothing]

\* release_for_service_order
Release(o, ord) == ReleaseReservations(o) /\ CancelRequests(o, ord)

\* reconcile_for_service_order
Reconcile(o, st, req, stk, ord) ==
  \/ /\ st[o] \notin Reservable
     /\ Release(o, ord)
     /\ status' = st
  \/ /\ st[o] \in Reservable
     /\ reserved' = Allocation(o, st, req, stk)
     /\ ordered' = Backorders(o, st, req, ord, reserved')
     /\ status' = Refreshed(o, st, req, reserved')

\* The OS is there to be read and locked.
Exists(o) == status[o] # NotCreated

-----------------------------------------------------------------------------
(***************************************************************************)
(* Budgets.  Only what a decision does to the OS is modelled here: which   *)
(* revision is sent and decided is the budget's own affair.                *)
(***************************************************************************)

\* The first budget of the family is approved: the OS is created.
ApproveBudget(o, lines) ==
  /\ ~Exists(o)
  /\ required' = [required EXCEPT ![o] = lines]
  /\ Reconcile(o, [status EXCEPT ![o] = "AGUARDANDO_INICIO"], required', stock, ordered)
  /\ UNCHANGED <<stock, mechanic, sent, loose, withdrawals, fulfilled>>

\* A revision is sent to the customer, or the link of a sent one reissued.
SendRevision(o) ==
  /\ "REVISION" \in Interventions
  /\ Exists(o)
  /\ \/ /\ sent[o] < MaxSent
        /\ sent' = [sent EXCEPT ![o] = @ + 1]
     \/ /\ sent[o] > 0
        /\ UNCHANGED sent
  /\ status' = [status EXCEPT ![o] = Submitted(@)]
  /\ Release(o, ordered)
  /\ UNCHANGED <<stock, mechanic, required, loose, withdrawals, fulfilled>>

\* The revision is approved: its lines replace those of the OS.
ApproveRevision(o, lines) ==
  /\ "REVISION" \in Interventions
  /\ status[o] \in Revisable
  /\ sent[o] > 0
  /\ sent' = [sent EXCEPT ![o] = @ - 1]
  /\ required' = [required EXCEPT ![o] = lines]
  /\ Reconcile(o, [status EXCEPT ![o] = Approved(@)], required', stock, ordered)
  /\ UNCHANGED <<stock, mechanic, loose, withdrawals, fulfilled>>

\* The revision is rejected: the OS goes back to diagnosis.
RejectRevision(o) ==
  /\ "REVISION" \in Interventions
  /\ Rejectable(status[o])
  /\ sent[o] > 0
  /\ sent' = [sent EXCEPT ![o] = @ - 1]
  /\ status' = [status EXCEPT ![o] = "EM_DIAGNOSTICO"]
  /\ Release(o, ordered)
  /\ UNCHANGED <<stock, mechanic, required, loose, withdrawals, fulfilled>>

-----------------------------------------------------------------------------
(***************************************************************************)
(* Stock, purchase requests and receipts.                                  *)
(***************************************************************************)

\* POST /admin/reservations: create_reservations_for_os
ReconcileOrder(o) ==
  /\ "RECONCILE" \in Interventions
  /\ Exists(o)
  /\ Reconcile(o, status, required, stock, ordered)
  /\ UNCHANGED <<stock, mechanic, sent, required, loose, withdrawals, fulfilled>>

\* The purchase requests once that of o for p, if any is pending, is enlarged.
Enlarged(o, p, quantity) == [ordered EXCEPT ![o][p] = @ + quantity]

\* A request for an OS is merged with the one that is pending.
RequestPurchase(o, p, quantity) ==
  /\ "PURCHASE" \in Interventions
  /\ Exists(o)
  /\ ordered[o][p] + quantity <= MaxRequest
  /\ ordered' = Enlarged(o, p, quantity)
  /\ UNCHANGED <<stock, status, mechanic, sent, required, reserved, loose,
                 withdrawals, fulfilled>>

RequestLoosePurchase(p) ==
  /\ loose[p] < MaxLoose
  /\ loose' = [loose EXCEPT ![p] = @ + 1]
  /\ UNCHANGED <<stock, status, mechanic, sent, required, reserved, ordered,
                 withdrawals, fulfilled>>

\* The goods are put on the shelf.
AddStock(p, quantity) ==
  /\ stock[p] + quantity <= MaxStock
  /\ stock' = [stock EXCEPT ![p] = @ + quantity]

\* The purchase requests once that of o for p is saved as received.
Received(o, p) == [ordered EXCEPT ![o][p] = 0]

\* Mutant: the goods are shelved and nobody is told.
ReceiptWithoutReconcile(o, p, quantity) ==
  /\ ordered[o][p] > 0
  /\ AddStock(p, quantity)
  /\ ordered' = Received(o, p)
  /\ UNCHANGED <<status, mechanic, sent, required, reserved, loose, withdrawals,
                 fulfilled>>

\* Any quantity closes the request; the OS it was for is reconciled.
RegisterReceipt(o, p, quantity) ==
  /\ ordered[o][p] > 0
  /\ AddStock(p, quantity)
  /\ Reconcile(o, status, required, stock', Received(o, p))
  /\ UNCHANGED <<mechanic, sent, required, loose, withdrawals, fulfilled>>

RegisterLooseReceipt(p, quantity) ==
  /\ loose[p] > 0
  /\ AddStock(p, quantity)
  /\ loose' = [loose EXCEPT ![p] = @ - 1]
  /\ UNCHANGED <<status, mechanic, sent, required, reserved, ordered, withdrawals,
                 fulfilled>>

\* The column is written; reservations are not looked at.
WriteStock(p, quantity) ==
  /\ "ADJUST" \in Interventions
  /\ quantity # stock[p]
  /\ stock' = [stock EXCEPT ![p] = quantity]
  /\ UNCHANGED <<status, mechanic, sent, required, reserved, ordered, loose,
                 withdrawals, fulfilled>>

\* A correction counted on the shelf.
AdjustStock(p, quantity) == WriteStock(p, quantity)

\* An edit of the product writes back all it read, the stock included, and
\* nothing limits how old that is.
EditProduct(p, seen) == WriteStock(p, seen)

-----------------------------------------------------------------------------
(***************************************************************************)
(* Execution.                                                              *)
(***************************************************************************)

\* The first mechanic; replacing one changes only the name.
AssignMechanic(o) ==
  /\ ~mechanic[o]
  /\ \/ /\ status[o] = "RECEBIDA"
        /\ status' = [status EXCEPT ![o] = "EM_DIAGNOSTICO"]
     \/ /\ status[o] \in Reservable
        /\ UNCHANGED status
  /\ mechanic' = [mechanic EXCEPT ![o] = TRUE]
  /\ UNCHANGED <<stock, sent, required, reserved, ordered, loose, withdrawals,
                 fulfilled>>

\* The administrator's break-glass correction: it withdraws the revision that
\* awaits approval and keeps reservations and purchase requests as they are.
OverrideStatus(o, to) ==
  /\ "OVERRIDE" \in Interventions
  /\ MayOverride(status[o], to)
  /\ status' = [status EXCEPT ![o] = to]
  /\ sent' = IF Rejectable(status[o])
             THEN [sent EXCEPT ![o] = Less(@, 1)] ELSE sent
  /\ UNCHANGED <<stock, mechanic, required, reserved, ordered, loose,
                 withdrawals, fulfilled>>

\* Every part the OS requires is reserved for it.
ReservedInFull(o) == ~Short(o, required, reserved)

StartService(o) ==
  /\ MayStart(status[o], mechanic[o])
  /\ ReservedInFull(o)
  /\ status' = [status EXCEPT ![o] = "EM_EXECUCAO"]
  /\ UNCHANGED <<stock, mechanic, sent, required, reserved, ordered, loose,
                 withdrawals, fulfilled>>

\* A row another transaction can read: the uncommitted ones are hidden.
Committed(w) == w.state = "PENDING"

PendingRows(o, p) ==
  {w \in withdrawals : w.os = o /\ w.product = p /\ Committed(w)}

AlreadyRequested(o, p) ==
  fulfilled[o][p]
    + Total([w \in withdrawals |-> w.quantity], PendingRows(o, p))

\* validate_withdrawal_quantity
MayRequest(o, p, quantity) ==
  /\ status[o] = "EM_EXECUCAO"
  /\ required[o][p] > 0
  /\ AlreadyRequested(o, p) + quantity <= required[o][p]

NewRow(o, p, quantity, id) ==
  [id |-> id, os |-> o, product |-> p, quantity |-> quantity, state |-> "SENDING"]

\* request_stock_withdrawal, up to the e-mail it awaits
RequestWithdrawal(o, p, quantity, id) ==
  /\ MayRequest(o, p, quantity)
  /\ id \notin {w.id : w \in withdrawals}
  /\ withdrawals' = withdrawals \cup {NewRow(o, p, quantity, id)}
  /\ UNCHANGED <<stock, status, mechanic, sent, required, reserved, ordered, loose,
                 fulfilled>>

\* ... the e-mail is sent and the transaction commits ...
CommitWithdrawal(w) ==
  /\ w.state = "SENDING"
  /\ withdrawals' = (withdrawals \ {w}) \cup {[w EXCEPT !.state = "PENDING"]}
  /\ UNCHANGED <<stock, status, mechanic, sent, required, reserved, ordered, loose,
                 fulfilled>>

\* ... or the e-mail fails and the row is rolled back.
RollbackWithdrawal(w) ==
  /\ w.state = "SENDING"
  /\ withdrawals' = withdrawals \ {w}
  /\ UNCHANGED <<stock, status, mechanic, sent, required, reserved, ordered, loose,
                 fulfilled>>

\* Mutant: the shelf is looked at, the reservation is not.
ConsumeUnreserved(w) ==
  reserved' = [reserved EXCEPT ![w.os][w.product] = @ - w.quantity]

\* consume_for_withdrawal
ConsumeReservation(w) ==
  /\ w.quantity <= reserved[w.os][w.product]
  /\ reserved' = [reserved EXCEPT ![w.os][w.product] = @ - w.quantity]

\* decrement_stock
DecrementStock(w) ==
  /\ w.quantity <= stock[w.product]
  /\ stock' = [stock EXCEPT ![w.product] = @ - w.quantity]

\* The row is saved as FULFILLED.
MarkFulfilled(w) ==
  /\ fulfilled' = [fulfilled EXCEPT ![w.os][w.product] = @ + w.quantity]
  /\ withdrawals' = withdrawals \ {w}

\* The stock room hands the parts over: reservation, stock and row change
\* together, or the transaction fails.
FulfillWithdrawal(w) ==
  /\ Committed(w)
  /\ ConsumeReservation(w)
  /\ DecrementStock(w)
  /\ MarkFulfilled(w)
  /\ UNCHANGED <<status, mechanic, sent, required, ordered, loose>>

\* fulfilled_quantity_by_product covers the OS.
GotAll(o) == ~Short(o, required, fulfilled)

\* finish_service_order
MayFinish(o) == status[o] = "EM_EXECUCAO" /\ GotAll(o)

\* The execution's own release of what an OS still holds.
ReturnLeftovers(o) == ReleaseReservations(o)

FinishService(o) ==
  /\ MayFinish(o)
  /\ status' = [status EXCEPT ![o] = "FINALIZADA"]
  /\ ReturnLeftovers(o)
  /\ UNCHANGED <<stock, mechanic, sent, required, ordered, loose, withdrawals,
                 fulfilled>>

\* The invoice is paid: the delivery is decided by billing.
Deliver(o) ==
  /\ status[o] = "FINALIZADA"
  /\ status' = [status EXCEPT ![o] = "ENTREGUE"]
  /\ UNCHANGED <<stock, mechanic, sent, required, reserved, ordered, loose,
                 withdrawals, fulfilled>>

-----------------------------------------------------------------------------
Quantities == 1 .. MaxStock

OrderNext(o) ==
  \/ \E lines \in Scopes : ApproveBudget(o, lines)
  \/ SendRevision(o)
  \/ \E lines \in Scopes : ApproveRevision(o, lines)
  \/ RejectRevision(o)
  \/ ReconcileOrder(o)
  \/ \E p \in Products, n \in Quantities : RequestPurchase(o, p, n)
  \/ \E p \in Products, n \in Quantities : RegisterReceipt(o, p, n)
  \/ AssignMechanic(o)
  \/ \E to \in BreakGlass : OverrideStatus(o, to)
  \/ StartService(o)
  \/ \E p \in Products, n \in Quantities, id \in RowIds :
       RequestWithdrawal(o, p, n, id)
  \/ FinishService(o)
  \/ Deliver(o)

StockNext(p) ==
  \/ RequestLoosePurchase(p)
  \/ \E n \in Quantities : RegisterLooseReceipt(p, n)
  \/ \E n \in 0 .. MaxStock : AdjustStock(p, n) \/ EditProduct(p, n)

WithdrawalNext(w) ==
  \/ CommitWithdrawal(w)
  \/ RollbackWithdrawal(w)
  \/ FulfillWithdrawal(w)

Next ==
  \/ \E o \in Orders : OrderNext(o)
  \/ \E p \in Products : StockNext(p)
  \/ \E w \in withdrawals : WithdrawalNext(w)

Spec == Init /\ [][Next]_vars

(***************************************************************************)
(* The workshop keeps working: an accepted budget is registered, goods on  *)
(* order arrive, an OS gets its mechanic, is started, has its parts asked  *)
(* for and handed over, and is finished.  A request whose e-mail fails is  *)
(* rolled back and asked for again; the provider is not down for ever,     *)
(* hence strong fairness for the commit and weak fairness for the rest.    *)
(***************************************************************************)
Fairness ==
  /\ \A o \in Orders :
       /\ WF_vars(\E lines \in Scopes : ApproveBudget(o, lines))
       /\ WF_vars(AssignMechanic(o))
       /\ WF_vars(StartService(o))
       /\ WF_vars(FinishService(o))
       /\ \A p \in Products :
            /\ WF_vars(\E n \in Quantities : RegisterReceipt(o, p, n))
            /\ WF_vars(\E n \in Quantities, id \in RowIds :
                         RequestWithdrawal(o, p, n, id))
  /\ \A id \in RowIds :
       /\ SF_vars(\E w \in withdrawals : w.id = id /\ CommitWithdrawal(w))
       /\ WF_vars(\E w \in withdrawals : w.id = id /\ FulfillWithdrawal(w))

FairSpec == Spec /\ Fairness

-----------------------------------------------------------------------------
(***************************************************************************)
(* Properties.                                                             *)
(***************************************************************************)

\* Every column holds values of its type.
TypeOK ==
  /\ stock \in [Products -> Nat]
  /\ status \in [Orders -> Statuses \cup {NotCreated}]
  /\ mechanic \in [Orders -> BOOLEAN]
  /\ sent \in [Orders -> Nat]
  /\ required \in [Orders -> [Products -> Nat]]
  /\ reserved \in [Orders -> [Products -> Nat]]
  /\ ordered \in [Orders -> [Products -> Nat]]
  /\ loose \in [Products -> Nat]
  /\ withdrawals \subseteq WithdrawalRow
  /\ fulfilled \in [Orders -> [Products -> Nat]]

\* What an OS holds and what it was handed never exceed its approved scope,
\* whatever revisions, receipts and racing withdrawal requests did to it: no
\* part is handed over before the start, and an OS that was finished got all
\* its parts and holds no reservation any more.
ScopeRespected ==
  \A o \in Orders, p \in Products :
    /\ fulfilled[o][p] + reserved[o][p] <= required[o][p]
    /\ status[o] \notin Started => fulfilled[o][p] = 0
    /\ status[o] \in Closed => fulfilled[o][p] = required[o][p]

\* Of an OS that waits, whatever part it lacks is on order in full, and its
\* status tells whether it lacks any.  Holds as long as nobody sends a
\* revision, which drops reservations and leaves the status alone, or
\* overrides a status.
Settled(o) ==
  /\ status[o] = "AGUARDANDO_COMPRA" <=> Short(o, required, reserved)
  /\ \A p \in Products :
       ordered[o][p] >= Less(required[o][p], reserved[o][p])

WaitingOrdersSettled ==
  \A o \in Orders : status[o] \in Reservable => Settled(o)

\* The parts an OS reserved stay its own until they are handed over, as
\* docs/contexts/requirements/requirements.md:1031 has it.
ExecutionKeepsItsParts ==
  \A o \in Orders, p \in Products :
    status[o] = "EM_EXECUCAO" => fulfilled[o][p] + reserved[o][p] = required[o][p]

\* Withdrawals asked for never exceed the scope: validate_withdrawal_quantity
\* refuses more (src/domain/execution/entity.py:70), and the withdrawal is to
\* be free of lost updates (docs/pr_review_guidelines.md:68).
RequestsWithinScope ==
  \A o \in Orders, p \in Products : AlreadyRequested(o, p) <= required[o][p]

OverReserved(p) == Total(Column(reserved, p), Orders) > stock[p]

\* Reconciliations, receipts and withdrawals never promise more of a product
\* than the shelf holds: only a stock correction, or an edit that writes an
\* old stock back, does that, and it leaves the reservations as they are.
OnlyCorrectionOverReserves ==
  [][\A p \in Products :
       ~OverReserved(p) /\ OverReserved(p)' =>
         stock'[p] < stock[p] /\ UNCHANGED reserved]_vars

\* First come first served: whoever is given units of a product competes with
\* no older OS that still lacks some.
FirstComeFirstServed ==
  [][\A o \in Orders, p \in Products :
       reserved'[o][p] > reserved[o][p] =>
         \A q \in Ahead(Orders, o) :
           status'[q] \in Reservable => reserved'[q][p] >= required'[q][p]]_vars

\* An OS that loses units of a product to another one either needs them no
\* longer, or waits behind the other and has what it lost back on order.
PreemptionLeavesBackorder ==
  [][\A o, q \in Orders, p \in Products :
       reserved'[o][p] < reserved[o][p] /\ reserved'[q][p] > reserved[q][p] =>
         \/ reserved'[o][p] = required'[o][p]
         \/ /\ q < o
            /\ status'[o] = "AGUARDANDO_COMPRA"
            /\ ordered'[o][p] + reserved'[o][p] = required'[o][p]]_vars

\* The workshop's promise about every OS is kept.
Job == INSTANCE WorkshopJob
KeepsTheJob == Job!JobSpec

\* Every accepted budget is worked off, whatever the shelf held at first.
EveryOrderFinishes ==
  \A o \in Orders : <>(status[o] = "FINALIZADA")
=============================================================================
