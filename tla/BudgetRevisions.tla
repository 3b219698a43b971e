--------------------------- MODULE BudgetRevisions ---------------------------
(***************************************************************************)
(* A quotation: one budget, the revisions cloned from it, the service      *)
(* order (OS) its approval creates, and the links mailed to the customer.  *)
(*                                                                         *)
(* Staff requests read a budget, or the OS, without a lock, and write back *)
(* what they derived from that copy: each is a Begin and a Commit, with    *)
(* the copy kept in request.  save loads the row once more and writes only *)
(* the columns in which the copy differs from it; its UPDATE may then wait *)
(* for the lock of another transaction, so the row can have changed again. *)
(* A decision holds the locks of the budget and of the OS from its first   *)
(* read to its commit: it is one action.                                   *)
(***************************************************************************)
EXTENDS ServiceOrderStatus, Naturals, Sequences

CONSTANTS
  Requests,     \* staff requests being served at the same time
  Lines,        \* rows a budget may have had for its lines
  MaxUnits,     \* largest quantity of a line
  Corrections,  \* statuses an administrator overrides the OS to
  MaxBudgets,   \* bound on the budgets of the family
  MaxLinks      \* bound on the links mailed

ASSUME CorrectionsAssumption == Corrections \subseteq BreakGlass \ {"AGUARDANDO_COMPRA"}
ASSUME BoundsAssumption == MaxUnits \in Nat /\ MaxBudgets \in Nat \ {0} /\ MaxLinks \in Nat

VARIABLES
  budgets,    \* rows of budgets with their lines, oldest first
  order,      \* row of the OS, its scope being its own copy of the lines
  mailed,     \* number of links mailed so far, each with the next number
  honoured,   \* links whose decision has been committed
  request,    \* what each request has read, and what it will do with it
  stale       \* history: a stale copy was written

vars == <<budgets, order, mailed, honoured, request, stale>>

\* A line that was removed: no other line gets its id.
Gone == MaxUnits + 1
Units == 1 .. MaxUnits
Quantities == [Lines -> 0 .. Gone]

\* Mutant: lines that were removed count.
PricedWithRemoved(lines) == lines

\* recalculate_total_price: a total stands for the quantities it adds up.
Priced(lines) == [l \in Lines |-> IF lines[l] = Gone THEN 0 ELSE lines[l]]
Sums == [Lines -> 0 .. MaxUnits]
Nothing == [l \in Lines |-> 0]

BudgetStatuses == {"DRAFT", "SENT", "APPROVED", "REJECTED", "SUPERSEDED"}

\* _ALLOWED_TRANSITIONS and transition_to.
Transitions == {<<"DRAFT", "SENT">>, <<"DRAFT", "SUPERSEDED">>,
                <<"SENT", "APPROVED">>, <<"SENT", "REJECTED">>, <<"SENT", "SUPERSEDED">>}
MayBecome(row, status) == <<row.status, status>> \in Transitions

\* Only a draft can be edited.
Editable(row) == row.status = "DRAFT"

\* token is the link whose fingerprint is stored, or 0.
Rows == [status : BudgetStatuses, token : 0 .. MaxLinks, used : BOOLEAN,
         revision : Nat, lines : Quantities, total : Sums]

\* The reconciliation of stock with its AGUARDANDO_COMPRA is Inventory's.
OrderStatuses == {NotCreated, "EM_EXECUCAO"} \cup (BreakGlass \ {"AGUARDANDO_COMPRA"})
OrderRows == [status : OrderStatuses, mechanic : BOOLEAN,
              total : Sums, scope : Sums]

Draft == [status |-> "DRAFT", token |-> 0, used |-> FALSE, revision |-> 1,
          lines |-> Nothing, total |-> Nothing]
NoOrder == [status |-> NotCreated, mechanic |-> FALSE,
            total |-> Nothing, scope |-> Nothing]

\* of is the budget, seen the copy as it was read, copy as it was changed,
\* base the row save compares it with; of = 0 when no budget is written.
Blank == [kind |-> "none", of |-> 0, seen |-> Draft, copy |-> Draft,
          base |-> Draft, orderSeen |-> NoOrder, orderCopy |-> NoOrder]
RequestRows ==
  [kind : {"none", "edit", "send", "revise", "override", "order"},
   of : 0 .. MaxBudgets, seen : Rows, copy : Rows, base : Rows,
   orderSeen : OrderRows, orderCopy : OrderRows]

Init ==
  /\ budgets = <<Draft>>
  /\ order = NoOrder
  /\ mailed = 0
  /\ honoured = {}
  /\ request = [r \in Requests |-> Blank]
  /\ stale = FALSE

-----------------------------------------------------------------------------
(***************************************************************************)
(* Reading and saving a copy.                                              *)
(***************************************************************************)

\* The columns in which copy differs from base are written to current.
Written(current, base, copy, columns) ==
  [c \in DOMAIN current |->
     IF c \in columns /\ copy[c] # base[c] THEN copy[c] ELSE current[c]]

\* The lines of the copy are written one by one; those it never saw stay.
LinesWritten(current, copy) ==
  [l \in Lines |-> IF copy[l] = 0 THEN current[l] ELSE copy[l]]

\* SqlAlchemyBudgetRepository.save.
Saved(current, q) ==
  [Written(current, q.base, q.copy, {"status", "token", "used", "total"})
     EXCEPT !.lines = LinesWritten(current.lines, q.copy.lines)]

\* save finds no row for a line of its copy that was deleted meanwhile, and
\* raises.
Savable(current, q) ==
  \A l \in Lines : q.copy.lines[l] \in Units => current.lines[l] # Gone

\* Request r reads budget b and changes its copy of it.
Read(r, kind, b, copy) ==
  /\ request[r] = Blank
  /\ request' = [request EXCEPT ![r] =
       [Blank EXCEPT !.kind = kind, !.of = b, !.seen = budgets[b],
                     !.copy = copy, !.base = budgets[b]]]

\* save of request r loads the row before it writes it.
Reload(r) ==
  /\ request[r].of # 0
  /\ request[r].base # budgets[request[r].of]
  /\ request' = [request EXCEPT ![r].base = budgets[request[r].of]]
  /\ UNCHANGED <<budgets, order, mailed, honoured, stale>>

Answer(r) == request' = [request EXCEPT ![r] = Blank]

\* Bookkeeping: the copy of the budget, or of the OS, is no longer the row.
StaleBudget(r) ==
  LET q == request[r]
  IN  q.of # 0 /\ (q.seen # budgets[q.of] \/ q.base # budgets[q.of])

StaleOrder(r) == request[r].orderSeen # order

\* A request raises, or its commit fails: nothing is written.
Fail(r) ==
  /\ request[r] # Blank
  /\ Answer(r)
  /\ UNCHANGED <<budgets, order, mailed, honoured, stale>>

-----------------------------------------------------------------------------
(***************************************************************************)
(* Drafting: the lines of a budget, and its revisions.                     *)
(***************************************************************************)

\* _recalculate.
Recalculated(row) == [row EXCEPT !.total = Priced(row.lines)]

\* A copy whose line l has n units, with the total computed from it.
WithLine(row, l, n) == Recalculated([row EXCEPT !.lines[l] = n])

\* A copy without line l, and without the parts that came with its service.
WithoutLine(row, l) == WithLine(row, l, Gone)

\* The line is found in the budget.
HasLine(row, l) == row.lines[l] \in Units

\* An id is free when no row and no transaction in progress has it.
FreeLine(b, l) ==
  /\ budgets[b].lines[l] = 0
  /\ \A p \in Requests : ~ (request[p].of = b /\ request[p].copy.lines[l] # 0)

\* Mutant: budgets that were sent can be edited.
BeginAddLineAnyBudget(r, b, l, n) ==
  /\ FreeLine(b, l)
  /\ Read(r, "edit", b, WithLine(budgets[b], l, n))
  /\ UNCHANGED <<budgets, order, mailed, honoured, stale>>

\* Mutant: the total is not recalculated.
BeginAddLineKeepTotal(r, b, l, n) ==
  /\ Editable(budgets[b])
  /\ FreeLine(b, l)
  /\ Read(r, "edit", b, [budgets[b] EXCEPT !.lines[l] = n])
  /\ UNCHANGED <<budgets, order, mailed, honoured, stale>>

\* add_service_line, add_product_line.
BeginAddLine(r, b, l, n) ==
  /\ Editable(budgets[b])
  /\ FreeLine(b, l)
  /\ Read(r, "edit", b, WithLine(budgets[b], l, n))
  /\ UNCHANGED <<budgets, order, mailed, honoured, stale>>

\* update_service_line, update_product_line.
BeginChangeLine(r, b, l, n) ==
  /\ Editable(budgets[b])
  /\ HasLine(budgets[b], l)
  /\ budgets[b].lines[l] # n
  /\ Read(r, "edit", b, WithLine(budgets[b], l, n))
  /\ UNCHANGED <<budgets, order, mailed, honoured, stale>>

\* remove_service_line, remove_product_line.
BeginRemoveLine(r, b, l) ==
  /\ Editable(budgets[b])
  /\ HasLine(budgets[b], l)
  /\ Read(r, "edit", b, WithoutLine(budgets[b], l))
  /\ UNCHANGED <<budgets, order, mailed, honoured, stale>>

CommitEdit(r) ==
  /\ request[r].kind = "edit"
  /\ LET b == request[r].of IN
       /\ Savable(budgets[b], request[r])
       /\ budgets' = [budgets EXCEPT ![b] = Saved(budgets[b], request[r])]
  /\ stale' = (stale \/ StaleBudget(r))
  /\ Answer(r)
  /\ UNCHANGED <<order, mailed, honoured>>

\* The latest budget of the family in a status, as list_revision_family shows it.
IsLatest(b, status) ==
  /\ b \in DOMAIN budgets
  /\ budgets[b].status = status
  /\ \A c \in DOMAIN budgets :
       budgets[c].status = status => budgets[c].revision <= budgets[b].revision

\* create_revision numbers the clone after the revisions it saw.
BeginRevise(r) ==
  \E b, c \in DOMAIN budgets :
    /\ IsLatest(b, "APPROVED")
    /\ \A d \in DOMAIN budgets : budgets[d].revision <= budgets[c].revision
    /\ request[r] = Blank
    /\ request' = [request EXCEPT ![r] = [Blank EXCEPT !.kind = "revise",
         !.copy = [Draft EXCEPT !.revision = budgets[c].revision + 1,
                                !.lines = Priced(budgets[b].lines),
                                !.total = budgets[b].total]]]
    /\ UNCHANGED <<budgets, order, mailed, honoured, stale>>

CommitRevise(r) ==
  /\ request[r].kind = "revise"
  /\ Len(budgets) < MaxBudgets
  /\ budgets' = Append(budgets, request[r].copy)
  /\ Answer(r)
  /\ UNCHANGED <<order, mailed, honoured, stale>>

-----------------------------------------------------------------------------
(***************************************************************************)
(* Sending a budget to the customer.                                       *)
(***************************************************************************)

\* A sent budget nobody has decided.
Undecided(b) == budgets[b].status = "SENT" /\ ~budgets[b].used

\* send_budget_email: a draft is sent, a sent one gets another link.
BeginSend(r, b) ==
  /\ \/ MayBecome(budgets[b], "SENT")
     \/ Undecided(b)
  /\ mailed < MaxLinks
  /\ mailed' = mailed + 1
  /\ Read(r, "send", b, [budgets[b] EXCEPT !.status = "SENT", !.used = FALSE,
                                           !.token = mailed + 1])
  /\ UNCHANGED <<budgets, order, honoured, stale>>

\* _find_order_for_budget: the OS of the family, which is locked.
HasOrder == order.status # NotCreated

\* submit_for_approval, of the budget's OS if it has one.
OrderSubmitted == [order EXCEPT !.status = Submitted(@)]

\* The e-mail has gone out by now; a Fail leaves its link without a row.
CommitSend(r) ==
  /\ request[r].kind = "send"
  /\ LET b == request[r].of IN
       /\ Savable(budgets[b], request[r])
       /\ budgets' = [budgets EXCEPT ![b] = Saved(budgets[b], request[r])]
  /\ order' = OrderSubmitted
  /\ stale' = (stale \/ StaleBudget(r))
  /\ Answer(r)
  /\ UNCHANGED <<mailed, honoured>>

-----------------------------------------------------------------------------
(***************************************************************************)
(* Decisions, under the locks of the budget and of the OS.                 *)
(***************************************************************************)

\* An approval needs something to do.
HasLines(b) == \E l \in Lines : budgets[b].lines[l] \in Units

\* apply_approved_revision: the first approval creates the OS, a later one
\* rewrites its scope.
OrderApproved(b) ==
  [order EXCEPT !.status = IF HasOrder THEN Approved(@) ELSE "AGUARDANDO_INICIO",
                !.total = budgets[b].total,
                !.scope = Priced(budgets[b].lines)]

\* The decision is written with the moment it was taken.
Decided(row, status) == [row EXCEPT !.status = status, !.used = TRUE]

\* Budget.approve, with the link of the customer or by the staff.
Approve(b) ==
  /\ MayBecome(budgets[b], "APPROVED")
  /\ Undecided(b)
  /\ HasLines(b)
  /\ HasOrder => order.status \in Revisable
  /\ budgets' = [budgets EXCEPT ![b] = Decided(@, "APPROVED")]
  /\ order' = OrderApproved(b)

\* return_to_diagnosis: there is nothing to return before the first approval.
ReturnToDiagnosis ==
  IF HasOrder
  THEN /\ Rejectable(order.status)
       /\ order' = [order EXCEPT !.status = "EM_DIAGNOSTICO"]
  ELSE UNCHANGED order

\* Mutant: the OS is left waiting.
RejectAlone(b) ==
  /\ MayBecome(budgets[b], "REJECTED")
  /\ Undecided(b)
  /\ HasOrder => Rejectable(order.status)
  /\ budgets' = [budgets EXCEPT ![b] = Decided(@, "REJECTED")]
  /\ UNCHANGED order

\* Budget.reject.
Reject(b) ==
  /\ MayBecome(budgets[b], "REJECTED")
  /\ Undecided(b)
  /\ budgets' = [budgets EXCEPT ![b] = Decided(@, "REJECTED")]
  /\ ReturnToDiagnosis

\* Budgets found by the fingerprint of a link, and those it can still decide: a
\* link that has expired decides nothing, which it may have any time.
OfLink(link) == {b \in DOMAIN budgets : budgets[b].token = link}
Decidable(link) == {b \in OfLink(link) : ~budgets[b].used}

\* Mutant: the use of the link is not recorded.
DecideUnrecorded(link) ==
  /\ \E b \in Decidable(link) :
       /\ MayBecome(budgets[b], "APPROVED")
       /\ HasLines(b)
       /\ HasOrder => order.status \in Revisable
       /\ budgets' = [budgets EXCEPT ![b].status = "APPROVED"]
       /\ order' = OrderApproved(b)
  /\ honoured' = honoured \cup {link}
  /\ UNCHANGED <<mailed, request, stale>>

\* decide_budget.  A link that was used is answered again and changes nothing.
Decide(link) ==
  /\ \E b \in Decidable(link) : Approve(b) \/ Reject(b)
  /\ honoured' = honoured \cup {link}
  /\ UNCHANGED <<mailed, request, stale>>

\* approve_budget_by_id: the staff approves for the customer.
ApproveById(b) ==
  /\ Approve(b)
  /\ UNCHANGED <<mailed, honoured, request, stale>>

-----------------------------------------------------------------------------
(***************************************************************************)
(* Writing the row of the OS from a copy.                                  *)
(***************************************************************************)

\* SqlAlchemyServiceOrderRepository.save compares the copy with the row it
\* locks, or with the instance the session still holds; the lines of the OS
\* are not its to write.
OrderSaved(r) ==
  \E base \in {order, request[r].orderSeen} :
    order' = Written(order, base, request[r].orderCopy, {"status", "mechanic", "total"})

\* override_status: a budget pending when the OS leaves AGUARDANDO_APROVACAO
\* is superseded, the latest one if there are several.
Pending(b) ==
  IF order.status = "AGUARDANDO_APROVACAO" /\ \E c \in DOMAIN budgets : budgets[c].status = "SENT"
  THEN IsLatest(b, "SENT") ELSE b = 0

\* Budget.supersede: its link is no longer good.
Superseded(row) ==
  IF MayBecome(row, "SUPERSEDED") THEN [row EXCEPT !.status = "SUPERSEDED", !.token = 0] ELSE row

BeginOverride(r, status) ==
  /\ request[r] = Blank
  /\ MayOverride(order.status, status)
  /\ \E b \in 0 .. Len(budgets) :
       LET row == IF b = 0 THEN Draft ELSE budgets[b]
       IN  /\ Pending(b)
           /\ request' = [request EXCEPT ![r] =
                [Blank EXCEPT !.kind = "override", !.of = b,
                              !.seen = row, !.base = row, !.copy = Superseded(row),
                              !.orderSeen = order,
                              !.orderCopy = [order EXCEPT !.status = status]]]
  /\ UNCHANGED <<budgets, order, mailed, honoured, stale>>

\* By hand an OS can be made to wait for a decision nobody was asked for:
\* that too is put on record.
CommitOverride(r) ==
  /\ request[r].kind = "override"
  /\ IF request[r].of = 0 THEN UNCHANGED budgets
     ELSE /\ Savable(budgets[request[r].of], request[r])
          /\ budgets' = [budgets EXCEPT ![request[r].of] = Saved(@, request[r])]
  /\ OrderSaved(r)
  /\ stale' = \/ stale \/ StaleBudget(r) \/ StaleOrder(r)
              \/ request[r].orderCopy.status = "AGUARDANDO_APROVACAO"
  /\ Answer(r)
  /\ UNCHANGED <<mailed, honoured>>

\* Request r reads the OS and changes its copy.
ReadOrder(r, copy) ==
  /\ request[r] = Blank
  /\ HasOrder
  /\ request' = [request EXCEPT ![r] =
       [Blank EXCEPT !.kind = "order", !.orderSeen = order, !.orderCopy = copy]]
  /\ UNCHANGED <<budgets, order, mailed, honoured, stale>>

\* set_priority, update, record_queue_entry, another mechanic: none of the
\* columns modelled changes.
BeginEditOrder(r) == ReadOrder(r, order)

\* assign_mechanic.
BeginAssignMechanic(r) ==
  /\ ~order.mechanic
  /\ \/ /\ order.status = "RECEBIDA"
        /\ ReadOrder(r, [order EXCEPT !.mechanic = TRUE, !.status = "EM_DIAGNOSTICO"])
     \/ /\ order.status = "AGUARDANDO_INICIO"
        /\ ReadOrder(r, [order EXCEPT !.mechanic = TRUE])

\* start_service.
BeginStart(r) ==
  /\ MayStart(order.status, order.mechanic)
  /\ ReadOrder(r, [order EXCEPT !.status = "EM_EXECUCAO"])

CommitOrder(r) ==
  /\ request[r].kind = "order"
  /\ OrderSaved(r)
  /\ stale' = (stale \/ StaleOrder(r))
  /\ Answer(r)
  /\ UNCHANGED <<budgets, mailed, honoured>>

-----------------------------------------------------------------------------
BudgetStep(r) ==
  \/ \E b \in DOMAIN budgets : BeginSend(r, b)
  \/ \E b \in DOMAIN budgets, l \in Lines :
       \/ BeginRemoveLine(r, b, l)
       \/ \E n \in Units : BeginAddLine(r, b, l, n) \/ BeginChangeLine(r, b, l, n)
  \/ CommitEdit(r) \/ BeginRevise(r) \/ CommitRevise(r) \/ CommitSend(r)
  \/ Reload(r) \/ Fail(r)

OrderStep(r) ==
  \/ \E status \in Corrections : BeginOverride(r, status)
  \/ CommitOverride(r)
  \/ BeginEditOrder(r) \/ BeginAssignMechanic(r) \/ BeginStart(r)
  \/ CommitOrder(r)

Next ==
  \/ \E r \in Requests : BudgetStep(r) \/ OrderStep(r)
  \/ \E link \in 1 .. MaxLinks : Decide(link)
  \/ \E b \in DOMAIN budgets : ApproveById(b)

Spec == Init /\ [][Next]_vars

-----------------------------------------------------------------------------
(***************************************************************************)
(* Properties.                                                             *)
(***************************************************************************)

\* Every variable keeps its type: no statement writes a value its column or
\* the rest of the program has no meaning for.
TypeOK ==
  /\ budgets \in Seq(Rows)
  /\ Len(budgets) \in 1 .. MaxBudgets
  /\ order \in OrderRows
  /\ mailed \in 0 .. MaxLinks
  /\ honoured \subseteq 1 .. MaxLinks
  /\ request \in [Requests -> RequestRows]
  /\ stale \in BOOLEAN

\* decide_budget lets a link decide only while approval_used_at is empty.  Of
\* two requests at a time none empties that column, with a copy read before
\* the decision, while the link's fingerprint is still there.  Of four one
\* can, but only by writing a stale copy.
HonouredLinkIsSpent ==
  \A b \in DOMAIN budgets : budgets[b].token \in honoured => budgets[b].used

\* The total of a budget is that of its lines (_recalculate) and the total
\* of the OS that of its scope (apply_approved_revision).
PricedAsListed ==
  /\ \A b \in DOMAIN budgets : budgets[b].total = Priced(budgets[b].lines)
  /\ order.total = order.scope

\* An OS in AGUARDANDO_APROVACAO has a budget that can still be decided:
\* send_budget_email, the decisions and override_status move the two
\* together.
AwaitsADecision ==
  order.status = "AGUARDANDO_APROVACAO" =>
    \E b \in DOMAIN budgets : Undecided(b)

\* As long as no stale copy was written, the prices agree with the lines and
\* the OS with its budgets, however requests interleave.
AgreeUnlessStale == ~stale => PricedAsListed /\ AwaitsADecision

\* As long as no stale copy was written, what the customer was sent does not
\* change and a decision is not taken back (_ensure_editable,
\* _ALLOWED_TRANSITIONS).
SentIsFrozen ==
  [][~stale' =>
       \A b \in DOMAIN budgets :
         /\ budgets[b].status # "DRAFT" =>
              /\ budgets'[b].lines = budgets[b].lines
              /\ budgets'[b].total = budgets[b].total
              /\ budgets'[b].status # "DRAFT"
         /\ budgets[b].status \notin {"DRAFT", "SENT"} =>
              budgets'[b].status = budgets[b].status]_vars
=============================================================================
