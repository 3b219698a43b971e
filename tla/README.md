# Auto-shop system: TLA+ model, checks and proofs

`src/` is a FastAPI application for a car workshop: budgets are sent to customers,
an approved budget becomes a service order (OS), the OS gets parts from stock or
from suppliers, is worked on, invoiced and delivered.  With it come the scripts and
workflows that open and tear down its environment and provision its monitoring.
This directory models the parts of both that are hard to test, checks them with TLC
and proves what the runs check, liveness aside, with TLAPS.

Paths below are relative to the repository; the application is under `src/`.

## 1. Inventory of the system

The application: one database session per request, PostgreSQL at READ COMMITTED, no
background worker.  Repositories flush, a unit of work commits at the end of a service
method.  Concurrency is therefore between request handlers, and what protects a
handler is the row locks it takes (`SELECT ... FOR UPDATE`), conditional updates
and unique constraints.

The automation: GitHub workflows that call scripts.  A run can be lost at any step and
be attempted again, a call can fail before or after it took effect, and what one run
knows of another is what it reads from a DynamoDB record or the list of runs.  What a
script may do depends on the environment of the job that calls it.

| Component (code) | State | Operations | Talks to | Hard behaviour | What makes it correct |
|---|---|---|---|---|---|
| Service order (`domain/service_order`, `service_order_service.py`, `service_order_repository.py`) | status, mechanic, priority, lines, audit history | assign mechanic, set priority, override, plus the transitions driven by the others | budgets, inventory, execution, billing | read without lock, then a save that writes all columns; history de-duplicated by request id | no lost transition; every change of status on record |
| Inventory (`inventory_service.py`, `inventory_repository.py`) | reservations, purchase requests, receipts | reconcile an OS, register a receipt, request a purchase | orders (queue by `created_at, id`), products | one reconciliation changes rows and statuses of several OSs; older orders pre-empt newer ones | FIFO, nothing promised twice, status and backorder agree with what is lacking |
| Execution (`execution_service.py`, `execution_repository.py`) | withdrawals, start and finish times | start, request withdrawal, fulfil, finish | reservations, stock, e-mail | e-mail awaited inside the withdrawal transaction | never more parts than approved, a finished OS got all of them |
| Product stock (`product_service.py`, `product_repository.py`) | `stock_quantity` | adjust, edit | inventory, execution | correction below what is reserved; edit writes back the stock it read | no negative stock; only corrections over-reserve |
| Budgets (`domain/budget`, `budget_service.py`) | revisions, lines, token hash | create, revise, edit lines | approval | stale copies, several open revisions of one budget | totals agree with lines; what was sent is frozen |
| Budget approval (`budget_approval_service.py`, `budget_approval.py`) | token, expiry, used-at | send, approve, reject (customer by token, staff by id) | orders, inventory, e-mail | link used twice, reissued while used | one effect per link; an OS that waits has something to decide |
| Billing (`invoice_service.py`, `domain/billing`) | invoice, payments | create, pay, deliver | orders | concurrent or repeated payments, stale writes of the OS | paid at most the amount, delivered only when paid |
| Business telemetry (`business_telemetry.py`, `unit_of_work.py`) | events queued in the session | queue, flush, discard | all services | commit, rollback, lost answers | only committed changes are told, each once |
| Refresh sessions (`auth/sessions.py`, `routers/auth.py`) | session family | issue, rotate, logout | limiter | rotation races logout and replay | at most one good session of a login, a revoked family stays so |
| Login limits (`api/rate_limit.py`) | attempt buckets | check, fail, succeed | Redis | checked before, told after the password is verified; bounded buckets | no lock lost early, none undeserved |
| CI session ledger (`.github/scripts/lifecycle_session_ledger.py`) | session record, lease, authorisations | open, hand off, issue, consume, claim, finalise | workflows | lease takeover, late calls | one holder of the teardown |
| Opening, stop and cleanup (`environment-*.yml`, `lifecycle-cleanup.yml`, `assert_*`, `resolve_*`, `dispatch_expired_*`) | runs and attempts | open, recover, stop, clean up, emergency stop | ledger, other repositories | each decides on the list of runs; each script depends on what its job tells it | destroyed by one run, no change without evidence, in the end closed |
| Cross-repository dispatch (`cross_repo_lifecycle.py`) | the child run, by title | resume, dispatch, poll, cancel | ledger | lost answers, deadlines, reruns | one child at work, never redone, never reported late |
| Observability provisioning (`scripts/observability`) | dashboard, policy, conditions in New Relic | apply, disable | New Relic, people | a run of many calls that fails in between | success means done; a rerun repairs or asks |
| Catalogue and customers, e-mail, PDF, seeding, HTTP wiring, preflights | rows | CRUD, pure I/O | - | - | not modelled, see section 5 |

`PROJECT.json` lists each with its files and status, and every hazard at its line.

## 2. Modules

| Module | Models |
|---|---|
| `ServiceOrderStatus` | the statuses and the sets of them the guards name |
| `ReservationQueue` | the FIFO allocation of one product to a queue of orders (`_reconcile_product_queue`) as pure operators |
| `Inventory` | stock, reservations, purchase requests and withdrawals of service orders: one action per operation |
| `WorkshopJob` | abstract: what the workshop promises about an OS's parts, without stock or reservations |
| `BudgetRevisions` | the budgets of one quotation, the links mailed for them and the OS, with the save of stale copies |
| `Billing` | finishing, invoicing, paying and delivering an OS, each operation split at its unlocked read |
| `StatusHistory` | `Billing` with the audit rows and the telemetry its steps leave |
| `LoginLimiter` | the two limiters of the login, in the process and in Redis |
| `StaffSessions` | login behind `LoginLimiter`, refresh, replay, logout |
| `SessionLedger` | the operations of the ledger as conditional writes |
| `Lifecycle` | the runs of the opening, stop and cleanup workflows around `SessionLedger` |
| `TeardownLease` | abstract: a lease with one holder, released once |
| `CrossRepoDispatch` | one coordinator, its attempts and the child runs it dispatches |
| `Operation` | abstract: a piece of work done by one worker at a time and never redone |
| `Provisioning` | the provisioner call by call, people who change New Relic, new definitions |
| `MCInventory`, `MCBilling`, `MCBudgets`, `MCStaffSessions`, `MCLifecycle`, `MCDispatch`, `MCProvisioning` with twelve `.cfg` | instances for TLC |
| `InventoryProofs` | theorems about `ReservationQueue` and `Inventory` |
| `BudgetProofs` | about `BudgetRevisions` |
| `BillingProofs` | about `Billing` and `StatusHistory` |
| `StaffSessionsProofs` | about `StaffSessions` and `LoginLimiter` |
| `LifecycleProofs`, `TeardownProofs` | about `SessionLedger` and `Lifecycle`: types, the lease; then who destroys what |
| `DispatchProofs`, `ProvisioningProofs` | about `CrossRepoDispatch`, `Provisioning` |

Composition: `Inventory` uses `ReservationQueue` and refines `WorkshopJob`;
`StatusHistory` lays its variables over `Billing` (a step of one is a step of the
other); `StaffSessions` calls the actions of `LoginLimiter`, `Lifecycle` those of
`SessionLedger`; `Lifecycle` refines `TeardownLease`, `CrossRepoDispatch` refines
`Operation`.  `Lifecycle` takes the wait of a run for its child as one guard; how it
waits is `CrossRepoDispatch`.

### How `Inventory` corresponds to the code

| Variable | Code |
|---|---|
| `stock[p]` | `products.stock_quantity` |
| `status[o]`, `mechanic[o]` | columns of `service_orders`; `mechanic` only says whether one is assigned |
| `sent[o]` | number of budgets of the OS's family in status SENT |
| `required[o][p]` | product lines of the OS, summed by product |
| `reserved[o][p]` | quantity of the ACTIVE reservation row (there is at most one, updated in place) |
| `ordered[o][p]`, `loose[p]` | the pending purchase request of the OS; requests with no OS |
| `withdrawals`, `fulfilled[o][p]` | open withdrawal rows; sum of the FULFILLED ones |

An order's number is its place in `(created_at, id)` order, which is the order of
the queue.  Transactions may *commit* in another order, and the vehicle of a later
order may be approved first, so `ApproveBudget` is enabled for any order at any
time: that is how an older order arrives behind newer ones and pre-empts them.

`Reconcile(o, st, req, stk, ord)` is `reconcile_for_service_order` applied to rows
that its caller has already changed (a new scope, a receipt, ...).  It is part of
every action whose handler calls it, never a step of its own:

* not reservable: reservations and purchase requests of the OS are dropped;
* reservable: for each product the OS requires, the whole queue of that product is
  allocated again (`Allocation`), the backorder of each queued OS is set to what it
  lacks (`Backorders`) and the status of the OS and of its competitors is refreshed
  (`Refreshed`).

The loop over the queue counts down what remains.  `Granted` is its closed form:
an order gets what it requires or what is left after all orders ahead of it.  `Remaining`
is the loop itself: `MCInventory!LoopAssumption` compares the two for every queue of four
orders, and `InventoryProofs!LoopGrants` proves them equal for every queue.

Handlers are atomic actions where locks make them so (reconciliation and its callers
lock the OS, then products, then the queue; fulfilment locks the withdrawal, the
reservation and updates stock conditionally).  Asking for a withdrawal is split:
`RequestWithdrawal` (reads, checks, inserts), then `CommitWithdrawal` after the
e-mail, or `RollbackWithdrawal` when it fails; uncommitted rows are invisible to the
checks of others, as READ COMMITTED has it.  `EditProduct` is the edit of a product,
whose save writes the stock quantity of the copy it read: there is no limit on the age
of that copy, so the model lets it write any quantity.

What is abstracted, and why it does not matter to the properties:

* prices, names, service lines, tokens, e-mails, history: no property here reads them;
* which revision of a budget is decided: a revision may be approved with any scope of
  `Scopes` while `sent > 0`, which covers every order of decisions
  (`BudgetRevisions` models which are possible);
* replacing a mechanic, priorities, entering the execution queue: they change neither
  status nor parts;
* a replayed decision reconciles without a commit and changes nothing;
* `create_reservation`, `release_reservations_for_os` and their helpers have no route;
* `list_reservation_queue` is a `SELECT DISTINCT ... FOR UPDATE`, a combination
  PostgreSQL refuses; the tests run on SQLite, which ignores the lock.  The model takes
  the query to do what it is written for;
* start and finish read the OS without a lock, and purchase requests and receipts read
  the request without one: these races are not in `Inventory`.

### How `BudgetRevisions` corresponds to the code

| Variable | Code |
|---|---|
| `budgets` | rows of `budgets` of one family with their lines: `status`, `token` (the fingerprint of a link, as its number), `used` (`approval_used_at`), `revision`, `lines`, `total` |
| `order` | the row of the OS: `status`, whether it has a mechanic, `total_price` and its own copy of the lines (`scope`) |
| `mailed`, `honoured` | links handed to customers; those whose decision was committed |
| `request[r]` | what a staff request has read (`seen`), what it made of it (`copy`) and the row `save` compares it with (`base`) |
| `stale` | history variable: a copy was written that was no longer the row |

Each staff request is a `Begin...` that reads and a `Commit...` that writes.  `save`
loads the row again (`Reload`) and writes the columns in which the copy differs from
what it loaded; its `UPDATE` may wait for another transaction, so `base` can be older
than the row it changes.  A decision (`Decide`, `ApproveById`) locks the budget and the
OS from its first read to its commit and is one action.  `Fail` is any failure or
refusal before the commit.

Abstractions: one family and one OS; a budget's row and its lines are read in one
step; a line stands for a row of a service or a product (the parts a service brings
come and go with it); a total stands for the quantities it adds up; links expire by
never being used; a decision replayed later is answered without a change and is
therefore no action; AGUARDANDO_COMPRA and what decisions do to reservations are
`Inventory`'s; the estimated delivery is left out.

### How `Billing` and `StatusHistory` correspond to the code

| Variable | Code |
|---|---|
| `status[o]` | `service_orders.status`, from `EM_EXECUCAO` on |
| `total[o]` | sum of the priced lines of the OS, in the smallest payable unit; the lines cannot change any more |
| `invoice[o]` | `invoices.status`, or that there is no invoice (`service_order_id` is unique) |
| `paid[o]`, `used[o]` | sum and idempotency keys of its `payments` |
| `jobs[w]` | the request worker `w` serves: what it has read, and a payment it has inserted and not committed |
| `asked[w]` | the request id: a header the client sets, or the idempotency key of a payment |
| `history[o]` | rows of `service_order_status_history`, by request id |
| `emitted[o]`, `failures[o]` | exported events of a changed status; exported reports of a failed finish |

`get_by_id` reads the OS without a lock and `save` assigns every column of the copy to
the row it locks only then.  So each operation is a `Begin...` that keeps the status it
saw and a `Save...` that writes what follows from it.  Whether the assignment of an
unchanged status reaches the database depends on whether the session still holds the
instance it read (no change) or has loaded the row again (a change): `SaveEdit` may do
either.  An edit is `PUT /service-orders/{id}` or the assignment of a mechanic; naming
the same mechanic again is accepted in every status.

A payment holds the invoice's row lock from its first read to its commit
(`RecordPayment`, `CommitPayment`); only the OS it will deliver is read without one.
`CreateInvoice` is one step: the unique key decides between two creations, and nobody
acts on the absence of an invoice.  A repeated key is answered without a change and is
therefore no action.  `Rollback` is any failure, refusal or lost connection.

`StatusHistory` adds to each of these steps what it records.  The row of a transition
is inserted in the transaction unless the OS has one of the same request id (`Record`).
Its event waits in the session: the commit exports it (`Flush`), or it is lost with the
process, and a rollback discards it.  A finish whose commit raised is rolled back and
reported (`Report`), although the commit may have taken effect.

Left out: methods and times of payments, the parts a finish requires (they are in
`Inventory`), durations, rows from before request ids, the creation event, the failure
report of a start, and the index that keeps a second active OS off the vehicle, which
can only turn a stale save into a `Rollback`.

### How `LoginLimiter` and `StaffSessions` correspond to the code

| Variable | Code |
|---|---|
| `backend` | which of the two limiters the settings choose |
| `buckets[n]` | the bucket of a name in the process: ages of its failures, what is left of its lock, how long it has been idle |
| `counters[n]` | the counter and the lock in Redis with what is left of their lives |
| `counted[n]` | for the properties: ages of the failures since the name was last locked or let in |
| `rows[r]` | rows of refresh sessions, with those not committed yet (`pending`); `family` is named by its first row, `user` by the name logged in |
| `active` | users that are active |
| `req[q]` | what each request is at: a login whose password is being verified, a refresh that holds the lock of its row, a revocation with the rows its statement saw |

Each request runs in a READ COMMITTED transaction.  A refresh locks the row it is
shown, inserts its successor and commits; a replayed token revokes its family; a
logout revokes what its statement sees when it begins and waits for rows that are
locked.  Sessions may expire at any time; deactivating a user is external.  A
revocation that is lost is one that never began.  Time is in ticks; ages are dropped
when they are too old, not when next looked at.  Left out: cookies, CSRF, access
tokens, the second login route (it differs only in its answer), the limiter of the
public pages, which checks and counts in one step.

### How `SessionLedger` and `Lifecycle` correspond to the code

| Variable | Code |
|---|---|
| `now` | the clock, in ticks since the session started |
| `session` | the STATE item: status, the opening run and attempt, the closing run and attempt, what is left of the lease |
| `auths[d]` | the AUTH#DISPATCH# items: what is left of each, and who consumed it |
| `step[r]`, `outcome[r]`, `attempt[r]` | where a run of a workflow is, its conclusion, `run_attempt` |
| `via[r]` | a person, the emergency cleanup, or the dispatch that started it |
| `recorded`, `mutated` | openings that recorded the session, that began to change the environment |
| `stops` | what ended stops left on record: one succeeded, one may have destroyed |
| `faults` | bound on lost runs and failed children |

An operation of the ledger is one conditional write; one that decides on what it read
without comparing it again takes the record it read, its time and whether the clock has
moved since.  In `Lifecycle` they are called at once.  Runs go through the jobs of the
workflows in their order; each guard is what the script of that job reads from the
ledger and the list of runs.  `Fault` loses a run, `Rerun` attempts it again, from its
first job or the one that failed.

An opening dispatches two kinds of child.  The applies of the K8s stacks
(`environment-start.yml:309-363`, here one `apply`) ask the ledger for nothing; the
provisioning of the database (365-378, `open`) asks for an authorisation.

**Gaps.**  At this commit several jobs do not tell their scripts what these require, so
that a step fails at every run.  The constant `Gaps` says which of them are assumed:

| Gap | The step that fails | Because |
|---|---|---|
| `"open"` | the dispatch of the database role, `environment-start.yml:365-378` | the environment of job `open` (107-131) has no `LIFECYCLE_CROSS_REPO_ACTOR`; `_configured_dispatch_actor` (`lifecycle_session_ledger.py:233-242`, called at 702) raises |
| `"auto-stop"` | the dispatch of the automatic stop, 661-670 | the environment of `hml-auto-stop-close` (643-650) has neither the actor, nor the operators, nor the table, nor a role in AWS |
| `"stop name"` | the consumption of an authorisation by a stop, `environment-stop.yml:206-247` | the authorisation keeps the file name of the workflow (`lifecycle_session_ledger.py:785`), the consumer compares its display name (834, 943, 963) |
| `"emergency"` | the first job of an emergency stop, the same step | its environment (85-87) has no `LIFECYCLE_EMERGENCY_CAPABILITY_VERIFIED`, which `_require_stop_coordinator_branch` (334-353, called at 642) asks for on `develop` |
| `"audit"` | the check for active runs, `environment-stop.yml:670-671` | the environment of `audit` (591-605) has no `APP_REPOSITORY`, `APP_REF`, `K8S_INFRA_REF` or `DATABASE_INFRA_*`; `assert_no_active_lifecycle_runs.py:40-41` raises |

At this commit `Gaps = KnownGaps`: no database is provisioned, no session is served, no
dispatched or emergency stop destroys anything and no session is ever recorded as closed;
a stop that an operator starts is the only one to destroy, and its run fails in its audit.
Run `auto_close` has these gaps.  Run `lifecycle` has none: it is the configuration the
scripts are written for, in which the teardown, the audit and the close do happen.  A gap
makes a step refuse, which for the records and the other runs is no more than the loss of
its runner there (`Fault`); the run has one such fault, the theorems have any number and
hold for every `Gaps`, those of this commit included (TLC agrees: with all of them in
`Lifecycle.cfg` the same properties hold, over 420 k states).  Two more steps always fail
and are part of the model whatever `Gaps` is: no stop of the hourly cleanup passes
`environment-stop.yml:128` (`MayResolve`), and no stop closes a session of the full profile,
whose scope is `integrated`; such sessions are not modelled.

Abstractions: one infrastructure-only HML session (the coordinators close no
other); the five phases of a teardown are one child; preflights and plans are one step;
authorisations for health and audit follow the rules of opening and closing;
`record_close_step` and the replay of a consumed authorisation by the same attempt are
left out (a lost answer fails the job); so is the audit of a close that failed; a
cleanup's name and that of its stop are reused once it is over; the concurrency group
`environment-lifecycle` is not assumed to order anything; nobody reruns a stop the
cleanup dispatched; an opening with ambiguous evidence may be refused (`Ambiguous`).

### How `CrossRepoDispatch` corresponds to the code

| Variable | Code |
|---|---|
| `attempt`, `step`, `late` | the attempt of the coordinator, where `dispatch_and_wait` is, whether its deadline has passed |
| `followed` | the attempt whose child it waits for |
| `auths`, `children` | by attempt: its authorisation, and the run it dispatched (status, listed yet or not, missed by which deadline) |
| `applies` | the runs that create what the child destroys, which are stopped first |
| `faults` | bound on calls that fail and attempts that are lost |

Abstractions: arguments are valid; a rerun begins once all runs of earlier attempts are
listed; two runs of one title, more than a hundred runs, the rerun of a child and stale
statuses in the list are left out; applies never start anew; an authorisation that
expired is a refusal.

### How `Provisioning` corresponds to the code

| Variable | Code |
|---|---|
| `profile`, `version` | technical or service-order; the version of the definitions in the repository |
| `dashboards`, `policies`, `conditions` | entities of New Relic by their names: whose ownership tags they have, how many there are, enabled or not, as which version, static or of another type |
| `run` | the run in progress: its step, what it was asked and with which version, what it has to do |
| `outcome` | what the last run that reported success has established, until somebody disturbs it |
| `faults`, `hands` | bounds on failing calls and on changes by hand |

A version of the definitions names the dashboard, its ownership marker and the policy
(`Titles`, `Owners`, `PolicyNames`).  The validator of the technical profile checks them
by a pattern only (`provision_technical_observability.py:315-318`, 404), so that a new
version may rename them; those of the service orders are given to the letter (527-530), so
`Named` keeps them.  A run looks for the names of its own version (`Here`,
`PoliciesFound`) and never for those of an earlier one.  An owned service-order condition
that does not match and is not static is refused (1196-1200, `RefuseCondition`); the
technical profile updates one, which New Relic may refuse or do.

A read and the mutation it leads to are one step; every call may be refused or lose its
answer, and either ends the run.  Definitions are told apart by version and by whether
they are as reviewed (`Flaws`); those that are not end a run, disable included, before
its first call.  The two workflows allow one run at a time (their concurrency groups
with `cancel-in-progress: false`).  The search is up to date when a run begins; people
add and remove only between runs and edit at any time, and remove no policy; `validate`
and `plan` change nothing and are left out, as are duplicated owned condition names.

### Bounds

| Bound | Limits |
|---|---|
| `MaxStock`, `MaxRequest`, `MaxLoose`, `MaxSent`, `RowIds` | counters of `Inventory` and the number of open withdrawals; `Scopes` what a budget asks for; `Interventions` chooses what the office does besides the ordinary flow |
| `Lines`, `MaxUnits`, `MaxBudgets`, `MaxLinks`, `Requests`, `Corrections` | rows and quantities of lines, budgets of the family, links mailed, requests at a time, statuses an administrator may set |
| `Keys`, `Prices`, `Workers` | request ids, totals, requests at a time of `Billing` |
| `MaxRow`, `Requests` | sessions and requests of `StaffSessions` |
| `MaxAttempt`, `MaxFaults`, `MaxReruns`, the runs and times | `Lifecycle`, `CrossRepoDispatch` |
| `MaxVersion`, `MaxDashboards`, `MaxFaults` | `Provisioning` |

The theorems hold for every value of them.

## 3. What the runs check

| Run | Instance | Question | Result |
|---|---|---|---|
| `parts` | 2 orders, 1 product, up to 2 units, 2 open withdrawals; revisions, overrides, reconciliations, purchases by hand, stock corrections and product edits | `TypeOK`; `ScopeRespected`; `OnlyCorrectionOverReserves`; `FirstComeFirstServed`; `PreemptionLeavesBackorder`; `KeepsTheJob` (refinement of `WorkshopJob`) | holds, 861 k states |
| `finish` | 3 orders, 2 products of one unit each, ordinary flow, fairness | `WaitingOrdersSettled`: of each waiting order, status and purchase requests agree with what it lacks, whichever order's reconciliation wrote them; `EveryOrderFinishes` | holds, 57 k states |
| `keep_parts` | 1 order, revisions | `ExecutionKeepsItsParts` | **violated** |
| `two_requests` | 1 order, 2 withdrawals at a time | `RequestsWithinScope` | **violated** |
| `budgets` | 2 budgets of one line of one unit, 2 links, 2 staff requests at a time, overrides to two statuses | `TypeOK`; `HonouredLinkIsSpent`: no link decides twice; `AgreeUnlessStale`: totals agree with lines and an OS that awaits a decision has one to await; `SentIsFrozen`: what was sent does not change, no decision is taken back | holds, 1.27 M states |
| `billing` | 1 OS of any total up to 2, 2 keys, 3 requests at a time, with its audit trail | `TypeOK`; `LedgerAgrees`; `DeliveredMeansPaid`; `OnlyStaleWritesReopen`; `EventsOnRecord`: one row per request id, no event without its row; `AuditTrail`: every other change of status on record as it happened | holds, 624 k states |
| `paid_reopened` | 1 OS of total 1, 2 requests at a time | `PaidMeansDelivered` | **violated** |
| `sessions` | 2 names, 1 user, 3 sessions, 2 requests at a time; 3 failures within 2 ticks lock for 2; room for one bucket | `TypeOK`; `OneLiveSession`; `RevocationHolds`; `TriesBounded`; `LockoutHolds` | holds, 838 k states |
| `lifecycle` | 2 openings, 2 stops, 1 cleanup, each with 2 attempts, one fault, one rerun | `TypeOK`; `EvidenceComplete`: whatever changes the environment is on record for those who review it later; `DestroyedByOneRun`; `DestroyerHoldsLease`; `TeardownSeenThrough`; `ImplementsLease` (refinement of `TeardownLease`) | holds, 951 k states |
| `auto_close` | 1 opening, no fault, no operator, fairness, all gaps of this commit | `BuiltIsClosed`: a session whose cluster was built is closed in the end | **violated** |
| `dispatch` | 3 attempts, 2 applies, 2 faults | `TypeOK`; `DoneInTime`; `NeverWithAnApply`; `ImplementsOperation` (refinement of `Operation`); `EveryAttemptEnds` | holds, 13 k states |
| `provision` | 4 versions of the definitions with two names each, 2 failing calls, 2 changes by hand, both profiles | `TypeOK`; `DoneAsAsked`: a run that reports success did what it was asked to, under the names it was given; `StaysWithinItsTask`; `RecoversOrAsks` | holds, 724 k states |

Some state counts are modulo the symmetry of workers, keys, withdrawal rows or stops.

Why the bounds suffice:

* `parts`: pre-emption, shortage and over-reservation are relations between two orders
  and one product; two units let a grant be partial; two withdrawal rows let one be
  committed while the other awaits its e-mail.
* `finish`: the middle one of three orders is both behind and ahead; two products are
  needed where one reconciliation touches the queues of several.
* `budgets`: a stale write needs two requests, or one and a decision; a superseded or
  rivalling revision needs two budgets; a reissued link needs two links.  A quantity of
  one still tells a line never seen, one present and one removed apart.
* `billing`: orders do not interact; three requests at a time let a payment, a stale
  write and a delivery meet; a total of two is paid in one or two parts, zero is the
  total of an OS without priced lines; two keys let a key be fresh or reused.
* `sessions`: a revocation meets a refresh with two requests; with three rows a session
  can be replaced twice, or two families exist; a bucket is evicted when there is room
  for one and two names are tried.
* `lifecycle`: a recovery needs two openings, a takeover two stops; a run's second
  attempt and one lost runner or answer are what the ledger's records tell apart.  The
  ticks separate the end of the session, the last normal teardown and the window.
* `dispatch`: with three attempts the second one's child can be resumed by the third
  while the first one's is over; two faults lose an answer and then an attempt.
* `provision`: of the four versions each differs from the last in what is defined,
  verified or flawed or in a name: the second renames the dashboard and its owner, the
  fourth gives the owner its first name back and renames the policy.  Two faults leave a
  dashboard untagged and an alert deleted.

The deadlock check is off where the system really may stop: in `finish` (finished orders
and a full shelf), `budgets` (a refused quotation), `dispatch` (the attempts are over)
and `provision`, and in the violation runs that say so.  Every other run checks it.

### Findings

* **`keep_parts`**: `docs/contexts/requirements/requirements.md:1031` says a reserved
  quantity is immobilised for the exclusive use of its OS until it is physically
  withdrawn.  Approve a budget, assign a mechanic, start, send a revision:
  `send_budget_email` releases the reservations although the OS is in execution.
  Nothing reserves parts for an OS in execution again, so it can neither withdraw
  them nor be finished.  Reconciling such an OS by hand, or receiving parts the office
  ordered for it, does the same (`inventory_service.py:64`): the run fails as well with
  `RECONCILE`, or `PURCHASE` and `MaxRequest = 1`, in place of `REVISION`.  Without the
  three nothing takes the parts away (`KeepsItsParts`).
* **`two_requests`**: `docs/pr_review_guidelines.md:68` asks withdrawal to be free of
  lost updates.  Two requests for the same parts both read the committed withdrawals
  and pass `validate_withdrawal_quantity` before either commits.  Fulfilment still
  protects the shelf (`ScopeRespected` holds in `parts` with such races), but a row
  that can never be fulfilled stays open, since no code cancels a withdrawal.  Only
  requests that overlap ask for too much (`RequestsStayWithinScope`): a lock held from
  the check to the commit would rule that out.
* **`paid_reopened`**: `README.md:275` of the repository says full payment moves the OS
  to `Entregue`.  An edit or a second finish that read the OS earlier and saves later
  writes the older status back (`service_order_repository.py:258`).  The invoice stays
  paid, so no payment delivers the OS again; staff must finish and deliver it by hand.
  `OnlyStaleWritesReopen` shows that nothing else reopens a delivered OS,
  `PaidIsDeliveredUnlessStale` that nothing else keeps a paid one in the workshop, and
  `DeliveredMeansPaid` that the race never lets a car out unpaid.
* **`auto_close`**: `docs/INFRASTRUCTURE.md:94` promises an automatic teardown and lines
  97-100 an hourly cleanup.  The opening builds the cluster and fails at the database role
  (gap `"open"`), so that its automatic stop, which needs an opening that succeeded
  (`environment-start.yml:613-616`), never runs, and could not dispatch either (gap
  `"auto-stop"`).  The hourly cleanup's stops fail in their first job because
  `environment-stop.yml:128` passes an option `resolve_lifecycle_session.py` does not
  know.  Such a failed stop has no markers, reads as one that may have destroyed
  something, and so keeps the emergency stop away, which would fail in its first job too
  (gap `"emergency"`); and none gets past the audit (gap `"audit"`).  Without an operator
  the session stays open, with the cluster built.  Filling the gaps is not enough: with
  `Gaps = {}` the automatic stop finds the opening that waits for it still active, refuses,
  and its failure is again one without markers.

Other weaknesses the models show, each a hazard in `PROJECT.json` (there is no run of
its own for them):

* a stale save of a budget or an OS overwrites what was sent or decided: an edit begun
  before the sending, a link reissued while the customer decides, a priority change
  begun before an approval that leaves the OS awaiting a decision nobody can make.
  `docs/architecture.md:39` calls sent revisions immutable; that holds exactly as
  long as no stale copy is written (`SentIsFrozen`, `AgreeUnlessStale`);
* `HonouredLinkIsSpent` holds for two staff requests at a time; with four requests and
  five links a column read and written late enough can empty `approval_used_at` again,
  but never without a stale copy (`LinksDecideOnce`), and only through a row that changes
  while the `UPDATE` of a save waits for its lock (`HonouredLinksStaySpent`);
* a logout or replay that meets a refresh leaves the successor alive
  (`RevocationHolds` states what does hold);
* an OS's change goes unrecorded when its request id was used before on that OS
  (`Unrecorded` in `StatusHistory`); clients choose these ids;
* in Redis, failures spread over two counters let up to `2 * MaxAttempts - 3` tries
  into one window (`TriesBounded`);
* a recovery after a failed apply leaves two openings that changed the environment, and
  every stop refuses; a stop dispatched in the last minutes of the window skips its jobs
  and succeeds, and is taken for the close of the session afterwards; a run that builds the
  cluster is not gated by the ledger and may go on after the teardown; an operator's rerun of a failed emergency stop is not reviewed again
  (`OneRunsTeardowns` excepts it);
* the provisioner creates a dashboard and tags it in two calls, and replaces a condition
  in two: a run that fails in between blocks every later one, disabling included, or
  leaves the alert missing until the next apply;
* definitions that rename the policy leave the earlier one alone: a disable finds no
  policy of the new name and reports success while the alerts of the old one are on
  (`provision_technical_observability.py:1127-1134`).  A renamed dashboard is made beside
  the owned one, as `docs/observability/new-relic-technical-dashboard-alerts.md:3-11` says
  of its v2; a change of the ownership marker alone makes the dashboard somebody else's.
  `DoneAsAsked` and `RunsDoAsAsked` therefore speak of the names that the run was given
  and say nothing of earlier ones;
* an owned service-order condition of another type than the static one ends every apply and
  every disable until a person removes it (1196-1200; one of the cases of `Blocked`).

### Fairness

`Inventory!FairSpec` assumes that the workshop keeps working: budgets accepted are
registered, goods on order arrive in some quantity, an OS gets a mechanic, is started,
its parts are asked for and handed over, and it is finished (weak fairness each).  These
are people acting on tasks the system lists for them, and no step is assumed that the
code does not offer.  An e-mail may fail any number of times but not for ever: strong
fairness of the commit, because a rollback disables it again and again.  Overrides,
revisions, corrections and purchases get no fairness and are off in that run: with a
revision in execution an OS really can be stuck (`keep_parts`).  There is one
withdrawal at a time (`RowIds = {w1}`): with two, the race of `two_requests` can split
a scope of two units so that the OS is stuck for the same reason.

`WaitingOrdersSettled` holds only without revisions and overrides (`WaitingAreSettled`
proves it for every other intervention): sending a revision drops reservations and
purchase requests of an order that keeps its waiting status, an override changes the
status alone.

`Lifecycle`: time passes, GitHub continues runs it started, the hourly cleanup and the
scheduled emergency stop are started (weak fairness each); people are not assumed to do
anything.  The violation depends on no missing step: at its end runs have ended, and
only the hourly cleanup goes on dispatching stops that are refused.  The other properties
of the module are about safety and need no fairness.

`CrossRepoDispatch`: the coordinator goes on and its deadline comes (weak fairness).
Nothing is assumed of children, applies or reruns: `EveryAttemptEnds` is about waiting
for them.

`Provisioning`: a started run goes on (weak fairness); operators repeat `apply` (strong
fairness, since the workflow is dispatched by hand and runs and people make the start
come and go).  Failures and changes by hand are bounded, as they must be for anything
to settle.

`BudgetRevisions`, `Billing`, `StatusHistory` and `StaffSessions` have no liveness
property: whatever they promise to do happens in the request that asks for it.

## 4. What is proved

All for arbitrary values of the constants within the `ASSUME`s of the modules: any
finite sets of orders, requests, runs and attempts, any scopes, prices and bounds.

| Theorem | Says |
|---|---|
| `InventoryProofs!ServedInOrder` | whoever is granted anything has everyone ahead fully served |
| `InventoryProofs!GrantedWithinAvailable` | the grants sum to at most what is available |
| `InventoryProofs!LoopGrants` | the loop over the queue reserves what `Granted` says |
| `InventoryProofs!TypeCorrect` | `Spec => []TypeOK` of `Inventory` |
| `InventoryProofs!ScopeAlwaysRespected` | `Spec => []ScopeRespected` |
| `InventoryProofs!ServesFirstComeFirst` | `Spec => FirstComeFirstServed` |
| `InventoryProofs!LosersAreBackordered` | `Spec => PreemptionLeavesBackorder` |
| `InventoryProofs!WaitingAreSettled` | `Spec => []WaitingOrdersSettled`, without revisions and overrides |
| `InventoryProofs!ImplementsWorkshopJob` | `Spec => KeepsTheJob`, the refinement |
| `InventoryProofs!OnlyCorrectionsOverReserve` | `Spec => OnlyCorrectionOverReserves` |
| `InventoryProofs!KeepsItsParts` | `Spec => []ExecutionKeepsItsParts`, without revisions, orders by hand and requested reconciliations |
| `InventoryProofs!RequestsStayWithinScope` | `Spec /\ []OneRequestAtATime => []RequestsWithinScope` |
| `InventoryProofs!WithdrawalsAreCovered` | where both hold, open withdrawals are within the reservations |
| `BudgetProofs!TypeCorrect` | `Spec => []TypeOK` of `BudgetRevisions` |
| `BudgetProofs!AgreementUnlessStale` | `Spec => []AgreeUnlessStale` |
| `BudgetProofs!SentStaysFrozen` | `Spec => SentIsFrozen` |
| `BudgetProofs!LinksDecideOnce` | `Spec => [](~stale => HonouredLinkIsSpent)` |
| `BudgetProofs!HonouredLinksStaySpent` | `Spec /\ [][SavesWhatItLoaded]_vars => []HonouredLinkIsSpent` |
| `BillingProofs!TypeCorrect` | `Spec => []TypeOK` of `Billing` |
| `BillingProofs!LedgerAlwaysAgrees` | `Spec => []LedgerAgrees` |
| `BillingProofs!NoCarLeavesUnpaid` | `Spec => []DeliveredMeansPaid` |
| `BillingProofs!PaidIsDeliveredUnlessStale` | `Spec /\ [][NoStaleChange]_vars => []PaidMeansDelivered` |
| `BillingProofs!DeliveryIsFinalButForStaleWrites` | `Spec => OnlyStaleWritesReopen` |
| `BillingProofs!HistoryIsBilling` | `HistorySpec => Spec`: the theorems about `Billing` hold with its audit trail |
| `BillingProofs!OnlyRecordsAreEmitted` | `HistorySpec => []EventsOnRecord` |
| `BillingProofs!TrailCanBeReliedOn` | `HistorySpec => AuditTrail` |
| `StaffSessionsProofs!TypeCorrect` | `Spec => []TypeOK` of `StaffSessions` and `LoginLimiter` |
| `StaffSessionsProofs!OneIsLive` | `Spec => []OneLiveSession` |
| `StaffSessionsProofs!RevocationIsFinal` | `Spec => RevocationHolds` |
| `StaffSessionsProofs!TriesAreBounded` | `Spec => []TriesBounded` |
| `StaffSessionsProofs!LocksHold` | `Spec => LockoutHolds` |
| `LifecycleProofs!TypeCorrect` | `Spec => []TypeOK` of `Lifecycle` |
| `LifecycleProofs!NoReopening` | a claimed teardown is never taken back by an opening |
| `LifecycleProofs!LedgerIsALease` | `Spec => ImplementsLease`, the refinement |
| `TeardownProofs!OneTeardownAtATime` | two stops never destroy at a time |
| `TeardownProofs!TheDestroyerHoldsTheLease` | `Spec => []DestroyerHoldsLease` |
| `TeardownProofs!EvidenceIsComplete` | `Spec => []EvidenceComplete`, for every set of gaps |
| `TeardownProofs!TeardownIsSeenThrough` | `Spec => TeardownSeenThrough`, where the lease is long enough (below) |
| `TeardownProofs!DestroyedByOne` | `Spec => []DestroyedByOneRun`, where the lease is long enough |
| `DispatchProofs!TypeCorrect` | `Spec => []TypeOK` of `CrossRepoDispatch` |
| `DispatchProofs!ReportedInTime` | `Spec => []DoneInTime` |
| `DispatchProofs!AppliesFirst` | `Spec => []NeverWithAnApply` |
| `DispatchProofs!KeepsItsPromise` | `Spec => ImplementsOperation`, the refinement |
| `ProvisioningProofs!TypeCorrect` | `Spec => []TypeOK` of `Provisioning` |
| `ProvisioningProofs!RunsDoAsAsked` | `Spec => []DoneAsAsked`: of the names that the run was given, not of earlier ones |
| `ProvisioningProofs!RunsStayWithinTheirTask` | `Spec => StaysWithinItsTask` |

The constants are assumed to be what their names say: sets of identifiers that are
disjoint where one is told from the other (the ids of runs of two workflows), bounds that
are natural numbers, positive where zero would mean that nothing exists (`MaxBudgets`,
`MaxAttempts`).  The limits of the login are settings: only the number of buckets is checked
to be positive, the others are taken to be, as their defaults are; the times of a session are ordered as the scripts compute them.  What a theorem
assumes beyond that is in its statement: `WaitingAreSettled` that no revision is sent and
no status overridden, the two theorems named above that the lease is long enough.

`KeepsItsParts`, `RequestsStayWithinScope`, `PaidIsDeliveredUnlessStale` and
`HonouredLinksStaySpent` prove properties that the code breaks, in a run or in a larger
instance, from the absence of one thing each: certain requests of the office, two requests
for the same parts at a time, a change of a status nobody read, a row that changes under a
waiting `UPDATE`.  They say that a change to the code that rules this one thing out is
enough.  Behaviours with every other race remain: under `SavesWhatItLoaded` copies may still
be as stale as they like.

The arguments:

* **Queue.**  Sums over a queue are cardinalities of sets of units (`Units`), which the
  provers can reason about where a recursive sum is out of their reach.
  `GrantedWithinAvailable` numbers the granted units: unit k of order q gets the number
  (demand ahead of q) + k, an injection into `1 .. available`.  `LoopGrants` is an
  induction over the turns of the loop, done without the induction theorems, which take an
  operator as parameter: if loop and closed form differ at some turn, they do at a least
  one (`LeastNumber`), and the turn before it settles that one too (`LoopInvariant`).
* **Inventory.**  The inductive invariant is `Inv == TypeOK /\ ScopeRespected /\
  RowsOfStartedOrders`.  `ScopeRespected` alone is not inductive: that a fulfilment
  finds its OS started must be known of the open withdrawals.  Each action has its
  lemma; those that reconcile share `ReconcileStep` and `ReconcileKeepsScope`.  The
  action properties and the refinement follow from `Inv` step by step.  That losers are
  backordered rests on a lemma about each operation: only a reconciliation gives units,
  and it writes the backorder of the whole queue with the same allocation it grants from.
  `WaitingOrdersSettled` is inductive with `Inv`: an order is competing for a product
  whose queue is allocated again, or nothing of it changed.  `PartsHeld`, for
  `KeepsItsParts`, says of a started OS that what it holds and was handed over is what it
  requires and nothing is on order for it; of one not started, that no more than it lacks is.
  `AllAskedWithinScope`, for `RequestsStayWithinScope`, also counts the rows other
  transactions cannot see yet: `RequestsWithinScope` itself is not inductive, as a row
  becomes visible without a check.
* **Budgets.**  Nothing about the rows is inductive alone, because a commit writes what was
  derived from rows read earlier.  `Inv` therefore says for each kind of request how its
  copy follows from what it read (`RequestsDerived`); if the write is not stale, what it
  read is still there, and the rows agree after it.  `LinkInv` adds, while
  nothing is stale, that each link is in one place: with the request that has yet to store
  it or with one budget.  `SpentInv` keeps the same without that condition, and adds that a
  draft, and whoever edits one, has no link to bring back (`DraftsHaveNoLink`).
* **Billing.**  The ledger is inductive together with `OnePayment` (the row lock is held
  once) and `PaymentsFit` (a payment in progress fits the balance, which cannot have
  moved); the delivery together with `SeenDelivered` (who read an OS as delivered did so
  after its invoice was paid, and paid is for ever).  `PaidInv` adds, where no
  status is changed unread, that an OS stays finished from its invoice on, and that every
  payment in progress read it so: then the one that settles the invoice delivers.
* **Audit trail.**  `EventsOnRecord` is inductive together with `AskedWithId` (a worker
  with a request has an id).  The step properties go through `SaveIsOnRecord`: a request
  that writes another status records the transition unless its copy was stale or its id
  was there.
* **Staff sessions.**  At most one session of a login is good because a refresh holds the
  lock of the row it replaces and nobody else inserts into the family; a revoked family
  stays so because only such a refresh could add to it.
* **Login limiter.**  `LimiterInv` keeps the ages of failures in order and relates each
  limiter to them: a bucket in the process holds exactly the failures counted, and a
  counter in Redis counts the last of them, the first of which is as old as the counter
  (`Tracks`); those before them belong to one counter that did not lock, since the age of
  the first failure of that one is at least `Window` once it is over.  A lock needs an entry
  for its name, and what cleaning and evicting take away is not locked.
* **Lifecycle.**  The refinement and `NoReopening` need only the type invariant and that
  a closing record names its closer.
* **Teardown.**  Each of the proofs goes through `Moves`, what a step may do to a run.
  `TeardownInv` says that a stop past its first job is one after the end of the session,
  that a stop past its decision is the only one, that an opening which began to change the
  environment is marked, and that a stop which dispatched a teardown still goes on or left
  its mark (`LeavesMark`).  With it no two destroy at a time, the one that does holds the
  lease, and the evidence is complete.  That no normal stop takes
  a teardown over (`OnlyEmergencyTakesOver`) compares what is left of the lease with the clock: it
  assumes `CloseLease >= CleanupDeadline - ExpiresAt`, which the six-hour lease satisfies
  for sessions that end at 17:00 or later.  `RescueInv` adds, under the same assumption,
  that who destroyed left a mark and is the closer on record unless an emergency stop is,
  and that the first attempt of an emergency stop begins only where no stop left one.
* **Dispatch.**  The work is done by one child at a time because an attempt dispatches only
  after it saw that no earlier child is active or successful, and all of them are listed
  by then.
* **Provisioning.**  What a run has established when it ends is only known step by step:
  `Inv` says at each step of a run what it may rely on (`RunFacts`) and how far the
  dashboard and the conditions are (`DashboardProgress`, `ConditionsProgress`), whatever
  calls failed in earlier runs.  All of it is said of the names of the run's version.

Every invariant and action property of the passing runs is proved, `HonouredLinkIsSpent`
from a hypothesis its instance does not need (see Findings), and so are, with the
hypotheses above, the three invariants that runs refute.  Only model-checked are the
liveness properties `EveryOrderFinishes`, `RecoversOrAsks` and `EveryAttemptEnds`:
liveness under fairness is out of the prover's reach.

## 5. Plan

Done: the core (`Inventory` and its queue), budgets and links, billing with its audit
trail, staff sessions and their limiter, the lifecycle of the environment with its
ledger, the dispatch and the provisioning, each with its run and its proofs.

Left: models of their own for the hazards without a property, first the locks a
reconciliation takes one by one and the unlocked reads of a start and of a receipt (next
paragraph), small enough to leave the rest of `Inventory` out.

Not modelled, and why:

* the unlocked read of a start against a committed revision, two receipts of one
  purchase request, and the lock order of two reconciliations: `Inventory` takes each
  operation as one step, and splitting them multiplies its states beyond what TLC can
  search; they are hazards without a property;
* two approvals for one vehicle: a lock on the vehicle makes them follow each other;
* the public limiter, creation events and durations, the audit entry of `enqueue`;
* production sessions, cost capture, the alerts and signatures of the lifecycle scripts;
  preflights and spend caps, which read and refuse;
* CRUD of the catalogue and customers, PDF and e-mail rendering, HTTP schemas,
  configuration, seeding, migrations, the front end.  They keep no state that a protocol
  depends on.

## 6. Running

    tlc -workers 2 -config Parts.cfg MCInventory
    tlapm InventoryProofs.tla
