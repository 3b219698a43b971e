--------------------------- MODULE StatusHistory ---------------------------
(***************************************************************************)
(* What a closing order leaves behind: the audit row of every transition,  *)
(* in the transaction that makes it, and the telemetry of the business,    *)
(* outside it.  An event is queued in the session by save, exported by the *)
(* listener of the commit and discarded by the listener of the rollback; a *)
(* finish that fails unexpectedly is reported after its rollback.          *)
(*                                                                         *)
(* Laid over Billing: a step of this specification is a step of Billing    *)
(* together with what it records.                                          *)
(***************************************************************************)
EXTENDS Billing

VARIABLES
  asked,     \* the request id each worker serves, or Idle
  history,   \* service_order_status_history of each OS
  emitted,   \* ServiceOrderStatusDuration events exported
  failures   \* ServiceOrderProcessingFailure events exported

records == <<asked, history, emitted, failures>>
historyVars == <<vars, records>>

\* A client chooses the id of its request; that of a payment is its
\* idempotency key.
Rows == [id : Keys, from : Closing, to : Closing]
Failures == [id : Keys, subsystem : {"service_order", "event_bus"}]

HistoryInit ==
  /\ Init
  /\ asked = [w \in Workers |-> Idle]
  /\ history = [o \in Orders |-> {}]
  /\ emitted = [o \in Orders |-> {}]
  /\ failures = [o \in Orders |-> {}]

IsChange(row) == row.from # row.to

\* What the aggregate appends for the request of w (transition_to).
Transition(w, to) == [id |-> asked[w], from |-> jobs[w].seen, to |-> to]

RecordedIds(o) == {row.id : row \in history[o]}

Done(w) == asked' = [asked EXCEPT ![w] = Idle]

-----------------------------------------------------------------------------
\* Mutant: the insertion does not ask whether the id is there already.
RecordAgain(w, to) ==
  history' = [history EXCEPT ![jobs[w].os] = @ \cup {Transition(w, to)}]

\* The row is inserted unless the OS has one of the same request.
Record(w, to) ==
  LET o == jobs[w].os
  IN \/ asked[w] \in RecordedIds(o) /\ UNCHANGED history
     \/ /\ asked[w] \notin RecordedIds(o)
        /\ history' = [history EXCEPT ![o] = @ \cup {Transition(w, to)}]

Emit(o, row) == emitted' = [emitted EXCEPT ![o] = @ \cup {row}]

\* The telemetry of the committed row, if it is a new one: exported, or lost
\* with the process or the logger between the commit and the export.
Flush(w) ==
  LET o == jobs[w].os
  IN \/ UNCHANGED emitted
     \/ \E row \in history'[o] \ history[o] : IsChange(row) /\ Emit(o, row)

Failure(w, subsystem) == [id |-> asked[w], subsystem |-> subsystem]

\* An unexpected failure is exported, and once more if the event bus could
\* not be told of it.
Report(w) ==
  \E subsystems \in {{"service_order"}, {"service_order", "event_bus"}} :
    failures' = [failures EXCEPT ![jobs[w].os] = @ \cup
                  {Failure(w, subsystem) : subsystem \in subsystems}]

Quiet == UNCHANGED <<history, emitted, failures>>

-----------------------------------------------------------------------------
Asks(w, id) == asked' = [asked EXCEPT ![w] = id]

\* The id is that of a header of the client, or a new one.
Receive(w, o, id) ==
  /\ \/ BeginEdit(w, o)
     \/ BeginFinish(w, o)
     \/ BeginDeliver(w, o)
     \/ PayInvoice(w, o, id)
  /\ Asks(w, id)
  /\ Quiet

\* The id is the idempotency key.
ReceivePayment(w, o, key) ==
  /\ \E amount \in 1 .. total[o] : RecordPayment(w, o, key, amount)
  /\ Asks(w, key)
  /\ Quiet

\* Replacing the mechanic leaves a row that changes nothing; it is refused
\* once the work is finished.
CommitEdit(w) ==
  /\ SaveEdit(w)
  /\ \/ UNCHANGED history
     \/ jobs[w].seen = "EM_EXECUCAO" /\ Record(w, jobs[w].seen)
  /\ Flush(w)
  /\ UNCHANGED failures
  /\ Done(w)

\* The answer to the commit may be lost: the OS is finished, its event
\* discarded and a failure reported.
CommitFinish(w) ==
  /\ SaveFinish(w)
  /\ Record(w, "FINALIZADA")
  /\ \/ Flush(w) /\ UNCHANGED failures
     \/ UNCHANGED emitted /\ Report(w)
  /\ Done(w)

CommitDeliver(w) ==
  /\ SaveDeliver(w)
  /\ Record(w, "ENTREGUE")
  /\ Flush(w)
  /\ UNCHANGED failures
  /\ Done(w)

\* Mutant: the automatic delivery assigns the status without a transition.
PaidUnrecorded(w) == CommitPayment(w) /\ Quiet /\ Done(w)

Pay(w) ==
  /\ CommitPayment(w)
  /\ \/ ~HandsOver(jobs[w].os, jobs[w]) /\ UNCHANGED history
     \/ HandsOver(jobs[w].os, jobs[w]) /\ Record(w, "ENTREGUE")
  /\ Flush(w)
  /\ UNCHANGED failures
  /\ Done(w)

\* Mutant: the queued event is exported before the outcome is known.
AbandonEmitting(w) ==
  /\ Rollback(w)
  /\ Serves(w, "finish")
  /\ Emit(jobs[w].os, Transition(w, "FINALIZADA"))
  /\ UNCHANGED <<history, failures>>
  /\ Done(w)

\* A refusal is not reported, an unexpected failure of a finish is.
Abandon(w) ==
  /\ Rollback(w)
  /\ UNCHANGED <<history, emitted>>
  /\ \/ UNCHANGED failures
     \/ Serves(w, "finish") /\ Report(w)
  /\ Done(w)

HistoryNext ==
  \/ \E w \in Workers, o \in Orders, id \in Keys :
       Receive(w, o, id) \/ ReceivePayment(w, o, id)
  \/ \E w \in Workers : \/ CommitEdit(w)
                        \/ CommitFinish(w)
                        \/ CommitDeliver(w)
                        \/ Pay(w)
                        \/ Abandon(w)
  \/ \E o \in Orders : CreateInvoice(o) /\ UNCHANGED records

HistorySpec == HistoryInit /\ [][HistoryNext]_historyVars

-----------------------------------------------------------------------------
\* No event tells of a change the database does not have, though requests
\* are rolled back, repeated and reuse each other's ids; a request leaves at
\* most one row per OS (queue_business_event and its listeners,
\* uq_service_order_status_history_request).
EventsOnRecord ==
  \A o \in Orders :
    /\ history[o] \subseteq Rows
    /\ failures[o] \subseteq Failures
    /\ emitted[o] \subseteq {row \in history[o] : IsChange(row)}
    /\ \A r, s \in history[o] : r.id = s.id => r = s

\* What may change the status of o without a row from the old one to the
\* new one: a stale write, and a request whose id the OS already has.
Unrecorded(o) ==
  \E w \in Workers :
    /\ jobs[w] # Idle
    /\ jobs'[w] = Idle
    /\ jobs[w].os = o
    /\ jobs[w].seen # status[o] \/ asked[w] \in RecordedIds(o)

\* Every other change of status, by a person or by a payment, is on record
\* as what it was; rows are never removed, and a row that tells of a change
\* is written with the status it tells (ServiceOrderStatusHistoryModel,
\* "Append-only audit trail for every OS status transition").
ChangeOnRecord ==
  \A o \in Orders :
    /\ history[o] \subseteq history'[o]
    /\ status'[o] # status[o] =>
         \/ Unrecorded(o)
         \/ \E row \in history'[o] \ history[o] :
              row.from = status[o] /\ row.to = status'[o]
    /\ \A row \in history'[o] \ history[o] :
         IsChange(row) => status'[o] = row.to

\* A request is told to the business as a change or as a failure, not both.
OneOutcome ==
  \A o \in Orders : emitted'[o] = emitted[o] \/ failures'[o] = failures[o]

\* The audit trail of a closing order and its telemetry can be relied on, up
\* to the stale writes and reused ids that Unrecorded names.
AuditTrail == [][ChangeOnRecord /\ OneOutcome]_historyVars
=============================================================================
