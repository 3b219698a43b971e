------------------------- MODULE ServiceOrderStatus -------------------------
(***************************************************************************)
(* The life cycle of a service order (OS): its statuses, and the sets of   *)
(* them that the guards of the ServiceOrder aggregate and of the inventory *)
(* service name.                                                           *)
(***************************************************************************)

\* An OS row that has not been inserted yet.
NotCreated == "NOT_CREATED"

Statuses == {"RECEBIDA", "EM_DIAGNOSTICO", "AGUARDANDO_APROVACAO",
             "AGUARDANDO_INICIO", "AGUARDANDO_COMPRA", "EM_EXECUCAO",
             "FINALIZADA", "ENTREGUE"}

\* Statuses an administrator's override may leave and enter.
BreakGlass == {"RECEBIDA", "EM_DIAGNOSTICO", "AGUARDANDO_APROVACAO",
               "AGUARDANDO_INICIO", "AGUARDANDO_COMPRA"}

\* Mutant: work in progress can be rewritten too.
RevisableMidWork == {"AGUARDANDO_APROVACAO", "AGUARDANDO_INICIO",
                     "AGUARDANDO_COMPRA", "EM_EXECUCAO"}

\* Statuses in which an approved budget revision may rewrite the scope.
Revisable == {"AGUARDANDO_APROVACAO", "AGUARDANDO_INICIO",
              "AGUARDANDO_COMPRA"}

\* Statuses in which an OS competes for stock.
Reservable == {"AGUARDANDO_INICIO", "AGUARDANDO_COMPRA"}

\* Work on the car has begun: the break-glass override no longer applies.
Started == {"EM_EXECUCAO", "FINALIZADA", "ENTREGUE"}

\* Statuses whose only further change is the delivery.
Closed == {"FINALIZADA", "ENTREGUE"}

-----------------------------------------------------------------------------
(***************************************************************************)
(* What the aggregate's methods make of a status, and what they refuse.    *)
(***************************************************************************)

\* submit_for_approval, which is called of an OS in diagnosis only
Submitted(s) == IF s = "EM_DIAGNOSTICO" THEN "AGUARDANDO_APROVACAO" ELSE s

\* apply_budget_revision: an approval also ends the wait for it
Approved(s) == IF s = "AGUARDANDO_APROVACAO" THEN "AGUARDANDO_INICIO" ELSE s

\* return_to_diagnosis_after_rejection
Rejectable(s) == s = "AGUARDANDO_APROVACAO"

\* mark_waiting_for_purchase, mark_ready_to_start
WaitingFor(lacking) ==
  IF lacking THEN "AGUARDANDO_COMPRA" ELSE "AGUARDANDO_INICIO"

\* start_execution
MayStart(s, assigned) == s = "AGUARDANDO_INICIO" /\ assigned

\* override_status
MayOverride(s, to) == {s, to} \subseteq BreakGlass /\ s # to

=============================================================================
