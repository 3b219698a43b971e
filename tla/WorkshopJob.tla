---------------------------- MODULE WorkshopJob ----------------------------
(***************************************************************************)
(* What the workshop promises about the parts of a service order (OS),     *)
(* with no stock, reservation, purchase or withdrawal request in sight:    *)
(* the scope is agreed before the work starts and never afterwards, parts  *)
(* are handed over only while the car is being worked on and never beyond  *)
(* the scope, and the job is finished when all of them were handed over.   *)
(***************************************************************************)
EXTENDS ServiceOrderStatus, Naturals

CONSTANTS Orders, Products, Scopes

VARIABLES status, required, fulfilled

jobVars == <<status, required, fulfilled>>

JobInit ==
  /\ status = [o \in Orders |-> NotCreated]
  /\ required = [o \in Orders |-> [p \in Products |-> 0]]
  /\ fulfilled = [o \in Orders |-> [p \in Products |-> 0]]

NotStarted == BreakGlass

\* Before the work starts, statuses move as sales and purchasing need (the
\* reconciliation of one OS can move several), and one OS is given a scope.
Prepare ==
  /\ status' \in [Orders -> NotStarted \cup Started \cup {NotCreated}]
  /\ \A o \in Orders :
       status'[o] # status[o] =>
         status'[o] \in NotStarted /\ status[o] \in NotStarted \cup {NotCreated}
  /\ \/ UNCHANGED required
     \/ \E o \in Orders, lines \in Scopes :
          /\ status'[o] \in NotStarted
          /\ required' = [required EXCEPT ![o] = lines]
  /\ UNCHANGED fulfilled

StartJob(o) ==
  /\ status[o] = "AGUARDANDO_INICIO"
  /\ status' = [status EXCEPT ![o] = "EM_EXECUCAO"]
  /\ UNCHANGED <<required, fulfilled>>

HandOver(o, p, quantity) ==
  /\ status[o] = "EM_EXECUCAO"
  /\ fulfilled[o][p] + quantity <= required[o][p]
  /\ fulfilled' = [fulfilled EXCEPT ![o][p] = @ + quantity]
  /\ UNCHANGED <<status, required>>

FinishJob(o) ==
  /\ status[o] = "EM_EXECUCAO"
  /\ fulfilled[o] = required[o]
  /\ status' = [status EXCEPT ![o] = "FINALIZADA"]
  /\ UNCHANGED <<required, fulfilled>>

DeliverJob(o) ==
  /\ status[o] = "FINALIZADA"
  /\ status' = [status EXCEPT ![o] = "ENTREGUE"]
  /\ UNCHANGED <<required, fulfilled>>

JobStep(o) ==
  \/ StartJob(o)
  \/ \E p \in Products : \E n \in 1 .. required[o][p] : HandOver(o, p, n)
  \/ FinishJob(o)
  \/ DeliverJob(o)

JobNext == Prepare \/ \E o \in Orders : JobStep(o)

JobSpec == JobInit /\ [][JobNext]_jobVars
=============================================================================
