-------------------------- MODULE CrossRepoDispatch --------------------------
(***************************************************************************)
(* How a run of one workflow has a run of another repository's workflow do *)
(* a piece of work, such as destroying the database, and waits for it.     *)
(*                                                                         *)
(* The one (the coordinator) can be attempted again.  Each attempt has an  *)
(* identifier for the run it dispatches (its child), a hash that any later *)
(* attempt can compute, in the title of the child.  Everything the         *)
(* coordinator knows it reads from the list of runs; every call it makes   *)
(* can fail, before or after it took effect; and it has a deadline.        *)
(***************************************************************************)
EXTENDS Naturals

CONSTANTS
  Applies,     \* runs that create what the child is to destroy
  MaxAttempt,  \* bound on the attempts of the coordinator
  MaxFaults    \* bound on failing calls, and on attempts that are lost

ASSUME BoundsAssumption == MaxAttempt \in Nat \ {0} /\ MaxFaults \in Nat

VARIABLES
  attempt,   \* the attempt of the coordinator that runs, or ran last
  step,      \* what it does next
  late,      \* its deadline has passed
  followed,  \* the attempt whose child it waits for
  auths,     \* authorizations in the ledger, by attempt
  children,  \* the run each attempt dispatched
  applies,   \* state of each of the runs in Applies
  faults     \* faults so far

vars == <<attempt, step, late, followed, auths, children, applies, faults>>

Attempts == 1 .. MaxAttempt

Steps == {"list", "stopApplies", "stopping", "issue", "post", "poll", "final",
          "cancelling", "done", "failed"}
Ended == {"done", "failed"}

\* missedBy is the attempt whose deadline had passed when the run completed.
ChildRecord ==
  [status : {"none", "queued", "running", "success", "failure"},
   listed : BOOLEAN, missedBy : Attempts \cup {0}]
NoChild == [status |-> "none", listed |-> FALSE, missedBy |-> 0]

Init ==
  /\ attempt = 1
  /\ step = "list"
  /\ late = FALSE
  /\ followed = 1
  /\ auths = [a \in Attempts |-> "none"]
  /\ children = [a \in Attempts |-> NoChild]
  /\ applies \in [Applies -> {"active", "completed"}]
  /\ faults = 0

\* ACTIVE_RUN_STATUSES.
Active(child) == child.status \in {"queued", "running"}
Successful(child) == child.status = "success"
Listed(a) == children[a].listed
ActiveApplies == {r \in Applies : applies[r] = "active"}

-----------------------------------------------------------------------------
(***************************************************************************)
(* The coordinator.                                                        *)
(***************************************************************************)

Goto(next) == step' = next /\ UNCHANGED <<attempt, late>>
Elsewhere == UNCHANGED <<auths, children, applies, faults>>

\* LifecycleDispatchError: the attempt fails.
Raise == Goto("failed") /\ UNCHANGED followed /\ Elsewhere

\* _deadline_request_timeout, and the checks of the deadline before each step.
TooLate ==
  /\ step \in {"list", "stopApplies", "stopping", "issue", "post"}
  /\ late
  /\ Raise

\* A call fails without effect, or the attempt is lost.
Fault ==
  /\ step \notin Ended
  /\ faults < MaxFaults
  /\ faults' = faults + 1
  /\ Goto("failed")
  /\ UNCHANGED <<followed, auths, children, applies>>

\* The call took effect and is answered, or its answer is lost.
Answered(next) ==
  /\ \/ step' = next /\ UNCHANGED faults
     \/ step' = "failed" /\ faults < MaxFaults /\ faults' = faults + 1
  /\ UNCHANGED <<attempt, late>>

\* Mutant: only a child of this attempt counts.
PriorOwn == {a \in {attempt} : Listed(a) /\ (Active(children[a]) \/ Successful(children[a]))}

\* Mutant: a child that is done does not count.
PriorActive == {a \in 1 .. attempt : Listed(a) /\ Active(children[a])}

\* The listed children of this and earlier attempts that are at work or done.
Prior == {a \in 1 .. attempt : Listed(a) /\ (Active(children[a]) \/ Successful(children[a]))}

\* _prior_operation_runs: it is resumed; several would be refused, which
\* ImplementsOperation says there never are.
Resume ==
  /\ step = "list" /\ ~late
  /\ Prior # {}
  /\ followed' \in Prior
  /\ Goto(IF Prior = {followed'} THEN "poll" ELSE "failed")
  /\ Elsewhere

\* Mutant: the identifier is that of the next attempt.
BeginDispatchNext ==
  /\ step = "list" /\ ~late
  /\ Prior = {}
  /\ followed' = attempt + 1
  /\ Goto("stopApplies")
  /\ Elsewhere

BeginDispatch ==
  /\ step = "list" /\ ~late
  /\ Prior = {}
  /\ followed' = attempt
  /\ Goto("stopApplies")
  /\ Elsewhere

\* Mutant: the dispatch goes on once the cancellation is asked for.
StopAppliesAsked ==
  /\ step = "stopApplies" /\ ~late
  /\ Goto("issue")
  /\ UNCHANGED followed
  /\ Elsewhere

\* _cancel_session_apply_runs: the one that is active is asked to cancel,
\* whether or not that call succeeds, and waited for.
StopApplies ==
  /\ step = "stopApplies" /\ ~late
  /\ \/ ActiveApplies = {} /\ Goto("issue")
     \/ (\E r \in Applies : ActiveApplies = {r}) /\ Goto("stopping")
     \/ ActiveApplies # {} /\ (\A r \in Applies : ActiveApplies # {r}) /\ Goto("failed")
  /\ UNCHANGED followed
  /\ Elsewhere

\* The run that was waited for has completed; the list is read again.
ApplyStopped ==
  /\ step = "stopping" /\ ~late
  /\ ActiveApplies = {}
  /\ Goto("stopApplies")
  /\ UNCHANGED followed
  /\ Elsewhere

\* _issue_dispatch_authorization; the ledger may refuse.
Issue ==
  /\ step = "issue" /\ ~late
  /\ \/ auths' = [auths EXCEPT ![attempt] = "issued"] /\ Answered("post")
     \/ Goto("failed") /\ UNCHANGED <<auths, faults>>
  /\ UNCHANGED <<followed, children, applies>>

Post ==
  /\ step = "post" /\ ~late
  /\ children' = [children EXCEPT ![attempt].status = "queued"]
  /\ Answered("poll")
  /\ UNCHANGED <<followed, auths, applies>>

\* Completed by the deadline of the attempt that waits.
InTime(child) == child.missedBy # attempt

\* What the list says of the child, before the deadline.
Poll ==
  /\ step = "poll" /\ ~late
  /\ Listed(followed)
  /\ \/ Successful(children[followed]) /\ InTime(children[followed]) /\ Goto("done")
     \/ children[followed].status = "failure" /\ Goto("failed")
  /\ UNCHANGED followed
  /\ Elsewhere

\* Mutant: the wait ends only once the child is listed.
PollOverListed ==
  /\ step = "poll" /\ late
  /\ Listed(followed)
  /\ Goto("final")
  /\ UNCHANGED followed
  /\ Elsewhere

PollOver ==
  /\ step = "poll" /\ late
  /\ Goto("final")
  /\ UNCHANGED followed
  /\ Elsewhere

\* Mutant: a success counts whenever it came.
FinalAnyTime ==
  /\ step = "final"
  /\ \/ ~Listed(followed) /\ Goto("failed")
     \/ /\ Listed(followed)
        /\ \/ Successful(children[followed]) /\ Goto("done")
           \/ children[followed].status = "failure" /\ Goto("failed")
           \/ Active(children[followed]) /\ Goto("cancelling")
  /\ UNCHANGED followed
  /\ Elsewhere

\* One more look after the deadline: a child that is not listed is left
\* alone, one that is still at work is asked to cancel.
Final ==
  /\ step = "final"
  /\ \/ ~Listed(followed) /\ Goto("failed")
     \/ /\ Listed(followed)
        /\ \/ Successful(children[followed]) /\ InTime(children[followed]) /\ Goto("done")
           \/ Successful(children[followed]) /\ ~InTime(children[followed]) /\ Goto("failed")
           \/ children[followed].status = "failure" /\ Goto("failed")
           \/ Active(children[followed]) /\ Goto("cancelling")
  /\ UNCHANGED followed
  /\ Elsewhere

\* _wait_for_cancelled_run: it completes in time, or it may still be active;
\* the attempt fails either way.
GiveUp == step = "cancelling" /\ Raise

Coordinate ==
  \/ TooLate \/ Resume \/ BeginDispatch \/ StopApplies \/ ApplyStopped
  \/ Issue \/ Post \/ Poll \/ PollOver \/ Final \/ GiveUp

-----------------------------------------------------------------------------
(***************************************************************************)
(* What goes on meanwhile.                                                 *)
(***************************************************************************)

Deadline ==
  /\ step \notin Ended
  /\ ~late
  /\ late' = TRUE
  /\ UNCHANGED <<attempt, step, followed, auths, children, applies, faults>>

\* A run that ended, well or not, is attempted again, after a time in which
\* every run it has created is listed.  The new attempt has a new deadline,
\* unless the phase it belongs to is over.
Rerun ==
  /\ step \in Ended
  /\ attempt < MaxAttempt
  /\ \A a \in Attempts : children[a].status # "none" => Listed(a)
  /\ attempt' = attempt + 1
  /\ step' = "list"
  /\ late' \in {FALSE, late}
  /\ UNCHANGED <<followed, auths, children, applies, faults>>

UpdateChild(a, child) ==
  /\ children' = [children EXCEPT ![a] = child]
  /\ UNCHANGED <<attempt, step, late, followed, applies, faults>>

\* GitHub lists a run some time after it was created.
Appear(a) ==
  /\ children[a].status # "none"
  /\ ~Listed(a)
  /\ UpdateChild(a, [children[a] EXCEPT !.listed = TRUE])
  /\ UNCHANGED auths

\* consume_dispatch_authorization: a child works under its authorization.
StartChild(a) ==
  /\ children[a].status = "queued"
  /\ auths[a] = "issued"
  /\ auths' = [auths EXCEPT ![a] = "consumed"]
  /\ UpdateChild(a, [children[a] EXCEPT !.status = "running"])

\* It succeeds, fails or is cancelled; the ledger refuses one that is queued
\* for too long.
EndChild(a) ==
  /\ Active(children[a])
  /\ \E status \in {"failure"} \cup (IF children[a].status = "running" THEN {"success"} ELSE {}) :
       UpdateChild(a, [children[a] EXCEPT !.status = status,
                                          !.missedBy = IF late THEN attempt ELSE 0])
  /\ UNCHANGED auths

EndApply(r) ==
  /\ applies[r] = "active"
  /\ applies' = [applies EXCEPT ![r] = "completed"]
  /\ UNCHANGED <<attempt, step, late, followed, auths, children, faults>>

Next ==
  \/ Coordinate
  \/ Fault
  \/ Deadline
  \/ Rerun
  \/ \E a \in Attempts : Appear(a) \/ StartChild(a) \/ EndChild(a)
  \/ \E r \in Applies : EndApply(r)

Spec == Init /\ [][Next]_vars

\* Time passes, and an attempt that can go on does.  Nothing is assumed of
\* the runs it waits for.
Fairness == WF_vars(Deadline) /\ WF_vars(Coordinate)

FairSpec == Spec /\ Fairness

-----------------------------------------------------------------------------
(***************************************************************************)
(* Properties.                                                             *)
(***************************************************************************)

\* Every variable has its type.
TypeOK ==
  /\ attempt \in Attempts
  /\ step \in Steps
  /\ late \in BOOLEAN
  /\ followed \in Attempts
  /\ auths \in [Attempts -> {"none", "issued", "consumed"}]
  /\ children \in [Attempts -> ChildRecord]
  /\ applies \in [Applies -> {"active", "completed"}]
  /\ faults \in 0 .. MaxFaults

\* dispatch_and_wait returns only for a child of this or an earlier attempt
\* that succeeded, by the deadline of the attempt that reports it.
DoneInTime ==
  step = "done" => Successful(children[followed]) /\ InTime(children[followed])

\* A child does not destroy what an apply of the session is still creating:
\* the wait for the applies, the deadline and the reruns leave no gap.
NeverWithAnApply ==
  \A a \in Attempts : Active(children[a]) => ActiveApplies = {}

\* The attempts whose child is at work, and whether one was successful.
AtWork == {a \in Attempts : Active(children[a])}
WorkDone == \E a \in Attempts : Successful(children[a])

Promise == INSTANCE Operation WITH Workers <- Attempts, working <- AtWork, done <- WorkDone

\* However often answers are lost, deadlines pass and attempts are repeated,
\* the work is done by one child at a time, begun anew only after the child
\* before failed, and not again after it was done.
ImplementsOperation == Promise!Spec

\* An attempt always comes to an end, even if the child never does.
EveryAttemptEnds ==
  \A a \in Attempts : attempt = a ~> (attempt > a \/ step \in Ended)
=============================================================================
