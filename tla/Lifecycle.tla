----------------------------- MODULE Lifecycle -----------------------------
(***************************************************************************)
(* One HML session from its opening to its close: the runs of the opening, *)
(* stop and cleanup workflows, and of the workflows they dispatch to       *)
(* change the environment, around the ledger of the session.               *)
(*                                                                         *)
(* A run goes through steps, which call the ledger at once: a call that    *)
(* decides on what it read takes here no time.  How a run waits for the    *)
(* one it dispatched is told in CrossRepoDispatch.                         *)
(* A run may be lost at any step and be attempted again, from its first    *)
(* job or from the job that failed.                                        *)
(***************************************************************************)
EXTENDS SessionLedger, FiniteSets

CONSTANTS
  TeardownEnd, \* forty minutes after the session: no normal teardown starts
  WindowEnd,   \* one hour after the session: the normal close is over
  Manual,      \* an operator starts a run
  Emergency,   \* environment-hml-cleanup.yml starts a stop
  Starters,    \* which of these two start stops
  MaxFaults,   \* runs that are lost, and child workflows that fail
  MaxReruns    \* runs that are attempted again

ASSUME WindowAssumption ==
  /\ TeardownEnd \in Nat /\ ExpiresAt < TeardownEnd
  /\ WindowEnd \in Nat /\ TeardownEnd < WindowEnd /\ WindowEnd <= CleanupDeadline
  /\ {Manual, Emergency} \cap Dispatches = {}
  /\ Manual # Emergency /\ NoRun \notin {Manual, Emergency}
  /\ Starters \subseteq {Manual, Emergency}
  /\ MaxFaults \in Nat /\ MaxReruns \in Nat

VARIABLES
  step,      \* what each run does next, or did last
  outcome,   \* none before it starts, then running, then its conclusion
  attempt,   \* run_attempt
  via,       \* what started a run: a person, a schedule, or a dispatch
  recorded,  \* opening runs of which an attempt recorded the session
  mutated,   \* opening runs that began to change the environment
  stops,     \* what the stop runs that ended left on record
  faults     \* faults so far

ledgerVars == <<now, session, auths>>
evidence == <<recorded, mutated, faults>>
vars == <<now, session, auths, step, outcome, attempt, via,
          recorded, mutated, stops, faults>>

OpenSteps == {"guard", "record", "apply", "applying", "provision", "opening",
              "serve", "auto-stop"}
StopSteps == {"resolve", "decide", "claim", "settle", "destroy",
              "destroying", "wait", "audit"}
CleanupSteps == {"cleaning"}
ChildSteps == {"start", "work"}
Steps == {"none"} \cup OpenSteps \cup StopSteps \cup CleanupSteps \cup ChildSteps

Outcomes == {"none", "running", "success", "failure"}
Starts == Dispatches \cup {Manual, Emergency, NoRun}

Running(r) == outcome[r] = "running"
Fresh(r) == outcome[r] = "none"
\* The runs that GitHub lists, whatever became of them.
Created(runs) == {r \in runs : ~ Fresh(r)}
Ended(r) == outcome[r] \in {"success", "failure"}
At(r, s) == Running(r) /\ step[r] = s
Dispatched(r) == via[r] \in Dispatches
OfCleanup(r) == Dispatched(r) /\ via[r].action = "cleanup-close"
\* The runs that run r dispatched to do action.
DispatchedBy(r, action) ==
  {t \in Runs : Dispatched(t) /\ via[t].run = r /\ via[t].action = action}
\* The run goes on with step s.
Continue(r, s) ==
  /\ step' = [step EXCEPT ![r] = s]
  /\ UNCHANGED <<outcome, attempt, via, stops>>

\* Mutant: the plan of the teardown counts as its first step.
ProvesNoMutationYet(c) ==
  step[c] \in {"decide", "claim", "settle", "destroy", "destroying"}

\* Every marker of a teardown mutation of the stop was skipped.  A stop whose
\* close job did not start has no markers, which proves nothing.
ProvesNoMutation(c) ==
  \/ step[c] \in {"decide", "claim", "settle", "destroy"}
  \/ step[c] \in {"wait", "audit"} /\ DispatchedBy(c, "close") = {}

\* What stop runs leave on record when they end.
Marks(ending, conclusion) ==
  {mark \in {"succeeded", "unproven"} :
     \E c \in ending \cap StopRuns :
       IF conclusion = "success" THEN mark = "succeeded"
                                 ELSE mark = "unproven" /\ ~ ProvesNoMutation(c)}

\* These runs end.
ConcludeAll(ending, conclusion) ==
  /\ outcome' = [r \in Runs |-> IF r \in ending THEN conclusion ELSE outcome[r]]
  /\ stops' = stops \cup Marks(ending, conclusion)
  /\ UNCHANGED <<step, attempt, via>>

Conclude(r, conclusion) == ConcludeAll({r}, conclusion)

\* A call took effect and its answer did not come, or the runner is lost: the
\* run fails there, what was written stays written.
Unanswered(r) ==
  /\ faults < MaxFaults
  /\ Conclude(r, "failure")
  /\ faults' = faults + 1

\* A step refuses to go on: the run fails and nothing else changes.
Refuse(r) == Conclude(r, "failure") /\ UNCHANGED <<ledgerVars, evidence>>

-----------------------------------------------------------------------------
(***************************************************************************)
(* Runs are created by people, by schedules and by runs.                   *)
(***************************************************************************)

\* Run r is created, by how.
Create(r, how) ==
  /\ Fresh(r)
  /\ outcome' = [outcome EXCEPT ![r] = "running"]
  /\ attempt' = [attempt EXCEPT ![r] = 1]
  /\ via' = [via EXCEPT ![r] = how]
  /\ UNCHANGED <<now, session, evidence, stops>>

\* A person or a schedule starts run r with step s.
Launch(r, s, how) ==
  /\ Create(r, how)
  /\ step' = [step EXCEPT ![r] = s]
  /\ UNCHANGED auths

\* The dispatch of this attempt of run r that is to do action.
Dispatch(r, action) == [action |-> action, run |-> r, attempt |-> attempt[r]]

\* The records once d is dispatched.
AfterDispatch(d) == IF d.action = "apply" THEN auths ELSE Issued(auths, d, 0)

\* Before its deadline, run r waits at step s for the last run it dispatched to
\* do action: the one that an earlier attempt left going on or done, or a new
\* run t if the ledger allows it.
DispatchAndWait(r, action, inTime, allowed, t, first, s) ==
  LET d == Dispatch(r, action)
      resumed == \E p \in DispatchedBy(r, action) : outcome[p] # "failure"
  IN \/ /\ inTime /\ resumed
        /\ Continue(r, s)
        /\ UNCHANGED <<ledgerVars, evidence>>
     \/ /\ inTime /\ ~ resumed /\ allowed
        /\ auths[d] = NotIssued
        /\ Create(t, d)
        /\ step' = [step EXCEPT ![r] = s, ![t] = first]
        /\ auths' = AfterDispatch(d)
     \/ ~ (inTime /\ (resumed \/ allowed)) /\ Refuse(r)

Awaited(r, action) ==
  {t \in DispatchedBy(r, action) :
     \A p \in DispatchedBy(r, action) : via[p].attempt <= via[t].attempt}

\* At step s, the awaited run ends, and run r does next if it succeeded.
Await(r, s, action, next) ==
  /\ At(r, s)
  /\ \E t \in Awaited(r, action) :
       \/ outcome[t] = "success" /\ next
       \/ outcome[t] = "failure" /\ Conclude(r, "failure")
  /\ UNCHANGED <<ledgerVars, evidence>>

\* At its deadline run r gives up, and asks GitHub to cancel the run it waits
\* for, which may go on.
GiveUp(r, s, action, deadline) ==
  /\ At(r, s) /\ now >= deadline
  /\ \E t \in Awaited(r, action) :
       Running(t) /\ (Conclude(r, "failure") \/ ConcludeAll({r, t}, "failure"))
  /\ UNCHANGED <<ledgerVars, evidence>>

-----------------------------------------------------------------------------
(***************************************************************************)
(* Opening: environment-start.yml.                                         *)
(***************************************************************************)

CreatedBefore(o, r) ==
  \E i, j \in DOMAIN Openings : i < j /\ Openings[i] = o /\ Openings[j] = r

LaunchOpen(r) ==
  /\ Fresh(r) /\ now < ExpiresAt
  /\ \A o \in OpenRuns : CreatedBefore(o, r) => ~ Fresh(o)
  /\ Launch(r, "guard", Manual)

\* The runs that build the cluster for the openings.
ApplyRuns == Created({k \in Children : k.action = "apply"})

\* assert_daily_lifecycle_unique: an opening may be followed by another while
\* the guard stopped it, while it has changed nothing, or while its only change
\* failed.
FailedAtGuard(o) == o \notin recorded
FailedBeforeApply(o) == o \notin mutated
FailedApply == \E k \in ApplyRuns : ApplyRuns = {k} /\ outcome[k] = "failure"
SafeToRetry(o) == FailedAtGuard(o) \/ FailedBeforeApply(o) \/ FailedApply

\* The openings of the day but this one.
OtherOpenings(r) == Created(OpenRuns) \ {r}

DailyUnique(r) ==
  /\ r \notin recorded \cup mutated
  /\ \A o \in OtherOpenings(r) : outcome[o] = "failure" /\ SafeToRetry(o)

\* The most recent other opening that recorded the session.
IsRecoverySource(r, o) ==
  /\ o \in recorded \ {r}
  /\ \A p \in recorded \ {r} : ~ CreatedBefore(o, p)

\* What an opening that recorded the session left behind may not prove where it
\* failed, and is then refused.
Ambiguous(r) == recorded \ {r} # {}

\* A run takes the session over from another one.
SafeRetryContext(r, o) == o # r

MayOpen(r) ==
  /\ DailyUnique(r)
  /\ \/ recorded \ {r} = {} /\ Openable(r)
     \/ \E o \in recorded : /\ IsRecoverySource(r, o)
                            /\ IF session.startRun = r THEN Openable(r)
                               ELSE SafeRetryContext(r, o) /\ HandoffAllowed(o)

\* The guard of the day and authorize_open.  The answer of the write may be
\* lost: the step fails and the record is there.
AuthorizeOpen(r) ==
  /\ At(r, "guard")
  /\ \/ /\ MayOpen(r)
        /\ Opened(r, attempt[r])
        /\ UNCHANGED <<now, auths, mutated>>
        /\ \/ /\ Continue(r, "record")
              /\ recorded' = recorded \cup {r}
              /\ UNCHANGED faults
           \/ Unanswered(r) /\ UNCHANGED recorded
     \/ (~ MayOpen(r) \/ Ambiguous(r)) /\ Refuse(r)

\* The preflights and the plan are done: the environment is changed next.
BeginApply(r) ==
  /\ At(r, "record")
  /\ Continue(r, "apply")
  /\ mutated' = mutated \cup {r}
  /\ UNCHANGED <<ledgerVars, recorded, faults>>

\* An opening dispatches the workflow that builds the cluster, which asks for no
\* authorization.
DispatchApply(r) ==
  /\ At(r, "apply")
  /\ DispatchAndWait(r, "apply", now < ExpiresAt, TRUE, Dispatch(r, "apply"),
                     "start", "applying")

ClusterBuilt(r) ==
  \/ Await(r, "applying", "apply", Continue(r, "provision"))
  \/ GiveUp(r, "applying", "apply", ExpiresAt)

\* Then the one that provisions the database, which needs one.
DispatchOpen(r) ==
  /\ At(r, "provision")
  /\ LET d == Dispatch(r, "open") IN
       DispatchAndWait(r, "open", now < ExpiresAt, MayIssue(d, session, now),
                       d, "start", "opening")

\* When that succeeded too, the session is served until its end.
EnvironmentOpened(r) ==
  \/ Await(r, "opening", "open", Continue(r, "serve"))
  \/ GiveUp(r, "opening", "open", ExpiresAt)

\* hml-auto-stop-wait gives up after the hour that follows the session.
TooLateToStop(r) ==
  /\ At(r, "serve") /\ now >= WindowEnd
  /\ Refuse(r)

\* hml-auto-stop-close dispatches the stop workflow at the end of the session.
DispatchStop(r) ==
  /\ At(r, "serve") /\ ExpiresAt <= now /\ now < WindowEnd
  /\ \E c \in StopRuns :
       DispatchAndWait(r, "close", TRUE, MayIssue(Dispatch(r, "close"), session, now),
                       c, "resolve", "auto-stop")

AutoStopped(r) ==
  \/ Await(r, "auto-stop", "close", Conclude(r, "success"))
  \/ GiveUp(r, "auto-stop", "close", WindowEnd)

-----------------------------------------------------------------------------
(***************************************************************************)
(* Closing: environment-stop.yml.                                          *)
(***************************************************************************)

LaunchManualStop(c) ==
  /\ Manual \in Starters
  /\ Fresh(c)
  /\ Launch(c, "resolve", Manual)

\* The jobs of a run that is over show that it began to change something.
BeganToApply(k) == Ended(k) /\ step[k] = "work"

\* has_accepted_opening_apply_run: one run was to open the environment.
AppliedByOneRun == \E k \in ApplyRuns : ApplyRuns = {k} /\ BeganToApply(k)

\* _opening_apply_was_accepted: the opening began to, and so did its child.
OpeningAccepted(o) == o \in mutated /\ AppliedByOneRun

\* The openings the emergency workflow finds.
OpeningRuns == Created(OpenRuns)

\* Mutant: a stop that failed does not need a review.
CandidateUnreviewed(o) ==
  /\ now >= WindowEnd
  /\ OpeningRuns = {o} /\ Ended(o)
  /\ \A c \in StopRuns : ~ Running(c)

\* find_cleanup_candidate: one opening in all, and no stop that succeeded or
\* may have destroyed.
Candidate(o) ==
  /\ now >= WindowEnd
  /\ OpeningRuns = {o} /\ Ended(o)
  /\ stops = {}
  /\ \A c \in StopRuns : ~ Running(c)

NeedsRescue == \E o \in OpenRuns : Candidate(o) /\ OpeningAccepted(o)

\* environment-hml-cleanup.yml, every day after the window of the session.
LaunchEmergencyStop(c) ==
  /\ Emergency \in Starters
  /\ NeedsRescue
  /\ Launch(c, "resolve", Emergency)

IsEmergency(c) == via[c] = Emergency

\* resolve_lifecycle_session: when a stop may run.  It knows no flag for the
\* dispatch of a cleanup.
EmergencyWindow == now >= WindowEnd

\* validate_environment_window: the capability that environment-hml-cleanup.yml
\* signed for this stop, and once more the window it is good for.
\* _require_stop_coordinator_branch: the job that resolves says it was verified.
EmergencyCapability(c) ==
  via[c] = Emergency /\ now >= WindowEnd /\ "emergency" \notin Gaps
StopWindow == ExpiresAt <= now /\ now < WindowEnd

MayResolve(c) ==
  /\ session.status # "none"
  /\ \/ IsEmergency(c) /\ EmergencyWindow /\ EmergencyCapability(c)
     \/ ~ IsEmergency(c) /\ ~ OfCleanup(c) /\ StopWindow

\* A run dispatched with authorization d claims it, once.
MayStart(r, d) ==
  /\ MayConsume(d, session, now)
  /\ Consumable(d, r, attempt[r], 0)

\* The first job: too late for a teardown, the next jobs are skipped and the
\* run succeeds.
Resolve(c) ==
  /\ At(c, "resolve")
  /\ LET allowed == MayResolve(c) /\ (Dispatched(c) => MayStart(c, via[c]))
         late == ~ IsEmergency(c) /\ now >= TeardownEnd
     IN \/ /\ allowed
           /\ IF Dispatched(c) THEN Consume(via[c], c, attempt[c]) ELSE UNCHANGED auths
           /\ IF late THEN Conclude(c, "success") ELSE Continue(c, "decide")
           /\ UNCHANGED <<now, session, evidence>>
        \/ ~ allowed /\ Refuse(c)

ClosedBefore == "succeeded" \in stops

\* The openings of the day are over, and one at most changed the environment.
OpeningsAllowClose ==
  /\ \A o \in OpenRuns : ~ Running(o)
  /\ Cardinality(mutated) <= 1

\* Mutant: the other stops of the day are not looked at.
MayDecideAlone(c) ==
  /\ IsEmergency(c) \/ now < TeardownEnd
  /\ OpeningsAllowClose

\* assert_lifecycle_close_needed: another stop that is going on refuses this
\* one, unless one succeeded.  The environment is to be destroyed if an opening
\* changed it.
MayDecide(c) ==
  /\ IsEmergency(c) \/ now < TeardownEnd
  /\ OpeningsAllowClose
  /\ ClosedBefore \/ \A o \in StopRuns \ {c} : ~ Running(o)

Decide(c) ==
  /\ At(c, "decide")
  /\ \/ /\ MayDecide(c)
        /\ IF ClosedBefore THEN Conclude(c, "success")
                           ELSE Continue(c, IF mutated = {} THEN "settle" ELSE "claim")
        /\ UNCHANGED <<ledgerVars, evidence>>
     \/ ~ MayDecide(c) /\ Refuse(c)

\* What started the run allows it to close.
ClaimAllowed(c) ==
  Dispatched(c) =>
    MayClaim(via[c], c, attempt[c], session, now, 0)

\* begin_close; then the environment is destroyed if that was decided.
ClaimTeardown(c) ==
  /\ At(c, "claim") \/ At(c, "settle")
  /\ \/ /\ ClaimAllowed(c)
        /\ \/ Claim(c, attempt[c], now, 0, IsEmergency(c))
           \/ ClaimHeld(c, now, 0, IsEmergency(c))
        /\ Continue(c, IF step[c] = "settle" THEN "wait" ELSE "destroy")
        /\ UNCHANGED <<now, auths, evidence>>
     \/ /\ \/ ~ ClaimAllowed(c)
           \/ ~ Claimable(c, now, 0, IsEmergency(c)) /\ ~ Holds(c)
           \/ ~ IsEmergency(c) /\ now >= CleanupDeadline
        /\ Refuse(c)

\* A stop that was dispatched may dispatch only as the attempt that consumed.
Verified(c, a) == Dispatched(c) => ConsumedBy(via[c], c, a)

DispatchDestroy(c) ==
  /\ At(c, "destroy")
  /\ LET d == Dispatch(c, "close")
         allowed == /\ MayIssue(d, session, now)
                    /\ Verified(c, attempt[c])
         inTime == IsEmergency(c) \/ now < TeardownEnd
     IN DispatchAndWait(c, "close", inTime, allowed, d, "start", "destroying")

EnvironmentDestroyed(c) ==
  \/ Await(c, "destroying", "close", Continue(c, "wait"))
  \/ ~ IsEmergency(c) /\ GiveUp(c, "destroying", "close", TeardownEnd)

\* The runs of the other repositories that belong to the session and are queued
\* or going on.
ActiveChildren == {k \in Children : Running(k)}
Quiet == ActiveChildren = {}

\* assert_no_active_lifecycle_runs, once it knows where to look.  The window of
\* the audit of a normal close ends with that of the session.
MayAudit(c) ==
  /\ "audit" \notin Gaps
  /\ Quiet
  /\ IsEmergency(c) \/ now < WindowEnd

\* The audit of what is left, which may find something, the record of the
\* outcomes, finalize_close.
AuditAndFinalize(c) ==
  /\ At(c, "audit")
  /\ \/ /\ MayAudit(c)
        /\ Finalize(c, attempt[c])
        /\ Conclude(c, "success")
        /\ UNCHANGED <<now, auths, evidence>>
     \/ Refuse(c)

-----------------------------------------------------------------------------
(***************************************************************************)
(* The scheduled cleanup: lifecycle-cleanup.yml, every hour.               *)
(***************************************************************************)

\* It dispatches a stop of the session that find_expired_sessions lists.
LaunchCleanup(q, c) ==
  /\ Listed
  /\ Fresh(q) /\ Fresh(c)
  /\ LET d == [action |-> "cleanup-close", run |-> q, attempt |-> 1] IN
       /\ MayIssue(d, session, now)
       /\ auths' = Issued(auths, d, 0)
       /\ outcome' = [outcome EXCEPT ![q] = "running", ![c] = "running"]
       /\ attempt' = [attempt EXCEPT ![q] = 1, ![c] = 1]
       /\ via' = [via EXCEPT ![c] = d]
       /\ step' = [step EXCEPT ![q] = "cleaning", ![c] = "resolve"]
  /\ UNCHANGED <<now, session, stops, evidence>>

\* The stop ended.  Both runs are over, and their names stand for those of
\* the next hour: the authorization was for this stop only.
CleanedUp(q) ==
  /\ At(q, "cleaning")
  /\ \E c \in Awaited(q, "cleanup-close") :
       /\ outcome[c] = "failure"
       /\ LET forget(f, blank) == [f EXCEPT ![q] = blank, ![c] = blank] IN
            /\ step' = forget(step, "none")
            /\ outcome' = forget(outcome, "none")
            /\ attempt' = forget(attempt, 0)
            /\ via' = forget(via, NoRun)
       /\ auths' = [auths EXCEPT ![via[c]] = NotIssued]
  /\ UNCHANGED <<now, session, stops, evidence>>

-----------------------------------------------------------------------------
(***************************************************************************)
(* The workflows that change the environment, external to the repository.  *)
(***************************************************************************)

\* The stop that issued d was itself dispatched and verified.
SourceVerified(d) == d.run \in StopRuns => Verified(d.run, d.attempt)

NeedsAuthorization(k) == k.action # "apply"

StartWork(k) ==
  /\ At(k, "start")
  /\ LET allowed == NeedsAuthorization(k) => MayStart(k, via[k]) /\ SourceVerified(via[k])
     IN \/ /\ allowed
           /\ IF NeedsAuthorization(k) THEN Consume(via[k], k, attempt[k])
                                       ELSE UNCHANGED auths
           /\ Continue(k, "work")
           /\ UNCHANGED <<now, session, evidence>>
        \/ ~ allowed /\ Refuse(k)

FinishWork(k) ==
  /\ At(k, "work")
  /\ \/ Conclude(k, "success") /\ UNCHANGED faults
     \/ faults < MaxFaults /\ Conclude(k, "failure") /\ faults' = faults + 1
  /\ UNCHANGED <<ledgerVars, recorded, mutated>>

-----------------------------------------------------------------------------
(***************************************************************************)
(* Faults, reruns and time.                                                *)
(***************************************************************************)

\* At any step.
Fault(r) ==
  /\ Running(r) /\ r \notin CleanupRuns
  /\ Unanswered(r)
  /\ UNCHANGED <<ledgerVars, recorded, mutated>>

\* The first step of the job a step belongs to.
JobStart(s) ==
  CASE s \in {"guard", "record", "apply", "applying", "provision", "opening"} -> "guard"
    [] s \in {"serve", "auto-stop"} -> "serve"
    [] s = "resolve" -> "resolve"
    [] s \in {"decide", "claim", "settle", "destroy", "destroying"} -> "decide"
    [] s \in {"wait", "audit"} -> "wait"
    [] OTHER -> s

\* An operator reruns all the jobs of a failed run, or those that failed.
Rerun(r) ==
  /\ r \in OpenRuns \cup StopRuns
  /\ outcome[r] = "failure" /\ ~ OfCleanup(r)
  /\ attempt[r] < MaxAttempt
  /\ Cardinality({t \in Runs : attempt[t] > 1} \ {r}) < MaxReruns
  /\ \/ step' = [step EXCEPT ![r] = JobStart(step[r])]
     \/ step' = [step EXCEPT ![r] = IF r \in OpenRuns THEN "guard" ELSE "resolve"]
  /\ attempt' = [attempt EXCEPT ![r] = attempt[r] + 1]
  /\ outcome' = [outcome EXCEPT ![r] = "running"]
  /\ UNCHANGED <<ledgerVars, via, stops, evidence>>

\* The audit waits for its window, a normal one for the end of the teardown.
ToAudit(r) == At(r, "wait") /\ (IsEmergency(r) \/ now' >= TeardownEnd)

Tick ==
  /\ now' = IF now < CleanupDeadline THEN now + 1 ELSE now
  /\ session' = [session EXCEPT !.lease = Sooner(session.lease, 0)]
  /\ auths' = [d \in Dispatches |-> [auths[d] EXCEPT !.left = Sooner(auths[d].left, 0)]]
  /\ step' = [r \in Runs |-> IF ToAudit(r) THEN "audit" ELSE step[r]]
  /\ UNCHANGED <<outcome, attempt, via, stops, evidence>>

-----------------------------------------------------------------------------
Init ==
  /\ now = 0
  /\ session = NoSession
  /\ auths = [d \in Dispatches |-> NotIssued]
  /\ step = [r \in Runs |-> "none"]
  /\ outcome = [r \in Runs |-> "none"]
  /\ attempt = [r \in Runs |-> 0]
  /\ via = [r \in Runs |-> NoRun]
  /\ recorded = {} /\ mutated = {} /\ stops = {}
  /\ faults = 0

OpenStep(r) ==
  \/ AuthorizeOpen(r) \/ BeginApply(r) \/ DispatchApply(r) \/ ClusterBuilt(r)
  \/ DispatchOpen(r) \/ EnvironmentOpened(r)
  \/ TooLateToStop(r) \/ DispatchStop(r) \/ AutoStopped(r)

StopStep(c) ==
  \/ Resolve(c) \/ Decide(c) \/ ClaimTeardown(c)
  \/ DispatchDestroy(c) \/ EnvironmentDestroyed(c) \/ AuditAndFinalize(c)

ChildStep(k) == StartWork(k) \/ FinishWork(k)

\* What run r does of its own accord.
RunStep(r) ==
  /\ Running(r)
  /\ \/ r \in OpenRuns /\ OpenStep(r)
     \/ r \in StopRuns /\ StopStep(r)
     \/ r \in CleanupRuns /\ CleanedUp(r)
     \/ r \in Children /\ ChildStep(r)

EmergencyStop == \E c \in StopRuns : LaunchEmergencyStop(c)
Cleanup == \E q \in CleanupRuns, c \in StopRuns : LaunchCleanup(q, c)

Next ==
  \/ \E r \in OpenRuns : LaunchOpen(r)
  \/ \E c \in StopRuns : LaunchManualStop(c)
  \/ EmergencyStop
  \/ Cleanup
  \/ \E r \in Runs : RunStep(r) \/ Fault(r) \/ Rerun(r)
  \/ Tick

\* Every run takes its steps, time passes, and the schedules fire.
Fairness ==
  /\ WF_vars(Tick)
  /\ \A r \in Runs : WF_vars(RunStep(r))
  /\ WF_vars(EmergencyStop)
  /\ WF_vars(Cleanup)

Spec == Init /\ [][Next]_vars /\ Fairness

-----------------------------------------------------------------------------
(***************************************************************************)
(* Properties.                                                             *)
(***************************************************************************)

TypeOK ==
  /\ now \in 0 .. CleanupDeadline
  /\ session \in SessionRecord
  /\ auths \in [Dispatches -> AuthRecord]
  /\ step \in [Runs -> Steps]
  /\ outcome \in [Runs -> Outcomes]
  /\ attempt \in [Runs -> Attempts \cup {0}]
  /\ via \in [Runs -> Starts]
  /\ recorded \subseteq OpenRuns /\ mutated \subseteq OpenRuns
  /\ stops \subseteq {"succeeded", "unproven"}
  /\ faults \in 0 .. MaxFaults

\* Whatever changes the environment is on record for those who review it later:
\* of a run that builds for an opening, that the opening began to; of one that
\* destroys for a stop, that the stop goes on or may have destroyed.  A rescue
\* never mistakes an environment half destroyed for an untouched one, whichever
\* runner was lost and whatever was rerun.  (close_run_is_safe_to_retry,
\* find_cleanup_candidate, has_started_mutating_job.)
LeftEvidence(k) ==
  IF k.run \in OpenRuns THEN k.run \in mutated
                        ELSE Running(k.run) \/ stops # {}
EvidenceComplete == \A k \in Created(Children) : LeftEvidence(k)

\* Two stops never destroy at a time, whatever is rerun: each sees the other
\* among the runs before it claims.  (assert_lifecycle_close_needed.)
Destroys(c) == Running(c) /\ step[c] \in {"claim", "destroy", "destroying"}
OneTeardown ==
  \A c, d \in StopRuns : Destroys(c) /\ Destroys(d) => c = d

\* The environment of a session is destroyed by the attempts of one stop run:
\* another one does so only if the first provably destroyed nothing, or if an
\* operator reruns an emergency stop, which is not reviewed again.
\* (find_cleanup_candidate, close_run_is_safe_to_retry, begin_close.)
OneRunsTeardowns ==
  \A k, l \in {x \in Children : x.action = "close" /\ ~ Fresh(x)} :
    k.run = l.run \/ \E x \in {k, l} : IsEmergency(x.run) /\ x.attempt > 1

\* Neither at a time nor one after the other do two stops destroy what a
\* session opened.
DestroyedByOneRun == OneTeardown /\ OneRunsTeardowns

\* While a normal stop destroys under a lease that is not over, the record
\* names its run and its attempt: it can still record its outcome and close.
\* (begin_close, record_close_step, finalize_close.)
DestroyerHoldsLease ==
  \A c \in StopRuns :
    /\ Running(c) /\ step[c] \in {"destroy", "destroying"}
    /\ ~ IsEmergency(c)
    /\ session.lease > 0
    => Closes(c, attempt[c])

\* Once a run claimed the teardown of a session, no opening gets it back.
\* (_handoff_failed_opening, authorize_open.)
ClaimedNeverReopens ==
  [][~ NeverClaimed(session) => session'.status \in {"closing", "closed"}]_vars

\* Another run takes a teardown over only through the emergency stop: within
\* the window of a normal stop the lease of the first one lasts.
\* (begin_close, CLOSE_LEASE_SECONDS.)
TakeoverIsEmergency ==
  [][\A c \in StopRuns :
       /\ ~ NeverClaimed(session) /\ session.closeRun # c
       /\ session'.closeRun = c
       => IsEmergency(c)]_vars

\* A teardown, once claimed, is seen through: no opening takes the session
\* back, and no other run the teardown but the emergency stop.
TeardownSeenThrough == ClaimedNeverReopens /\ TakeoverIsEmergency

\* The claims of the session are a lease with one holder, which is released
\* once.  (begin_close, finalize_close.)
Lease == INSTANCE TeardownLease WITH
  Closers <- StopRuns, Nobody <- NoRun, MaxLease <- CloseLease,
  holder <- session.closeRun, left <- session.lease,
  released <- session.status = "closed"
ImplementsLease == Lease!Spec

\* A session whose cluster was built is closed in the end.
\* (docs/INFRASTRUCTURE.md: the automatic teardown, the scheduled and the
\* emergency cleanup.)
BuiltIsClosed ==
  (\E k \in Children : k.action = "apply" /\ outcome[k] = "success")
    ~> session.status = "closed"
=============================================================================
