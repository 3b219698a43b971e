--------------------------- MODULE SessionLedger ---------------------------
(***************************************************************************)
(* The ledger of one HML session: a DynamoDB record of who opened it and   *)
(* who is closing it, and one record per dispatch that a workflow run may  *)
(* start in another workflow.                                              *)
(*                                                                         *)
(* Every operation is one conditional write.  An operation that decides    *)
(* on what it read, and whose condition does not compare it again, takes   *)
(* here the record it read (seen), the time at which it was called (at)    *)
(* and whether the clock has moved on since (aged, 0 or 1: a call is given *)
(* 45 seconds, far less than a tick).  Expirations are kept as the ticks   *)
(* that are left, so that time needs no bound.                             *)
(***************************************************************************)
EXTENDS Integers, Sequences

CONSTANTS
  Openings,        \* runs of environment-start.yml, in the order of creation
  StopRuns,        \* runs of environment-stop.yml
  CleanupRuns,     \* runs of lifecycle-cleanup.yml
  NoRun,           \* none of them
  MaxAttempt,      \* how often a run is attempted
  ExpiresAt,       \* end of the session, in ticks since it started
  CleanupDeadline, \* 23:00 of its day
  CloseLease,      \* CLOSE_LEASE_SECONDS
  AuthTtl,         \* AUTH_TTL_SECONDS
  Gaps             \* what the workflows fail to give the scripts they call

\* The scripts are told what they need by the environment of the job that calls
\* them.  This commit leaves out
\*   "open":      LIFECYCLE_CROSS_REPO_ACTOR in the job that opens,
\*   "auto-stop": the same, and the operators and the table, in the job that
\*                stops the session at its end,
\*   "stop name": an authorization names a stop's workflow by its file, and the
\*                run that consumes it by its display name,
\*   "emergency": LIFECYCLE_EMERGENCY_CAPABILITY_VERIFIED in the first job of a
\*                stop,
\*   "audit":     the repositories that the audit of a stop looks at.
KnownGaps == {"open", "auto-stop", "stop name", "emergency", "audit"}

OpenRuns == {Openings[i] : i \in DOMAIN Openings}
Attempts == 1 .. MaxAttempt

\* A dispatch identifier is a hash of what is done, by which attempt of which
\* run.  The run it creates in another repository is named after it.  "apply"
\* builds the cluster, and asks the ledger for nothing; "open" provisions the
\* database in it.
Children ==
  [action : {"apply", "open"}, run : OpenRuns, attempt : Attempts] \cup
  [action : {"close"}, run : StopRuns, attempt : Attempts]
Dispatches ==
  Children \cup
  [action : {"close"}, run : OpenRuns, attempt : Attempts] \cup
  [action : {"cleanup-close"}, run : CleanupRuns, attempt : Attempts]

Runs == OpenRuns \cup StopRuns \cup CleanupRuns \cup Children

ASSUME RunsAssumption ==
  /\ Openings \in Seq(OpenRuns)
  /\ NoRun \notin OpenRuns \cup StopRuns \cup CleanupRuns \cup Dispatches
  /\ OpenRuns \cap StopRuns = {}
  /\ CleanupRuns \cap (OpenRuns \cup StopRuns) = {}
  /\ (OpenRuns \cup StopRuns \cup CleanupRuns) \cap Dispatches = {}
ASSUME TimesAssumption ==
  /\ ExpiresAt \in Nat /\ CleanupDeadline \in Nat /\ ExpiresAt < CleanupDeadline
  /\ CloseLease \in Nat /\ CloseLease > 1
  /\ AuthTtl \in Nat /\ AuthTtl > 0
  /\ MaxAttempt \in Nat \ {0}
ASSUME GapsAssumption == Gaps \subseteq KnownGaps

VARIABLES
  now,      \* the clock; it stands still once the day of the session is over
  session,  \* the STATE record
  auths     \* the AUTH#DISPATCH# records

Statuses == {"none", "active", "closing", "closed"}

SessionRecord ==
  [status : Statuses,
   startRun : OpenRuns \cup {NoRun}, startAttempt : Attempts \cup {0},
   closeRun : StopRuns \cup {NoRun}, closeAttempt : Attempts \cup {0},
   lease : -1 .. CloseLease]

NoSession ==
  [status |-> "none", startRun |-> NoRun, startAttempt |-> 0,
   closeRun |-> NoRun, closeAttempt |-> 0, lease |-> -1]

AuthRecord ==
  [left : -2 .. AuthTtl, by : StopRuns \cup Children \cup {NoRun},
   attempt : Attempts \cup {0}]
NotIssued == [left |-> -2, by |-> NoRun, attempt |-> 0]

\* One tick less.  0 is over; where calls take time, -1 is over since before
\* the last tick.
Sooner(left, floor) == IF left <= floor THEN left ELSE left - 1

\* expires_at <= :now, where :now was taken aged ticks ago.
Expired(left, aged) == left + aged <= 0

-----------------------------------------------------------------------------
(***************************************************************************)
(* Opening.                                                                *)
(***************************************************************************)

\* authorize_open: the first opening creates the record; another attempt of
\* the same run takes it over.
Openable(r) ==
  /\ now < ExpiresAt
  /\ session.status = "none" \/ (session.status = "active" /\ session.startRun = r)

\* A record nobody has ever started to close.
NeverClaimed(s) == s.closeRun = NoRun

\* Mutant: a failed run hands on its session in whatever state it is.
HandoffAnyState(source) == session.startRun = source

\* _handoff_failed_opening: the session of the failed run source may go to
\* another run, even closed, as long as no run ever claimed its teardown.
HandoffAllowed(source) ==
  /\ now < ExpiresAt
  /\ session.startRun = source
  /\ \/ session.status = "active"
     \/ session.status = "closed" /\ NeverClaimed(session)

\* Run r opens the session.
Opened(r, a) ==
  session' = [session EXCEPT !.status = "active", !.startRun = r,
                             !.startAttempt = a]

-----------------------------------------------------------------------------
(***************************************************************************)
(* Dispatch authorizations.                                                *)
(***************************************************************************)

IsOpener(d, s) == d.run = s.startRun /\ d.attempt = s.startAttempt
IsCloser(d, s) == d.run = s.closeRun /\ d.attempt = s.closeAttempt

\* _configured_dispatch_actor: the job that issues names who may dispatch.
ActorConfigured(d) ==
  /\ d.action = "open" => "open" \notin Gaps
  /\ d.action = "close" /\ d.run \in OpenRuns => "auto-stop" \notin Gaps

\* The rules of issue_dispatch_authorization.
MayIssue(d, seen, at) ==
  /\ ActorConfigured(d)
  /\ \/ /\ d.action = "open"
        /\ seen.status = "active" /\ IsOpener(d, seen)
        /\ at < ExpiresAt
     \/ /\ d.action = "close"
        /\ \/ seen.status = "active" /\ d.run = seen.startRun
           \/ seen.status = "closing" /\ d.run = seen.closeRun
     \/ /\ d.action = "cleanup-close"
        /\ seen.status \in {"active", "closing"}
        /\ at >= ExpiresAt

\* The rules of consume_dispatch_authorization.
MayConsume(d, seen, at) ==
  \/ /\ d.action = "open"
     /\ seen.status = "active" /\ IsOpener(d, seen)
     /\ at < ExpiresAt
  \/ /\ d.action = "close"
     /\ seen.status \in {"active", "closing"}
     /\ IsOpener(d, seen) \/ IsCloser(d, seen)
  \/ /\ d.action = "cleanup-close"
     /\ seen.status \in {"active", "closing"}
     /\ at >= ExpiresAt

\* Mutant: the authorization lives one tick too long.
IssuedLonger(records, d, aged) == [records EXCEPT ![d].left = AuthTtl + 1 - aged]

\* The records once d is issued; a dispatch is issued once.
Issued(records, d, aged) == [records EXCEPT ![d].left = AuthTtl - aged]

\* The run that consumes is of the workflow the authorization names.
NamesWorkflow(r) == r \in StopRuns => "stop name" \notin Gaps

\* Issued for the workflow of the run, and not consumed, or consumed by an
\* earlier attempt of the run.
Consumable(d, r, a, aged) ==
  /\ auths[d] # NotIssued
  /\ NamesWorkflow(r)
  /\ ~ Expired(auths[d].left, aged)
  /\ auths[d].by = NoRun \/ (auths[d].by = r /\ auths[d].attempt < a)

Consume(d, r, a) ==
  auths' = [auths EXCEPT ![d].by = r, ![d].attempt = a]

ConsumedBy(d, r, a) == auths[d].by = r /\ auths[d].attempt = a

-----------------------------------------------------------------------------
(***************************************************************************)
(* Closing.                                                                *)
(***************************************************************************)

\* What begin_close requires of the dispatch that started the run.
MayClaim(d, r, a, seen, at, aged) ==
  /\ ConsumedBy(d, r, a)
  /\ \/ d.action = "close" /\ d.run \in {seen.startRun, seen.closeRun}
     \/ /\ d.action = "cleanup-close"
        /\ ~ Expired(auths[d].left, aged)
        /\ seen.status \in {"active", "closing"}
        /\ at >= ExpiresAt

\* Mutant: whoever comes takes the teardown, the lease is not looked at.
ClaimableAnyway(r, at, aged, cleanup) ==
  \/ session.status = "active" /\ (cleanup => at >= ExpiresAt)
  \/ session.status = "closing"

\* The teardown lease is free for run r: nobody closes, the last lease is
\* over, or the run holds it, which a cleanup may not rely upon.
Claimable(r, at, aged, cleanup) ==
  \/ session.status = "active" /\ (cleanup => at >= ExpiresAt)
  \/ /\ session.status = "closing"
     /\ Expired(session.lease, aged) \/ (~ cleanup /\ session.closeRun = r)

\* Mutant: the lease of a claim ends with the tick.
LeaseLeftShort(at, cleanup) == 1

\* Only a cleanup goes on after the day of the session.
LeaseLeft(at, cleanup) ==
  IF cleanup \/ CloseLease < CleanupDeadline - at THEN CloseLease
                                                 ELSE CleanupDeadline - at

\* The run has the teardown.
Holds(r) == session.status = "closing" /\ session.closeRun = r

\* Mutant: the attempt that claims first stays on record.
ClaimOldAttempt(r, a, at, aged, cleanup) ==
  /\ Claimable(r, at, aged, cleanup)
  /\ cleanup \/ at < CleanupDeadline
  /\ session' = [session EXCEPT !.status = "closing", !.closeRun = r,
                                !.closeAttempt = IF Holds(r) THEN @ ELSE a,
                                !.lease = LeaseLeft(at, cleanup) - aged]

Claim(r, a, at, aged, cleanup) ==
  /\ Claimable(r, at, aged, cleanup)
  /\ cleanup \/ at < CleanupDeadline
  /\ session' = [session EXCEPT !.status = "closing", !.closeRun = r,
                                !.closeAttempt = a,
                                !.lease = LeaseLeft(at, cleanup) - aged]

\* The condition of begin_close failed because the run already holds the
\* lease: the run goes on, and the record keeps the attempt that took it.
ClaimHeld(r, at, aged, cleanup) ==
  /\ ~ Claimable(r, at, aged, cleanup)
  /\ Holds(r)
  /\ UNCHANGED session

\* The condition of record_close_step and of finalize_close.
Closes(r, a) ==
  Holds(r) /\ session.closeAttempt = a

\* finalize_close.
Finalize(r, a) ==
  /\ Closes(r, a)
  /\ session' = [session EXCEPT !.status = "closed", !.lease = -1]

\* find_expired_sessions lists the session.
Listed ==
  /\ now >= ExpiresAt
  /\ \/ session.status = "active"
     \/ session.status = "closing" /\ Expired(session.lease, 0)
=============================================================================
