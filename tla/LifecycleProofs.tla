--------------------------- MODULE LifecycleProofs ---------------------------
(***************************************************************************)
(* Theorems about Lifecycle, for any number of runs, attempts and faults   *)
(* and any times that satisfy the assumptions.                             *)
(***************************************************************************)
EXTENDS Lifecycle, TLAPS

\* A run that was created has an attempt.
Started == \A r \in Runs : outcome[r] # "none" => attempt[r] \in Attempts

\* The record of the session is free as long as nobody claimed its teardown,
\* and belongs to a closer from then on.
ClaimedOnce == NeverClaimed(session) <=> session.status \in {"none", "active"}

TypeInv == TypeOK /\ Started

-----------------------------------------------------------------------------
(***************************************************************************)
(* Runs.                                                                   *)
(***************************************************************************)

\* What the runs know of themselves has its type.
RunsOK ==
  /\ step \in [Runs -> Steps]
  /\ outcome \in [Runs -> Outcomes]
  /\ attempt \in [Runs -> Attempts \cup {0}]
  /\ via \in [Runs -> Starts]
  /\ stops \subseteq {"succeeded", "unproven"}
  /\ Started

\* The ledger has its type.
LedgerOK ==
  /\ now \in 0 .. CleanupDeadline
  /\ session \in SessionRecord
  /\ auths \in [Dispatches -> AuthRecord]

\* The evidence has its type.
EvidenceOK ==
  /\ recorded \subseteq OpenRuns /\ mutated \subseteq OpenRuns
  /\ faults \in 0 .. MaxFaults

LEMMA TypeParts == TypeInv <=> RunsOK /\ LedgerOK /\ EvidenceOK
BY DEF TypeInv, TypeOK, RunsOK, LedgerOK, EvidenceOK

LEMMA ContinueType ==
  ASSUME RunsOK, NEW r, NEW s \in Steps, Continue(r, s)
  PROVE  RunsOK'
BY DEF RunsOK, Started, Continue

LEMMA ConcludeAllType ==
  ASSUME RunsOK, NEW ending, ending \subseteq Runs,
         NEW c \in {"success", "failure"}, ConcludeAll(ending, c),
         \A r \in ending : outcome[r] # "none"
  PROVE  RunsOK'
<1>1. outcome' \in [Runs -> Outcomes]
  BY DEF RunsOK, ConcludeAll, Outcomes
<1>2. \A r \in Runs : outcome'[r] # "none" => outcome[r] # "none"
  BY DEF RunsOK, ConcludeAll
<1>3. stops' \subseteq {"succeeded", "unproven"}
  BY DEF RunsOK, ConcludeAll, Marks
<1>. QED
  BY <1>1, <1>2, <1>3 DEF RunsOK, Started, ConcludeAll

LEMMA ConcludeType ==
  ASSUME RunsOK, NEW r \in Runs, NEW c \in {"success", "failure"},
         Conclude(r, c), outcome[r] # "none"
  PROVE  RunsOK'
BY ConcludeAllType DEF Conclude

LEMMA RefuseType ==
  ASSUME RunsOK, NEW r \in Runs, Refuse(r), outcome[r] # "none"
  PROVE  RunsOK'
BY ConcludeType DEF Refuse

LEMMA CreateType ==
  ASSUME RunsOK, NEW r \in Runs, NEW how \in Starts, Create(r, how),
         step' \in [Runs -> Steps]
  PROVE  RunsOK'
<1>1. 1 \in Attempts
  BY TimesAssumption DEF Attempts
<1>2. attempt' \in [Runs -> Attempts \cup {0}]
  BY <1>1 DEF RunsOK, Create
<1>3. outcome' \in [Runs -> Outcomes]
  BY DEF RunsOK, Create, Outcomes
<1>4. Started'
  BY <1>1 DEF RunsOK, Create, Started
<1>. QED
  BY <1>2, <1>3, <1>4 DEF RunsOK, Create

\* The attempt of a run that is going on may dispatch.
LEMMA DispatchType ==
  ASSUME RunsOK, NEW r \in OpenRuns \cup StopRuns, outcome[r] # "none"
  PROVE  /\ Dispatch(r, "close") \in Dispatches
         /\ Dispatch(r, "close") \in Starts
         /\ r \in OpenRuns => /\ Dispatch(r, "apply") \in Children
                              /\ Dispatch(r, "open") \in Children
         /\ r \in StopRuns => Dispatch(r, "close") \in Children
         /\ Children \subseteq Dispatches
         /\ Dispatches \subseteq Starts
<1>1. r \in Runs /\ attempt[r] \in Attempts
  BY DEF RunsOK, Started, Runs
<1>. QED
  BY <1>1 DEF Dispatch, Dispatches, Children, Starts

LEMMA IssuedType ==
  ASSUME auths \in [Dispatches -> AuthRecord], NEW d,
         auths' = Issued(auths, d, 0)
  PROVE  auths' \in [Dispatches -> AuthRecord]
<1>1. AuthTtl - 0 \in -2 .. AuthTtl
  BY TimesAssumption
<1>2. ASSUME NEW e \in Dispatches PROVE auths'[e] \in AuthRecord
  <2>1. CASE e = d
    <3>1. auths'[e] = [auths[e] EXCEPT !.left = AuthTtl - 0]
      BY <2>1 DEF Issued
    <3>2. auths[e] \in AuthRecord
      OBVIOUS
    <3>. QED
      BY <3>1, <3>2, <1>1 DEF AuthRecord
  <2>2. CASE e # d
    BY <2>2 DEF Issued
  <2>. QED
    BY <2>1, <2>2
<1>. QED
  BY <1>2 DEF Issued

LEMMA AfterDispatchType ==
  ASSUME auths \in [Dispatches -> AuthRecord], NEW d, auths' = AfterDispatch(d)
  PROVE  auths' \in [Dispatches -> AuthRecord]
BY IssuedType DEF AfterDispatch

LEMMA DispatchAndWaitType ==
  ASSUME RunsOK, LedgerOK, NEW r \in OpenRuns \cup StopRuns, outcome[r] # "none",
         NEW action \in {"apply", "open", "close"}, Dispatch(r, action) \in Starts,
         NEW inTime, NEW allowed, NEW t \in Runs, NEW first \in Steps, NEW s \in Steps,
         DispatchAndWait(r, action, inTime, allowed, t, first, s)
  PROVE  RunsOK' /\ LedgerOK' /\ UNCHANGED <<now, session, evidence>>
<1>. DEFINE d == Dispatch(r, action)
            resumed == \E p \in DispatchedBy(r, action) : outcome[p] # "failure"
<1>0. r \in Runs
  BY DEF Runs
<1>1. CASE resumed /\ Continue(r, s) /\ UNCHANGED <<ledgerVars, evidence>>
  BY <1>1, ContinueType DEF LedgerOK, ledgerVars
<1>2. CASE /\ Create(t, d)
           /\ step' = [step EXCEPT ![r] = s, ![t] = first]
           /\ auths' = AfterDispatch(d)
  <2>1. step' \in [Runs -> Steps]
    BY <1>2 DEF RunsOK
  <2>2. RunsOK'
    BY <1>2, <2>1, CreateType
  <2>3. UNCHANGED <<now, session, evidence>>
    BY <1>2 DEF Create
  <2>. QED
    BY <1>2, <2>2, <2>3, AfterDispatchType DEF LedgerOK
<1>3. CASE Refuse(r)
  BY <1>0, <1>3, RefuseType DEF LedgerOK, Refuse, ledgerVars
<1>. QED
  BY <1>1, <1>2, <1>3 DEF DispatchAndWait

\* A run that waits is a run, and its deadline changes nothing else.
LEMMA AwaitType ==
  ASSUME RunsOK, LedgerOK, EvidenceOK, NEW r \in Runs, NEW s, NEW action,
         NEW next, Await(r, s, action, next), next => RunsOK'
  PROVE  RunsOK' /\ LedgerOK' /\ EvidenceOK' /\ UNCHANGED <<now, session>>
<1>1. outcome[r] # "none"
  BY DEF Await, At, Running
<1>2. RunsOK'
  BY <1>1, ConcludeType DEF Await
<1>. QED
  BY <1>2 DEF Await, LedgerOK, EvidenceOK, ledgerVars, evidence

LEMMA GiveUpType ==
  ASSUME RunsOK, LedgerOK, EvidenceOK, NEW r \in Runs, NEW s, NEW action,
         NEW deadline, GiveUp(r, s, action, deadline)
  PROVE  RunsOK' /\ LedgerOK' /\ EvidenceOK' /\ UNCHANGED <<now, session>>
<1>1. outcome[r] # "none"
  BY DEF GiveUp, At, Running
<1>2. PICK t \in Awaited(r, action) :
        Running(t) /\ (Conclude(r, "failure") \/ ConcludeAll({r, t}, "failure"))
  BY DEF GiveUp
<1>3. t \in Runs
  BY DEF Awaited, DispatchedBy
<1>4. CASE Conclude(r, "failure")
  BY <1>1, <1>4, ConcludeType DEF GiveUp, LedgerOK, EvidenceOK, ledgerVars, evidence
<1>5. CASE ConcludeAll({r, t}, "failure")
  <2>1. {r, t} \subseteq Runs /\ \A x \in {r, t} : outcome[x] # "none"
    BY <1>1, <1>2, <1>3 DEF Running
  <2>2. RunsOK'
    BY <1>5, <2>1, ConcludeAllType
  <2>. QED
    BY <2>2 DEF GiveUp, LedgerOK, EvidenceOK, ledgerVars, evidence
<1>. QED
  BY <1>2, <1>4, <1>5

-----------------------------------------------------------------------------
(***************************************************************************)
(* Each action keeps the types, and changes the record of the session in   *)
(* one of four ways.                                                       *)
(***************************************************************************)

\* What a step may do to the record of the session.
SessionStep ==
  \/ UNCHANGED <<now, session>>
  \/ \E r \in OpenRuns :
       MayOpen(r) /\ Opened(r, attempt[r]) /\ UNCHANGED now
  \/ \E c \in StopRuns :
       /\ At(c, "claim") \/ At(c, "settle")
       /\ Claim(c, attempt[c], now, 0, IsEmergency(c))
       /\ UNCHANGED <<now, via>>
  \/ \E c \in StopRuns :
       /\ At(c, "audit") /\ MayAudit(c)
       /\ Finalize(c, attempt[c])
       /\ UNCHANGED now
  \/ /\ now' = IF now < CleanupDeadline THEN now + 1 ELSE now
     /\ session' = [session EXCEPT !.lease = Sooner(session.lease, 0)]

Good == RunsOK' /\ LedgerOK' /\ EvidenceOK' /\ SessionStep

\* Steps that leave the ledger and the evidence alone.
LEMMA QuietStep ==
  ASSUME LedgerOK, EvidenceOK, RunsOK', UNCHANGED <<ledgerVars, evidence>>
  PROVE  Good
BY DEF Good, LedgerOK, EvidenceOK, SessionStep, ledgerVars, evidence

LEMMA LaunchStep ==
  ASSUME RunsOK, LedgerOK, EvidenceOK, NEW r \in Runs, NEW s \in Steps,
         NEW how \in Starts, Launch(r, s, how)
  PROVE  Good
<1>1. step' \in [Runs -> Steps]
  BY DEF Launch, RunsOK
<1>2. RunsOK'
  BY <1>1, CreateType DEF Launch
<1>. QED
  BY <1>2, QuietStep DEF Launch, Create, ledgerVars

LEMMA RefuseStep ==
  ASSUME RunsOK, LedgerOK, EvidenceOK, NEW r \in Runs, outcome[r] # "none", Refuse(r)
  PROVE  Good
<1>1. RunsOK'
  BY RefuseType
<1>. QED
  BY <1>1, QuietStep DEF Refuse

LEMMA OpenedType ==
  ASSUME RunsOK, LedgerOK, NEW r \in OpenRuns, Opened(r, attempt[r]),
         UNCHANGED <<now, auths>>
  PROVE  LedgerOK'
<1>1. attempt[r] \in Attempts \cup {0}
  BY DEF RunsOK, Runs
<1>2. session' \in SessionRecord
  BY <1>1 DEF LedgerOK, SessionRecord, Opened, Statuses
<1>. QED
  BY <1>2 DEF LedgerOK

LEMMA OpenStepGood ==
  ASSUME RunsOK, LedgerOK, EvidenceOK, NEW r \in OpenRuns, OpenStep(r)
  PROVE  Good
<1>0. /\ r \in Runs /\ r \in OpenRuns \cup StopRuns
      /\ {"record", "apply", "applying", "provision", "opening", "serve", "auto-stop",
           "start", "resolve"} \subseteq Steps
  BY DEF Runs, Steps, OpenSteps, ChildSteps, StopSteps
<1>1. CASE AuthorizeOpen(r)
  <2>0. outcome[r] # "none"
    BY <1>1 DEF AuthorizeOpen, At, Running
  <2>1. CASE Refuse(r)
    BY <1>0, <2>0, <2>1, RefuseStep
  <2>2. CASE /\ MayOpen(r) /\ Opened(r, attempt[r])
             /\ UNCHANGED <<now, auths, mutated>>
             /\ \/ /\ Continue(r, "record")
                   /\ recorded' = recorded \cup {r}
                   /\ UNCHANGED faults
                \/ /\ faults < MaxFaults
                   /\ Conclude(r, "failure")
                   /\ faults' = faults + 1
                   /\ UNCHANGED recorded
    <3>1. RunsOK'
      BY <1>0, <2>0, <2>2, ContinueType, ConcludeType
    <3>2. LedgerOK'
      BY <2>2, OpenedType
    <3>3. EvidenceOK'
      BY <2>2, WindowAssumption DEF EvidenceOK
    <3>. QED
      BY <2>2, <3>1, <3>2, <3>3 DEF Good, SessionStep
  <2>. QED
    BY <1>1, <2>1, <2>2 DEF AuthorizeOpen, Unanswered
<1>2. CASE BeginApply(r)
  <2>1. RunsOK'
    BY <1>0, <1>2, ContinueType DEF BeginApply
  <2>2. LedgerOK' /\ UNCHANGED <<now, session>>
    BY <1>2 DEF BeginApply, LedgerOK, ledgerVars
  <2>3. EvidenceOK'
    BY <1>2 DEF BeginApply, EvidenceOK
  <2>. QED
    BY <2>1, <2>2, <2>3 DEF Good, SessionStep
<1>3. CASE DispatchOpen(r)
  <2>0. outcome[r] # "none"
    BY <1>3 DEF DispatchOpen, At, Running
  <2>. DEFINE d == Dispatch(r, "open")
  <2>1. d \in Children /\ d \in Runs /\ d \in Starts
    BY <1>0, <2>0, DispatchType DEF Runs
  <2>2. DispatchAndWait(r, "open", now < ExpiresAt, MayIssue(d, session, now), d,
                        "start", "opening")
    BY <1>3 DEF DispatchOpen
  <2>3. RunsOK' /\ LedgerOK' /\ UNCHANGED <<now, session, evidence>>
    BY <1>0, <2>0, <2>1, <2>2, DispatchAndWaitType
  <2>. QED
    BY <2>3 DEF Good, SessionStep, EvidenceOK, evidence
<1>4. CASE EnvironmentOpened(r)
  <2>1. Continue(r, "serve") => RunsOK'
    BY <1>0, ContinueType
  <2>2. RunsOK' /\ LedgerOK' /\ EvidenceOK' /\ UNCHANGED <<now, session>>
    BY <1>0, <1>4, <2>1, AwaitType, GiveUpType DEF EnvironmentOpened
  <2>. QED
    BY <2>2 DEF Good, SessionStep
<1>5. CASE TooLateToStop(r)
  BY <1>0, <1>5, RefuseStep DEF TooLateToStop, At, Running
<1>6. CASE DispatchStop(r)
  <2>0. outcome[r] # "none"
    BY <1>6 DEF DispatchStop, At, Running
  <2>1. Dispatch(r, "close") \in Starts
    BY <1>0, <2>0, DispatchType
  <2>2. PICK c \in StopRuns :
          DispatchAndWait(r, "close", TRUE, MayIssue(Dispatch(r, "close"), session, now),
                          c, "resolve", "auto-stop")
    BY <1>6 DEF DispatchStop
  <2>3. c \in Runs
    BY DEF Runs
  <2>4. RunsOK' /\ LedgerOK' /\ UNCHANGED <<now, session, evidence>>
    BY <1>0, <2>0, <2>1, <2>2, <2>3, DispatchAndWaitType
  <2>. QED
    BY <2>4 DEF Good, SessionStep, EvidenceOK, evidence
<1>7. CASE AutoStopped(r)
  <2>1. At(r, "auto-stop") /\ Conclude(r, "success") => RunsOK'
    BY <1>0, ConcludeType DEF At, Running
  <2>2. At(r, "auto-stop")
    BY <1>7 DEF AutoStopped, Await, GiveUp
  <2>3. RunsOK' /\ LedgerOK' /\ EvidenceOK' /\ UNCHANGED <<now, session>>
    BY <1>0, <1>7, <2>1, <2>2, AwaitType, GiveUpType DEF AutoStopped
  <2>. QED
    BY <2>3 DEF Good, SessionStep
<1>8. CASE DispatchApply(r)
  <2>0. outcome[r] # "none"
    BY <1>8 DEF DispatchApply, At, Running
  <2>. DEFINE d == Dispatch(r, "apply")
  <2>1. d \in Children /\ d \in Runs /\ d \in Starts
    BY <1>0, <2>0, DispatchType DEF Runs
  <2>2. DispatchAndWait(r, "apply", now < ExpiresAt, TRUE, d, "start", "applying")
    BY <1>8 DEF DispatchApply
  <2>3. RunsOK' /\ LedgerOK' /\ UNCHANGED <<now, session, evidence>>
    BY <1>0, <2>0, <2>1, <2>2, DispatchAndWaitType
  <2>. QED
    BY <2>3 DEF Good, SessionStep, EvidenceOK, evidence
<1>9. CASE ClusterBuilt(r)
  <2>1. Continue(r, "provision") => RunsOK'
    BY <1>0, ContinueType
  <2>2. RunsOK' /\ LedgerOK' /\ EvidenceOK' /\ UNCHANGED <<now, session>>
    BY <1>0, <1>9, <2>1, AwaitType, GiveUpType DEF ClusterBuilt
  <2>. QED
    BY <2>2 DEF Good, SessionStep
<1>. QED
  BY <1>1, <1>2, <1>3, <1>4, <1>5, <1>6, <1>7, <1>8, <1>9 DEF OpenStep

LEMMA ConsumeType ==
  ASSUME RunsOK, LedgerOK, NEW r \in StopRuns \cup Children, NEW d,
         Consume(d, r, attempt[r])
  PROVE  auths' \in [Dispatches -> AuthRecord]
<1>1. attempt[r] \in Attempts \cup {0}
  BY DEF RunsOK, Runs
<1>2. ASSUME NEW e \in Dispatches PROVE auths'[e] \in AuthRecord
  <2>1. auths[e] \in AuthRecord
    BY DEF LedgerOK
  <2>2. CASE e = d
    <3>1. auths'[e] = [auths[e] EXCEPT !.by = r, !.attempt = attempt[r]]
      BY <2>2 DEF Consume, LedgerOK
    <3>. QED
      BY <1>1, <2>1, <3>1 DEF AuthRecord
  <2>3. CASE e # d
    BY <2>1, <2>3 DEF Consume, LedgerOK
  <2>. QED
    BY <2>2, <2>3
<1>. QED
  BY <1>2 DEF Consume, LedgerOK

LEMMA ClaimType ==
  ASSUME RunsOK, LedgerOK, NEW c \in StopRuns, NEW cleanup \in BOOLEAN,
         Claim(c, attempt[c], now, 0, cleanup), UNCHANGED <<now, auths>>
  PROVE  LedgerOK'
<1>1. attempt[c] \in Attempts \cup {0}
  BY DEF RunsOK, Runs
<1>2. LeaseLeft(now, cleanup) - 0 \in -1 .. CloseLease
  BY TimesAssumption DEF LeaseLeft, LedgerOK, Claim
<1>3. session' = [session EXCEPT !.status = "closing", !.closeRun = c,
                                 !.closeAttempt = attempt[c],
                                 !.lease = LeaseLeft(now, cleanup) - 0]
  BY DEF Claim
<1>4. session' \in SessionRecord
  BY <1>1, <1>2, <1>3 DEF LedgerOK, SessionRecord, Statuses
<1>. QED
  BY <1>4 DEF LedgerOK

LEMMA StopStepGood ==
  ASSUME RunsOK, LedgerOK, EvidenceOK, NEW c \in StopRuns, StopStep(c)
  PROVE  Good
<1>0. /\ c \in Runs /\ c \in OpenRuns \cup StopRuns
      /\ {"decide", "claim", "settle", "destroy", "destroying", "wait", "start"}
           \subseteq Steps
  BY DEF Runs, Steps, StopSteps, ChildSteps
<1>1. CASE Resolve(c)
  <2>0. outcome[c] # "none"
    BY <1>1 DEF Resolve, At, Running
  <2>1. CASE Refuse(c)
    BY <1>0, <2>0, <2>1, RefuseStep
  <2>2. CASE /\ \/ Consume(via[c], c, attempt[c])
                \/ UNCHANGED auths
             /\ Conclude(c, "success") \/ Continue(c, "decide")
             /\ UNCHANGED <<now, session, evidence>>
    <3>1. RunsOK'
      BY <1>0, <2>0, <2>2, ContinueType, ConcludeType
    <3>2. LedgerOK'
      BY <2>2, ConsumeType DEF LedgerOK
    <3>. QED
      BY <2>2, <3>1, <3>2 DEF Good, SessionStep, EvidenceOK, evidence
  <2>. QED
    BY <1>1, <2>1, <2>2 DEF Resolve
<1>2. CASE Decide(c)
  <2>0. outcome[c] # "none"
    BY <1>2 DEF Decide, At, Running
  <2>1. CASE Refuse(c)
    BY <1>0, <2>0, <2>1, RefuseStep
  <2>2. CASE /\ \/ Conclude(c, "success")
                \/ Continue(c, "claim") \/ Continue(c, "settle")
             /\ UNCHANGED <<ledgerVars, evidence>>
    <3>1. RunsOK'
      BY <1>0, <2>0, <2>2, ContinueType, ConcludeType
    <3>. QED
      BY <2>2, <3>1, QuietStep
  <2>. QED
    BY <1>2, <2>1, <2>2 DEF Decide
<1>3. CASE ClaimTeardown(c)
  <2>0. outcome[c] # "none" /\ (At(c, "claim") \/ At(c, "settle"))
    BY <1>3 DEF ClaimTeardown, At, Running
  <2>1. CASE Refuse(c)
    BY <1>0, <2>0, <2>1, RefuseStep
  <2>2. CASE /\ \/ Claim(c, attempt[c], now, 0, IsEmergency(c))
                \/ ClaimHeld(c, now, 0, IsEmergency(c))
             /\ Continue(c, "wait") \/ Continue(c, "destroy")
             /\ UNCHANGED <<now, auths, evidence>>
    <3>1. RunsOK'
      BY <1>0, <2>2, ContinueType
    <3>2. EvidenceOK'
      BY <2>2 DEF EvidenceOK, evidence
    <3>3. CASE Claim(c, attempt[c], now, 0, IsEmergency(c))
      <4>1. LedgerOK'
        BY <2>2, <3>3, ClaimType DEF IsEmergency
      <4>2. UNCHANGED <<now, via>>
        BY <2>2 DEF Continue
      <4>3. SessionStep
        BY <2>0, <3>3, <4>2 DEF SessionStep
      <4>. QED
        BY <3>1, <3>2, <4>1, <4>3 DEF Good
    <3>4. CASE ClaimHeld(c, now, 0, IsEmergency(c))
      BY <2>2, <3>1, <3>2, <3>4 DEF ClaimHeld, Good, SessionStep, LedgerOK
    <3>. QED
      BY <2>2, <3>3, <3>4
  <2>. QED
    BY <1>3, <2>1, <2>2 DEF ClaimTeardown
<1>4. CASE DispatchDestroy(c)
  <2>0. outcome[c] # "none"
    BY <1>4 DEF DispatchDestroy, At, Running
  <2>. DEFINE d == Dispatch(c, "close")
  <2>1. d \in Runs /\ d \in Starts
    BY <1>0, <2>0, DispatchType DEF Runs
  <2>2. DispatchAndWait(c, "close", IsEmergency(c) \/ now < TeardownEnd,
                        MayIssue(d, session, now) /\ Verified(c, attempt[c]),
                        d, "start", "destroying")
    BY <1>4 DEF DispatchDestroy
  <2>3. RunsOK' /\ LedgerOK' /\ UNCHANGED <<now, session, evidence>>
    BY <1>0, <2>0, <2>1, <2>2, DispatchAndWaitType
  <2>. QED
    BY <2>3 DEF Good, SessionStep, EvidenceOK, evidence
<1>5. CASE EnvironmentDestroyed(c)
  <2>1. Continue(c, "wait") => RunsOK'
    BY <1>0, ContinueType
  <2>2. RunsOK' /\ LedgerOK' /\ EvidenceOK' /\ UNCHANGED <<now, session>>
    BY <1>0, <1>5, <2>1, AwaitType, GiveUpType DEF EnvironmentDestroyed
  <2>. QED
    BY <2>2 DEF Good, SessionStep
<1>6. CASE AuditAndFinalize(c)
  <2>0. outcome[c] # "none"
    BY <1>6 DEF AuditAndFinalize, At, Running
  <2>1. CASE Refuse(c)
    BY <1>0, <2>0, <2>1, RefuseStep
  <2>2. CASE /\ At(c, "audit") /\ MayAudit(c)
             /\ Finalize(c, attempt[c])
             /\ Conclude(c, "success")
             /\ UNCHANGED <<now, auths, evidence>>
    <3>1. RunsOK'
      BY <1>0, <2>0, <2>2, ConcludeType
    <3>2. session' \in SessionRecord
      <4>1. session' = [session EXCEPT !.status = "closed", !.lease = -1]
        BY <2>2 DEF Finalize
      <4>2. -1 \in -1 .. CloseLease
        BY TimesAssumption
      <4>. QED
        BY <4>1, <4>2 DEF LedgerOK, SessionRecord, Statuses
    <3>3. SessionStep
      BY <2>2 DEF SessionStep
    <3>. QED
      BY <2>2, <3>1, <3>2, <3>3 DEF Good, LedgerOK, EvidenceOK, evidence
  <2>. QED
    BY <1>6, <2>1, <2>2 DEF AuditAndFinalize
<1>. QED
  BY <1>1, <1>2, <1>3, <1>4, <1>5, <1>6 DEF StopStep

LEMMA ChildStepGood ==
  ASSUME RunsOK, LedgerOK, EvidenceOK, NEW k \in Children, ChildStep(k)
  PROVE  Good
<1>0. k \in Runs /\ "work" \in Steps
  BY DEF Runs, Steps, ChildSteps
<1>1. outcome[k] # "none"
  BY DEF ChildStep, StartWork, FinishWork, At, Running
<1>2. CASE StartWork(k)
  <2>1. CASE Refuse(k)
    BY <1>0, <1>1, <2>1, RefuseStep
  <2>2. CASE /\ Consume(via[k], k, attempt[k]) \/ UNCHANGED auths
             /\ Continue(k, "work")
             /\ UNCHANGED <<now, session, evidence>>
    <3>1. RunsOK'
      BY <1>0, <2>2, ContinueType
    <3>2. LedgerOK'
      BY <2>2, ConsumeType DEF LedgerOK
    <3>. QED
      BY <2>2, <3>1, <3>2 DEF Good, SessionStep, EvidenceOK, evidence
  <2>. QED
    BY <1>2, <2>1, <2>2 DEF StartWork
<1>3. CASE FinishWork(k)
  <2>1. RunsOK'
    BY <1>0, <1>1, <1>3, ConcludeType DEF FinishWork
  <2>2. EvidenceOK'
    BY <1>3, WindowAssumption DEF FinishWork, EvidenceOK
  <2>. QED
    BY <1>3, <2>1, <2>2 DEF FinishWork, Good, SessionStep, LedgerOK, ledgerVars
<1>. QED
  BY <1>2, <1>3 DEF ChildStep

LEMMA FaultGood ==
  ASSUME RunsOK, LedgerOK, EvidenceOK, NEW r \in Runs, Fault(r)
  PROVE  Good
<1>1. RunsOK'
  BY ConcludeType DEF Fault, Unanswered, Running
<1>2. EvidenceOK'
  BY WindowAssumption DEF Fault, Unanswered, EvidenceOK
<1>. QED
  BY <1>1, <1>2 DEF Fault, Good, SessionStep, LedgerOK, ledgerVars

LEMMA RerunGood ==
  ASSUME RunsOK, LedgerOK, EvidenceOK, NEW r \in Runs, Rerun(r)
  PROVE  Good
<1>1. {"guard", "serve", "resolve", "decide", "wait"} \subseteq Steps
  BY DEF Steps, OpenSteps, StopSteps
<1>2. JobStart(step[r]) \in Steps
  BY <1>1 DEF JobStart, RunsOK
<1>3. step' \in [Runs -> Steps]
  BY <1>1, <1>2 DEF Rerun, RunsOK
<1>4. attempt[r] + 1 \in Attempts
  BY TimesAssumption DEF Rerun, RunsOK, Attempts
<1>5. attempt' \in [Runs -> Attempts \cup {0}] /\ outcome' \in [Runs -> Outcomes]
  BY <1>4 DEF Rerun, RunsOK, Outcomes
<1>6. Started'
  BY <1>4 DEF Rerun, RunsOK, Started
<1>7. RunsOK'
  BY <1>3, <1>5, <1>6 DEF Rerun, RunsOK
<1>. QED
  BY <1>7, QuietStep DEF Rerun

LEMMA CleanedUpGood ==
  ASSUME RunsOK, LedgerOK, EvidenceOK, NEW q \in Runs, CleanedUp(q)
  PROVE  Good
<1>1. PICK c \in Awaited(q, "cleanup-close") :
        /\ step' = [step EXCEPT ![q] = "none", ![c] = "none"]
        /\ outcome' = [outcome EXCEPT ![q] = "none", ![c] = "none"]
        /\ attempt' = [attempt EXCEPT ![q] = 0, ![c] = 0]
        /\ via' = [via EXCEPT ![q] = NoRun, ![c] = NoRun]
        /\ auths' = [auths EXCEPT ![via[c]] = NotIssued]
  BY DEF CleanedUp
<1>2. NotIssued \in AuthRecord
  BY TimesAssumption DEF NotIssued, AuthRecord
<1>3. LedgerOK'
  BY <1>1, <1>2 DEF CleanedUp, LedgerOK
<1>4. RunsOK'
  BY <1>1 DEF CleanedUp, RunsOK, Started, Steps, Outcomes, Starts
<1>. QED
  BY <1>3, <1>4 DEF CleanedUp, Good, SessionStep, EvidenceOK, evidence

LEMMA LaunchCleanupGood ==
  ASSUME RunsOK, LedgerOK, EvidenceOK, NEW q \in CleanupRuns, NEW c \in StopRuns,
         LaunchCleanup(q, c)
  PROVE  Good
<1>. DEFINE d == [action |-> "cleanup-close", run |-> q, attempt |-> 1]
<1>0. 1 \in Attempts
  BY TimesAssumption DEF Attempts
<1>1. d \in Starts
  BY <1>0 DEF Starts, Dispatches
<1>2. auths' \in [Dispatches -> AuthRecord]
  BY IssuedType DEF LaunchCleanup, LedgerOK
<1>3. "cleaning" \in Steps /\ "resolve" \in Steps
  BY DEF Steps, CleanupSteps, StopSteps
<1>4. /\ step' \in [Runs -> Steps]
      /\ outcome' \in [Runs -> Outcomes]
      /\ attempt' \in [Runs -> Attempts \cup {0}]
  BY <1>0, <1>3 DEF LaunchCleanup, RunsOK, Outcomes
<1>5. via' \in [Runs -> Starts]
  BY <1>1 DEF LaunchCleanup, RunsOK
<1>6. Started'
  BY <1>0 DEF LaunchCleanup, RunsOK, Started
<1>7. RunsOK'
  BY <1>4, <1>5, <1>6 DEF LaunchCleanup, RunsOK
<1>. QED
  BY <1>2, <1>7 DEF LaunchCleanup, Good, SessionStep, LedgerOK, EvidenceOK, evidence

LEMMA TickGood ==
  ASSUME RunsOK, LedgerOK, EvidenceOK, Tick
  PROVE  Good
<1>1. now' \in 0 .. CleanupDeadline
  BY TimesAssumption DEF Tick, LedgerOK
<1>2. Sooner(session.lease, 0) \in -1 .. CloseLease
  BY TimesAssumption DEF Sooner, LedgerOK, SessionRecord
<1>3. session' \in SessionRecord
  BY <1>2 DEF Tick, LedgerOK, SessionRecord
<1>4. auths' \in [Dispatches -> AuthRecord]
  <2>1. ASSUME NEW d \in Dispatches PROVE auths'[d] \in AuthRecord
    <3>1. auths[d] \in AuthRecord
      BY DEF LedgerOK
    <3>2. Sooner(auths[d].left, 0) \in -2 .. AuthTtl
      BY <3>1, TimesAssumption DEF Sooner, AuthRecord
    <3>3. auths'[d] = [auths[d] EXCEPT !.left = Sooner(auths[d].left, 0)]
      BY DEF Tick
    <3>. QED
      BY <3>1, <3>2, <3>3 DEF AuthRecord
  <2>. QED
    BY <2>1 DEF Tick
<1>5. "audit" \in Steps
  BY DEF Steps, StopSteps
<1>6. step' \in [Runs -> Steps]
  BY <1>5 DEF Tick, RunsOK
<1>7. RunsOK'
  BY <1>6 DEF Tick, RunsOK, Started
<1>8. SessionStep
  BY DEF Tick, SessionStep
<1>. QED
  BY <1>1, <1>3, <1>4, <1>7, <1>8 DEF Good, LedgerOK, EvidenceOK, Tick, evidence

LEMMA StepGood ==
  ASSUME RunsOK, LedgerOK, EvidenceOK, [Next]_vars
  PROVE  Good
<1>0. /\ {"guard", "resolve"} \subseteq Steps
      /\ OpenRuns \subseteq Runs /\ StopRuns \subseteq Runs /\ CleanupRuns \subseteq Runs
      /\ Manual \in Starts /\ Emergency \in Starts
  BY DEF Steps, OpenSteps, StopSteps, Runs, Starts
<1>1. CASE \E r \in OpenRuns : LaunchOpen(r)
  BY <1>0, <1>1, LaunchStep DEF LaunchOpen
<1>2. CASE \E c \in StopRuns : LaunchManualStop(c)
  BY <1>0, <1>2, LaunchStep DEF LaunchManualStop
<1>3. CASE EmergencyStop
  BY <1>0, <1>3, LaunchStep DEF EmergencyStop, LaunchEmergencyStop
<1>4. CASE Cleanup
  BY <1>4, LaunchCleanupGood DEF Cleanup
<1>5. CASE \E r \in Runs : RunStep(r)
  BY <1>0, <1>5, OpenStepGood, StopStepGood, CleanedUpGood, ChildStepGood DEF RunStep
<1>6. CASE \E r \in Runs : Fault(r) \/ Rerun(r)
  BY <1>6, FaultGood, RerunGood
<1>7. CASE Tick
  BY <1>7, TickGood
<1>8. CASE UNCHANGED vars
  <2>1. RunsOK'
    BY <1>8 DEF vars, RunsOK, Started
  <2>2. UNCHANGED <<ledgerVars, evidence>>
    BY <1>8 DEF vars, ledgerVars, evidence
  <2>. QED
    BY <2>1, <2>2, QuietStep
<1>. QED
  BY <1>1, <1>2, <1>3, <1>4, <1>5, <1>6, <1>7, <1>8 DEF Next

-----------------------------------------------------------------------------
(***************************************************************************)
(* Theorems.                                                               *)
(***************************************************************************)

LEMMA InitType == Init => TypeInv
<1>1. ASSUME Init PROVE LedgerOK
  <2>1. NoSession \in SessionRecord /\ NotIssued \in AuthRecord
    BY TimesAssumption DEF NoSession, SessionRecord, Statuses, NotIssued, AuthRecord
  <2>. QED
    BY <1>1, <2>1, TimesAssumption DEF Init, LedgerOK
<1>2. ASSUME Init PROVE RunsOK
  BY <1>2 DEF Init, RunsOK, Started, Steps, Outcomes, Starts
<1>3. ASSUME Init PROVE EvidenceOK
  BY <1>3, WindowAssumption DEF Init, EvidenceOK
<1>. QED
  BY <1>1, <1>2, <1>3, TypeParts

LEMMA NextType == TypeInv /\ [Next]_vars => TypeInv'
<1>1. RunsOK' /\ LedgerOK' /\ EvidenceOK' => TypeInv'
  BY DEF TypeInv, TypeOK, RunsOK, LedgerOK, EvidenceOK
<1>. QED
  BY <1>1, StepGood, TypeParts DEF Good

LEMMA TypeInvariance == Spec => []TypeInv
BY InitType, NextType, PTL DEF Spec

\* Every variable keeps its type: whatever is lost, retried or late, no lease
\* is longer than CLOSE_LEASE_SECONDS and no authorization lives longer than
\* AUTH_TTL_SECONDS.
THEOREM TypeCorrect == Spec => []TypeOK
<1>1. TypeInv => TypeOK
  BY DEF TypeInv
<1>. QED
  BY <1>1, TypeInvariance, PTL

\* The teardown of a session is claimed once: whether somebody claimed it can
\* be told from its status.
LEMMA InitClaimed == Init => ClaimedOnce
BY DEF Init, ClaimedOnce, NeverClaimed, NoSession

LEMMA OpenedOnlyUnclaimed ==
  ASSUME ClaimedOnce, NEW r, MayOpen(r)
  PROVE  NeverClaimed(session)
BY DEF ClaimedOnce, MayOpen, Openable, HandoffAllowed

LEMMA StopIsARun == \A c \in StopRuns : c # NoRun
BY RunsAssumption

\* What a step does to a claim.
LEMMA ClaimedStep ==
  ASSUME LedgerOK, ClaimedOnce, SessionStep
  PROVE  /\ ClaimedOnce'
         /\ ~ NeverClaimed(session) => session'.status \in {"closing", "closed"}
<1>1. CASE UNCHANGED <<now, session>>
  BY <1>1 DEF LedgerOK, SessionRecord, Statuses, ClaimedOnce, NeverClaimed
<1>2. ASSUME NEW r \in OpenRuns, MayOpen(r), Opened(r, attempt[r])
      PROVE  /\ ClaimedOnce'
             /\ ~ NeverClaimed(session) => session'.status \in {"closing", "closed"}
  <2>1. NeverClaimed(session)
    BY <1>2, OpenedOnlyUnclaimed
  <2>2. session'.status = "active" /\ session'.closeRun = session.closeRun
    BY <1>2 DEF Opened, LedgerOK, SessionRecord
  <2>. QED
    BY <2>1, <2>2 DEF ClaimedOnce, NeverClaimed
<1>3. ASSUME NEW c \in StopRuns, NEW cleanup, Claim(c, attempt[c], now, 0, cleanup)
      PROVE  /\ ClaimedOnce'
             /\ ~ NeverClaimed(session) => session'.status \in {"closing", "closed"}
  <2>1. session'.status = "closing" /\ session'.closeRun = c
    BY <1>3 DEF Claim, LedgerOK, SessionRecord
  <2>. QED
    BY <2>1, StopIsARun DEF ClaimedOnce, NeverClaimed
<1>4. ASSUME NEW c \in StopRuns, Finalize(c, attempt[c])
      PROVE  /\ ClaimedOnce'
             /\ ~ NeverClaimed(session) => session'.status \in {"closing", "closed"}
  <2>1. session'.status = "closed" /\ session'.closeRun = c
    BY <1>4 DEF Finalize, Closes, Holds, LedgerOK, SessionRecord
  <2>. QED
    BY <2>1, StopIsARun DEF ClaimedOnce, NeverClaimed
<1>5. CASE session' = [session EXCEPT !.lease = Sooner(session.lease, 0)]
  <2>1. session'.status = session.status /\ session'.closeRun = session.closeRun
    BY <1>5 DEF LedgerOK, SessionRecord
  <2>. QED
    BY <2>1 DEF ClaimedOnce, NeverClaimed, LedgerOK, SessionRecord, Statuses
<1>. QED
  BY <1>1, <1>2, <1>3, <1>4, <1>5 DEF SessionStep

LEMMA NextClaimed ==
  TypeInv /\ ClaimedOnce /\ [Next]_vars =>
    ClaimedOnce' /\ (~ NeverClaimed(session) => session'.status \in {"closing", "closed"})
BY StepGood, TypeParts, ClaimedStep DEF Good

LEMMA ClaimedInvariance == Spec => []ClaimedOnce
<1>1. TypeInv /\ ClaimedOnce /\ [Next]_vars => ClaimedOnce'
  BY NextClaimed
<1>. QED
  BY <1>1, InitClaimed, TypeInvariance, PTL DEF Spec

\* However the runs of a session are lost, retried and overlap, no opening gets
\* a session back whose teardown was claimed.
THEOREM NoReopening == Spec => ClaimedNeverReopens
<1>1. /\ TypeInv /\ ClaimedOnce /\ [Next]_vars
      => [~ NeverClaimed(session) => session'.status \in {"closing", "closed"}]_vars
  BY NextClaimed
<1>. QED
  BY <1>1, TypeInvariance, ClaimedInvariance, PTL DEF Spec, ClaimedNeverReopens

-----------------------------------------------------------------------------
(***************************************************************************)
(* The claims are a lease.                                                 *)
(***************************************************************************)

LEMMA LeaseInit == Init => Lease!Init
BY DEF Init, Lease!Init, NoSession

\* Each way of changing the record is a step of the lease, or none.
LEMMA LeaseStep ==
  ASSUME LedgerOK, ClaimedOnce, SessionStep
  PROVE  Lease!Next \/ UNCHANGED Lease!vars
<1>1. CASE UNCHANGED <<now, session>>
  BY <1>1 DEF Lease!vars
<1>2. ASSUME NEW r \in OpenRuns, MayOpen(r), Opened(r, attempt[r])
      PROVE  UNCHANGED Lease!vars
  <2>1. NeverClaimed(session)
    BY <1>2, OpenedOnlyUnclaimed
  <2>2. session.status # "closed"
    BY <2>1 DEF ClaimedOnce
  <2>3. /\ session'.status = "active"
        /\ session'.closeRun = session.closeRun
        /\ session'.lease = session.lease
    BY <1>2 DEF Opened, LedgerOK, SessionRecord
  <2>. QED
    BY <2>2, <2>3 DEF Lease!vars
<1>3. ASSUME NEW c \in StopRuns, NEW cleanup, Claim(c, attempt[c], now, 0, cleanup)
      PROVE  Lease!Acquire(c)
  <2>1. /\ session'.status = "closing"
        /\ session'.closeRun = c
        /\ session'.lease = LeaseLeft(now, cleanup) - 0
    BY <1>3 DEF Claim, LedgerOK, SessionRecord
  <2>2. LeaseLeft(now, cleanup) - 0 \in 0 .. CloseLease
    BY <1>3, TimesAssumption DEF Claim, LeaseLeft, LedgerOK
  <2>3. session.status \in {"active", "closing"}
    BY <1>3 DEF Claim, Claimable
  <2>4. session.closeRun = NoRun \/ session.lease <= 0 \/ session.closeRun = c
    <3>1. CASE session.status = "active"
      BY <3>1 DEF ClaimedOnce, NeverClaimed
    <3>2. CASE session.status = "closing"
      BY <1>3, <3>2 DEF Claim, Claimable, Expired, LedgerOK, SessionRecord
    <3>. QED
      BY <2>3, <3>1, <3>2
  <2>. QED
    BY <2>1, <2>2, <2>3, <2>4 DEF Lease!Acquire, Lease!Free
<1>4. ASSUME NEW c \in StopRuns, Finalize(c, attempt[c])
      PROVE  Lease!Release
  <2>1. /\ session'.status = "closed"
        /\ session'.closeRun = session.closeRun
        /\ session'.lease = -1
    BY <1>4 DEF Finalize, LedgerOK, SessionRecord
  <2>2. session.closeRun # NoRun
    BY <1>4, StopIsARun DEF Finalize, Closes, Holds
  <2>. QED
    BY <2>1, <2>2 DEF Lease!Release
<1>5. CASE session' = [session EXCEPT !.lease = Sooner(session.lease, 0)]
  <2>1. /\ session'.status = session.status
        /\ session'.closeRun = session.closeRun
        /\ session'.lease = Sooner(session.lease, 0)
    BY <1>5 DEF LedgerOK, SessionRecord
  <2>2. CASE session.lease > 0
    BY <2>1, <2>2 DEF Sooner, Lease!Pass, Lease!Next, LedgerOK, SessionRecord
  <2>3. CASE session.lease <= 0
    BY <2>1, <2>3 DEF Sooner, Lease!vars
  <2>4. session.lease \in Int
    BY DEF LedgerOK, SessionRecord
  <2>. QED
    BY <2>2, <2>3, <2>4
<1>. QED
  BY <1>1, <1>2, <1>3, <1>4, <1>5 DEF SessionStep, Lease!Next

\* The ledger implements the lease: at any time one stop has the teardown,
\* another takes it only once the lease of the first is over, and nobody after
\* the session is closed.
THEOREM LedgerIsALease == Spec => ImplementsLease
<1>1. TypeInv /\ ClaimedOnce /\ [Next]_vars => [Lease!Next]_(Lease!vars)
  BY StepGood, TypeParts, LeaseStep DEF Good
<1>. QED
  BY <1>1, LeaseInit, TypeInvariance, ClaimedInvariance, PTL
     DEF Spec, ImplementsLease, Lease!Spec
=============================================================================
