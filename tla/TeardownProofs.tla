--------------------------- MODULE TeardownProofs ---------------------------
(***************************************************************************)
(* What the runs of a session may do to its environment: theorems about    *)
(* Lifecycle, for any number of runs, attempts and faults and any times.   *)
(***************************************************************************)
EXTENDS LifecycleProofs

-----------------------------------------------------------------------------
(***************************************************************************)
(* What a step of the system may do to one run.                            *)
(***************************************************************************)

\* Nothing happens to run r.
Same(r) == /\ step'[r] = step[r] /\ outcome'[r] = outcome[r]
           /\ attempt'[r] = attempt[r] /\ via'[r] = via[r]

\* A stop is created; the emergency workflow does so where it is needed.
StopBegins(c) ==
  /\ Fresh(c)
  /\ step'[c] = "resolve" /\ outcome'[c] = "running" /\ attempt'[c] = 1
  /\ \A d \in StopRuns \ {c} : outcome'[d] = outcome[d]
  /\ via'[c] = Emergency => NeedsRescue

\* A stop ends, and leaves its mark.
StopEnds(c) ==
  /\ Running(c) /\ outcome'[c] \in {"success", "failure"}
  /\ step'[c] = step[c] /\ attempt'[c] = attempt[c] /\ via'[c] = via[c]
  /\ ProvesNoMutation(c) \/ stops' # {}

\* A stop at its step goes on with step s.
Goes(c, s) ==
  \/ step[c] = "resolve" /\ s = "decide" /\ MayResolve(c)
  \/ step[c] = "decide" /\ s \in {"claim", "settle"} /\ MayDecide(c) /\ ~ ClosedBefore
  \/ /\ \/ step[c] = "claim" /\ s = "destroy"
        \/ step[c] = "settle" /\ s = "wait"
     /\ \/ Claim(c, attempt[c], now, 0, IsEmergency(c))
        \/ ClaimHeld(c, now, 0, IsEmergency(c))
  \/ step[c] = "destroy" /\ s = "destroying"
  \/ step[c] = "destroying" /\ s = "wait"
  \/ step[c] = "wait" /\ s = "audit"

StopGoesOn(c) ==
  /\ Running(c) /\ outcome'[c] = "running"
  /\ attempt'[c] = attempt[c] /\ via'[c] = via[c]
  /\ Goes(c, step'[c])

\* A stop that failed is attempted again.
StopReruns(c) ==
  /\ outcome[c] = "failure" /\ outcome'[c] = "running"
  /\ attempt[c] \in Attempts /\ attempt'[c] = attempt[c] + 1
  /\ via'[c] = via[c]
  /\ step'[c] \in {"resolve", JobStart(step[c])}

\* A cleanup is done with its stop.
StopForgotten(c) ==
  /\ OfCleanup(c) /\ outcome[c] = "failure"
  /\ step'[c] = "none" /\ outcome'[c] = "none" /\ via'[c] = NoRun

StopMove(c) ==
  Same(c) \/ StopBegins(c) \/ StopEnds(c) \/ StopGoesOn(c) \/ StopReruns(c)
  \/ StopForgotten(c)

\* Steps of an opening that began to change the environment.
Applying == {"apply", "applying", "provision", "opening", "serve", "auto-stop"}

\* A run is dispatched to change the environment, by an opening that began to or
\* by a stop as it destroys.
ChildBegins(k) ==
  /\ Fresh(k) /\ outcome'[k] = "running" /\ via'[k] = k
  /\ k.action # "close" => step[k.run] \in Applying
  /\ k.action = "close" =>
       /\ UNCHANGED session
       /\ At(k.run, "destroy") /\ k.attempt = attempt[k.run] /\ Holds(k.run)
       /\ IsEmergency(k.run) \/ now < TeardownEnd
       /\ step'[k.run] = "destroying" /\ outcome'[k.run] = "running"

ChildMove(k) ==
  \/ outcome'[k] = outcome[k] /\ via'[k] = via[k]
  \/ Running(k) /\ outcome'[k] \in {"success", "failure"} /\ via'[k] = via[k]
  \/ ChildBegins(k)

\* What may start a run.
ViaMove(r) ==
  \/ via'[r] = via[r]
  \/ via'[r] \in {NoRun, Manual, Emergency}
  \/ r \in Children /\ via'[r] = r
  \/ r \in StopRuns /\ via'[r].run \in OpenRuns \cup CleanupRuns

\* An opening comes to change the environment by a step that says so.
OpenMove(o) == step'[o] \in Applying => step[o] \in Applying \/ o \in mutated'

Moves ==
  /\ \A c \in StopRuns : StopMove(c)
  /\ \A k \in Children : ChildMove(k)
  /\ \A r \in Runs : ViaMove(r)
  /\ \A o \in OpenRuns : OpenMove(o)
  /\ mutated \subseteq mutated' /\ stops \subseteq stops'

\* The runs are of different kinds.
LEMMA Kinds ==
  /\ OpenRuns \subseteq Runs /\ StopRuns \subseteq Runs
  /\ CleanupRuns \subseteq Runs /\ Children \subseteq Runs
  /\ Children \subseteq Dispatches
  /\ OpenRuns \cap StopRuns = {}
  /\ CleanupRuns \cap (OpenRuns \cup StopRuns) = {}
  /\ (OpenRuns \cup StopRuns \cup CleanupRuns) \cap Children = {}
BY RunsAssumption DEF Runs, Dispatches

LEMMA ContinueMoves ==
  ASSUME RunsOK, NEW r \in Runs, Running(r), NEW s, Continue(r, s), mutated \subseteq mutated',
         r \in StopRuns => Goes(r, s),
         r \in OpenRuns /\ s \in Applying => step[r] \in Applying \/ r \in mutated'
  PROVE  Moves
<1>1. \A x \in Runs \ {r} : Same(x)
  BY DEF RunsOK, Continue, Same
<1>2. /\ step'[r] = s /\ outcome'[r] = "running"
      /\ attempt'[r] = attempt[r] /\ via'[r] = via[r] /\ stops' = stops
      /\ outcome' = outcome /\ via' = via
  BY DEF RunsOK, Continue, Running
<1>3. \A c \in StopRuns : StopMove(c)
  BY <1>1, <1>2, Kinds DEF StopMove, StopGoesOn
<1>4. \A k \in Children : ChildMove(k)
  BY <1>2 DEF ChildMove
<1>5. \A x \in Runs : ViaMove(x)
  BY <1>2 DEF ViaMove
<1>6. \A o \in OpenRuns : OpenMove(o)
  BY <1>1, <1>2, Kinds DEF OpenMove, Same
<1>. QED
  BY <1>2, <1>3, <1>4, <1>5, <1>6 DEF Moves

LEMMA ConcludeAllMoves ==
  ASSUME RunsOK, NEW ending, ending \subseteq Runs, \A r \in ending : Running(r),
         NEW how \in {"success", "failure"}, ConcludeAll(ending, how), mutated \subseteq mutated'
  PROVE  Moves
<1>1. /\ \A x \in Runs \ ending : Same(x)
      /\ \A x \in ending : outcome'[x] = how
      /\ step' = step /\ attempt' = attempt /\ via' = via
      /\ stops' = stops \cup Marks(ending, how)
  BY DEF RunsOK, ConcludeAll, Same
<1>2. ASSUME NEW c \in StopRuns PROVE StopMove(c)
  <2>1. CASE c \notin ending
    BY <1>1, <2>1, Kinds DEF StopMove
  <2>2. CASE c \in ending
    <3>1. ProvesNoMutation(c) \/ Marks(ending, how) # {}
      <4>1. CASE how = "success"
        <5>1. "succeeded" \in Marks(ending, how)
          BY <2>2, <4>1 DEF Marks
        <5>. QED
          BY <5>1
      <4>2. CASE how = "failure" /\ ~ ProvesNoMutation(c)
        <5>1. "unproven" \in Marks(ending, how)
          BY <2>2, <4>2 DEF Marks
        <5>. QED
          BY <5>1
      <4>. QED
        BY <4>1, <4>2
    <3>. QED
      BY <1>1, <2>2, <3>1 DEF StopMove, StopEnds
  <2>. QED
    BY <2>1, <2>2
<1>3. \A k \in Children : ChildMove(k)
  BY <1>1, Kinds DEF ChildMove, Same
<1>4. \A x \in Runs : ViaMove(x)
  BY <1>1 DEF ViaMove
<1>5. \A o \in OpenRuns : OpenMove(o)
  BY <1>1, Kinds DEF OpenMove, Same
<1>. QED
  BY <1>1, <1>2, <1>3, <1>4, <1>5 DEF Moves

LEMMA ConcludeMoves ==
  ASSUME RunsOK, NEW r \in Runs, Running(r), NEW how \in {"success", "failure"},
         Conclude(r, how), mutated \subseteq mutated'
  PROVE  Moves
BY ConcludeAllMoves DEF Conclude

LEMMA RefuseMoves ==
  ASSUME RunsOK, NEW r \in Runs, Running(r), Refuse(r)
  PROVE  Moves
BY ConcludeMoves DEF Refuse, evidence

LEMMA LaunchMoves ==
  ASSUME RunsOK, NEW r \in OpenRuns \cup StopRuns, NEW s, NEW how \in {Manual, Emergency},
         Launch(r, s, how), s \notin Applying,
         r \in StopRuns => s = "resolve" /\ (how = Emergency => NeedsRescue)
  PROVE  Moves
<1>0. r \in Runs /\ Fresh(r)
  BY Kinds DEF Launch, Create
<1>1. \A x \in Runs \ {r} : Same(x)
  BY DEF RunsOK, Launch, Create, Same
<1>2. /\ step'[r] = s /\ outcome'[r] = "running"
      /\ attempt'[r] = 1 /\ via'[r] = how /\ stops' = stops
      /\ UNCHANGED <<session, evidence>>
  BY <1>0 DEF RunsOK, Launch, Create
<1>3. \A c \in StopRuns : StopMove(c)
  <2>1. \A c \in StopRuns \ {r} : StopMove(c)
    BY <1>1, Kinds DEF StopMove
  <2>2. r \in StopRuns => StopBegins(r)
    BY <1>0, <1>1, <1>2, Kinds DEF StopBegins, Same
  <2>. QED
    BY <2>1, <2>2 DEF StopMove
<1>4. \A k \in Children : ChildMove(k)
  BY <1>1, Kinds DEF ChildMove, Same
<1>5. \A x \in Runs : ViaMove(x)
  BY <1>1, <1>2 DEF ViaMove, Same
<1>6. \A o \in OpenRuns : OpenMove(o)
  BY <1>1, <1>2, Kinds DEF OpenMove, Same
<1>. QED
  BY <1>2, <1>3, <1>4, <1>5, <1>6 DEF Moves, evidence

LEMMA DispatchMoves ==
  ASSUME RunsOK, NEW r \in OpenRuns \cup StopRuns, Running(r),
         NEW action, NEW inTime, NEW allowed, NEW t \in StopRuns \cup Children,
         NEW first, NEW s,
         DispatchAndWait(r, action, inTime, allowed, t, first, s),
         r \in StopRuns => Goes(r, s),
         r \in OpenRuns => step[r] \in Applying,
         t \in StopRuns => first = "resolve" /\ r \in OpenRuns /\ action = "close",
         t \in Children => t = Dispatch(r, action),
         t \in Children /\ action # "close" => r \in OpenRuns,
         t \in Children /\ action = "close" /\ inTime /\ allowed =>
           /\ At(r, "destroy") /\ s = "destroying" /\ Holds(r)
           /\ IsEmergency(r) \/ now < TeardownEnd
  PROVE  Moves
<1>. DEFINE d == Dispatch(r, action)
<1>0. r \in Runs /\ t \in Runs
  BY Kinds
<1>1. CASE Continue(r, s) /\ UNCHANGED evidence
  BY <1>0, <1>1, ContinueMoves DEF evidence
<1>2. CASE /\ inTime /\ allowed
           /\ Create(t, d)
           /\ step' = [step EXCEPT ![r] = s, ![t] = first]
  <2>1. Fresh(t) /\ t # r
    BY <1>2 DEF Create, Fresh, Running
  <2>2. \A x \in Runs \ {r, t} : Same(x)
    BY <1>2 DEF RunsOK, Create, Same
  <2>3. /\ step'[r] = s /\ outcome'[r] = "running"
        /\ attempt'[r] = attempt[r] /\ via'[r] = via[r]
        /\ step'[t] = first /\ outcome'[t] = "running"
        /\ attempt'[t] = 1 /\ via'[t] = d
        /\ UNCHANGED <<session, evidence, stops>>
    BY <1>0, <1>2, <2>1 DEF RunsOK, Create, Running
  <2>4. t \in StopRuns => StopBegins(t)
    <3>1. t \in StopRuns => \A c \in StopRuns \ {t} : outcome'[c] = outcome[c]
      BY <2>2, Kinds DEF Same
    <3>2. t \in StopRuns => via'[t] # Emergency
      BY <2>3, DispatchType, WindowAssumption DEF Running
    <3>. QED
      BY <2>1, <2>3, <3>1, <3>2 DEF StopBegins
  <2>5. \A c \in StopRuns : StopMove(c)
    <3>1. \A c \in StopRuns \ {r, t} : StopMove(c)
      BY <2>2, Kinds DEF StopMove
    <3>2. r \in StopRuns => StopGoesOn(r)
      BY <2>3 DEF StopGoesOn
    <3>. QED
      BY <2>4, <3>1, <3>2 DEF StopMove
  <2>6. \A k \in Children : ChildMove(k)
    <3>1. \A k \in Children \ {t} : ChildMove(k)
      BY <2>2, <2>3, Kinds DEF ChildMove, Same, Running
    <3>2. t \in Children => ChildBegins(t)
      BY <1>2, <2>1, <2>3 DEF ChildBegins, Dispatch
    <3>. QED
      BY <3>1, <3>2 DEF ChildMove
  <2>7. \A x \in Runs : ViaMove(x)
    BY <2>2, <2>3 DEF ViaMove, Same, Dispatch
  <2>8. \A o \in OpenRuns : OpenMove(o)
    BY <2>2, <2>3, Kinds DEF OpenMove, Same
  <2>. QED
    BY <2>3, <2>5, <2>6, <2>7, <2>8 DEF Moves, evidence
<1>3. CASE Refuse(r)
  BY <1>0, <1>3, RefuseMoves
<1>. QED
  BY <1>1, <1>2, <1>3 DEF DispatchAndWait

LEMMA AwaitMoves ==
  ASSUME RunsOK, NEW r \in Runs, NEW s, NEW action, NEW next,
         Await(r, s, action, next),
         \A t \in Awaited(r, action) : outcome[t] = "success" /\ next => Moves
  PROVE  Moves
<1>1. Running(r) /\ mutated \subseteq mutated'
  BY DEF Await, At, evidence
<1>. QED
  BY <1>1, ConcludeMoves DEF Await

LEMMA GiveUpMoves ==
  ASSUME RunsOK, NEW r \in Runs, NEW s, NEW action, NEW deadline,
         GiveUp(r, s, action, deadline)
  PROVE  Moves
<1>1. Running(r) /\ mutated \subseteq mutated'
  BY DEF GiveUp, At, evidence
<1>2. PICK t \in Awaited(r, action) :
        Running(t) /\ (Conclude(r, "failure") \/ ConcludeAll({r, t}, "failure"))
  BY DEF GiveUp
<1>3. {r, t} \subseteq Runs /\ \A x \in {r, t} : Running(x)
  BY <1>1, <1>2 DEF Awaited, DispatchedBy
<1>. QED
  BY <1>1, <1>2, <1>3, ConcludeMoves, ConcludeAllMoves

\* An opening waits for a run it dispatched.
LEMMA WaitingMoves ==
  ASSUME RunsOK, NEW r \in Runs, NEW s, NEW action, NEW next, NEW deadline,
         Await(r, s, action, next) \/ GiveUp(r, s, action, deadline),
         Running(r) /\ step[r] = s /\ UNCHANGED evidence /\ next => Moves
  PROVE  Moves
<1>1. CASE Await(r, s, action, next)
  <2>1. Running(r) /\ step[r] = s /\ UNCHANGED evidence
    BY <1>1 DEF Await, At, evidence
  <2>. QED
    BY <1>1, <2>1, AwaitMoves
<1>2. CASE GiveUp(r, s, action, deadline)
  BY <1>2, GiveUpMoves
<1>. QED
  BY <1>1, <1>2

LEMMA OpenStepMoves ==
  ASSUME RunsOK, NEW r \in OpenRuns, OpenStep(r)
  PROVE  Moves
<1>0. r \in Runs /\ r \notin StopRuns /\ r \in OpenRuns \cup StopRuns
  BY Kinds
<1>1. CASE AuthorizeOpen(r)
  <2>1. Running(r)
    BY <1>1 DEF AuthorizeOpen, At
  <2>2. CASE UNCHANGED mutated /\ (Continue(r, "record") \/ Conclude(r, "failure"))
    <3>1. "record" \notin Applying
      BY DEF Applying
    <3>. QED
      BY <1>0, <2>1, <2>2, <3>1, ContinueMoves, ConcludeMoves
  <2>3. CASE Refuse(r)
    BY <1>0, <2>1, <2>3, RefuseMoves
  <2>. QED
    BY <1>1, <2>2, <2>3 DEF AuthorizeOpen, Unanswered
<1>2. CASE BeginApply(r)
  BY <1>0, <1>2, ContinueMoves DEF BeginApply, At
<1>3. CASE DispatchApply(r)
  <2>. DEFINE d == Dispatch(r, "apply")
  <2>1. Running(r) /\ step[r] \in Applying
    BY <1>3 DEF DispatchApply, At, Applying
  <2>2. d \in StopRuns \cup Children /\ d \notin StopRuns
    BY <1>0, <2>1, DispatchType, Kinds DEF Running
  <2>3. DispatchAndWait(r, "apply", now < ExpiresAt, TRUE, d, "start", "applying")
    BY <1>3 DEF DispatchApply
  <2>. QED
    BY <1>0, <2>1, <2>2, <2>3, DispatchMoves
<1>4. CASE ClusterBuilt(r)
  <2>1. ASSUME Running(r), step[r] = "applying", UNCHANGED evidence,
               Continue(r, "provision")
        PROVE  Moves
    BY <1>0, <2>1, ContinueMoves DEF evidence, Applying
  <2>. QED
    BY <1>0, <1>4, <2>1, WaitingMoves DEF ClusterBuilt
<1>5. CASE DispatchOpen(r)
  <2>. DEFINE d == Dispatch(r, "open")
              allowed == MayIssue(d, session, now)
  <2>1. Running(r) /\ step[r] \in Applying
    BY <1>5 DEF DispatchOpen, At, Applying
  <2>2. d \in StopRuns \cup Children /\ d \notin StopRuns
    BY <1>0, <2>1, DispatchType, Kinds DEF Running
  <2>3. DispatchAndWait(r, "open", now < ExpiresAt, allowed, d, "start", "opening")
    BY <1>5 DEF DispatchOpen
  <2>. HIDE DEF allowed
  <2>. QED
    BY <1>0, <2>1, <2>2, <2>3, DispatchMoves
<1>6. CASE EnvironmentOpened(r)
  <2>1. ASSUME Running(r), step[r] = "opening", UNCHANGED evidence,
               Continue(r, "serve")
        PROVE  Moves
    BY <1>0, <2>1, ContinueMoves DEF evidence, Applying
  <2>. QED
    BY <1>0, <1>6, <2>1, WaitingMoves DEF EnvironmentOpened
<1>7. CASE TooLateToStop(r)
  BY <1>0, <1>7, RefuseMoves DEF TooLateToStop, At
<1>8. CASE DispatchStop(r)
  <2>1. Running(r) /\ step[r] \in Applying
    BY <1>8 DEF DispatchStop, At, Applying
  <2>2. PICK c \in StopRuns :
          DispatchAndWait(r, "close", TRUE, MayIssue(Dispatch(r, "close"), session, now),
                          c, "resolve", "auto-stop")
    BY <1>8 DEF DispatchStop
  <2>3. c \notin Children
    BY Kinds
  <2>. QED
    BY <1>0, <2>1, <2>2, <2>3, DispatchMoves
<1>9. CASE AutoStopped(r)
  <2>1. ASSUME Running(r), UNCHANGED evidence, Conclude(r, "success") PROVE Moves
    BY <1>0, <2>1, ConcludeMoves DEF evidence
  <2>. QED
    BY <1>0, <1>9, <2>1, WaitingMoves DEF AutoStopped
<1>. QED
  BY <1>1, <1>2, <1>3, <1>4, <1>5, <1>6, <1>7, <1>8, <1>9 DEF OpenStep

LEMMA StopStepMoves ==
  ASSUME RunsOK, LedgerOK, NEW c \in StopRuns, StopStep(c)
  PROVE  Moves
<1>0. c \in Runs /\ c \notin OpenRuns /\ c \in OpenRuns \cup StopRuns
  BY Kinds
<1>1. CASE Resolve(c)
  <2>1. Running(c) /\ step[c] = "resolve"
    BY <1>1 DEF Resolve, At
  <2>2. CASE /\ MayResolve(c)
             /\ UNCHANGED evidence
             /\ Conclude(c, "success") \/ Continue(c, "decide")
    <3>1. Goes(c, "decide") /\ mutated \subseteq mutated'
      BY <2>1, <2>2 DEF Goes, evidence
    <3>. QED
      BY <1>0, <2>1, <2>2, <3>1, ContinueMoves, ConcludeMoves
  <2>. QED
    BY <1>0, <1>1, <2>1, <2>2, RefuseMoves DEF Resolve
<1>2. CASE Decide(c)
  <2>1. Running(c) /\ step[c] = "decide"
    BY <1>2 DEF Decide, At
  <2>. DEFINE s == IF mutated = {} THEN "settle" ELSE "claim"
  <2>2. CASE /\ MayDecide(c)
             /\ IF ClosedBefore THEN Conclude(c, "success") ELSE Continue(c, s)
             /\ UNCHANGED evidence
    <3>1. mutated \subseteq mutated' /\ (~ ClosedBefore => Goes(c, s))
      BY <2>1, <2>2 DEF Goes, evidence
    <3>. HIDE DEF s
    <3>. QED
      BY <1>0, <2>1, <2>2, <3>1, ContinueMoves, ConcludeMoves
  <2>. QED
    BY <1>0, <1>2, <2>1, <2>2, RefuseMoves DEF Decide
<1>3. CASE ClaimTeardown(c)
  <2>1. Running(c) /\ step[c] \in {"claim", "settle"}
    BY <1>3 DEF ClaimTeardown, At
  <2>. DEFINE s == IF step[c] = "settle" THEN "wait" ELSE "destroy"
  <2>2. CASE /\ \/ Claim(c, attempt[c], now, 0, IsEmergency(c))
                \/ ClaimHeld(c, now, 0, IsEmergency(c))
             /\ Continue(c, s)
             /\ UNCHANGED evidence
    <3>1. Goes(c, s) /\ mutated \subseteq mutated'
      BY <2>1, <2>2 DEF Goes, evidence
    <3>. HIDE DEF s
    <3>. QED
      BY <1>0, <2>1, <2>2, <3>1, ContinueMoves
  <2>. QED
    BY <1>0, <1>3, <2>1, <2>2, RefuseMoves DEF ClaimTeardown
<1>4. CASE DispatchDestroy(c)
  <2>. DEFINE d == Dispatch(c, "close")
              allowed == MayIssue(d, session, now) /\ Verified(c, attempt[c])
              inTime == IsEmergency(c) \/ now < TeardownEnd
  <2>1. At(c, "destroy") /\ Running(c) /\ step[c] = "destroy"
    BY <1>4 DEF DispatchDestroy, At
  <2>2. d \in Children /\ d \notin StopRuns /\ d.run = c /\ d.action = "close"
    BY <1>0, <2>1, DispatchType, Kinds DEF Running, Dispatch
  <2>3. allowed => Holds(c)
    BY <2>2, Kinds, RunsAssumption DEF MayIssue, Holds, LedgerOK, SessionRecord
  <2>4. DispatchAndWait(c, "close", inTime, allowed, d, "start", "destroying")
    BY <1>4 DEF DispatchDestroy
  <2>5. Goes(c, "destroying")
    BY <2>1 DEF Goes
  <2>6. inTime => IsEmergency(c) \/ now < TeardownEnd
    OBVIOUS
  <2>. HIDE DEF allowed, inTime
  <2>. QED
    BY <1>0, <2>1, <2>2, <2>3, <2>4, <2>5, <2>6, DispatchMoves
<1>5. CASE EnvironmentDestroyed(c)
  <2>1. CASE Await(c, "destroying", "close", Continue(c, "wait"))
    <3>1. ASSUME Running(c), step[c] = "destroying", UNCHANGED evidence,
                 Continue(c, "wait")
          PROVE  Moves
      BY <1>0, <3>1, ContinueMoves DEF evidence, Goes
    <3>. QED
      BY <1>0, <2>1, <3>1, WaitingMoves
  <2>2. CASE GiveUp(c, "destroying", "close", TeardownEnd)
    BY <1>0, <2>2, GiveUpMoves
  <2>. QED
    BY <1>5, <2>1, <2>2 DEF EnvironmentDestroyed
<1>6. CASE AuditAndFinalize(c)
  <2>1. Running(c)
    BY <1>6 DEF AuditAndFinalize, At
  <2>2. CASE Conclude(c, "success") /\ UNCHANGED evidence
    BY <1>0, <2>1, <2>2, ConcludeMoves DEF evidence
  <2>. QED
    BY <1>0, <1>6, <2>1, <2>2, RefuseMoves DEF AuditAndFinalize
<1>. QED
  BY <1>1, <1>2, <1>3, <1>4, <1>5, <1>6 DEF StopStep

LEMMA ChildStepMoves ==
  ASSUME RunsOK, NEW k \in Children, ChildStep(k)
  PROVE  Moves
<1>0. k \in Runs /\ k \notin OpenRuns /\ k \notin StopRuns
  BY Kinds
<1>1. Running(k) /\ mutated \subseteq mutated'
  BY DEF ChildStep, StartWork, FinishWork, At, Refuse, evidence
<1>2. \/ Continue(k, "work")
      \/ \E how \in {"success", "failure"} : Conclude(k, how)
  BY DEF ChildStep, StartWork, FinishWork, Refuse
<1>. QED
  BY <1>0, <1>1, <1>2, ContinueMoves, ConcludeMoves

LEMMA FaultMoves ==
  ASSUME RunsOK, NEW r \in Runs, Fault(r)
  PROVE  Moves
BY ConcludeMoves DEF Fault, Unanswered

LEMMA RerunMoves ==
  ASSUME RunsOK, NEW r \in Runs, Rerun(r)
  PROVE  Moves
<1>1. \A x \in Runs \ {r} : Same(x)
  BY DEF RunsOK, Rerun, Same
<1>2. /\ outcome[r] = "failure" /\ outcome'[r] = "running" /\ attempt[r] \in Attempts
      /\ attempt'[r] = attempt[r] + 1 /\ via'[r] = via[r]
      /\ r \in OpenRuns \cup StopRuns
      /\ UNCHANGED <<ledgerVars, via, stops, evidence>>
  BY DEF RunsOK, Rerun, Started
<1>3. step'[r] \in {JobStart(step[r]), IF r \in OpenRuns THEN "guard" ELSE "resolve"}
  BY DEF RunsOK, Rerun
<1>4. \A c \in StopRuns : StopMove(c)
  BY <1>1, <1>2, <1>3, Kinds DEF StopMove, StopReruns
<1>5. \A k \in Children : ChildMove(k)
  BY <1>1, <1>2, Kinds DEF ChildMove, Same
<1>6. \A x \in Runs : ViaMove(x)
  BY <1>2 DEF ViaMove
<1>7. \A o \in OpenRuns : OpenMove(o)
  <2>1. JobStart(step[r]) \in Applying => step[r] \in Applying
    BY DEF JobStart, Applying
  <2>2. r \in OpenRuns /\ step'[r] \in Applying => step[r] \in Applying
    BY <1>3, <2>1 DEF Applying
  <2>. QED
    BY <1>1, <2>2, Kinds DEF OpenMove, Same
<1>. QED
  BY <1>2, <1>4, <1>5, <1>6, <1>7 DEF Moves, evidence

\* The run that a cleanup waits for is a stop.
Origins ==
  \A t \in Runs : Dispatched(t) =>
     \/ t \in Children /\ via[t] = t
     \/ t \in StopRuns /\ via[t].run \in OpenRuns \cup CleanupRuns

LEMMA CleanedUpMoves ==
  ASSUME RunsOK, Origins, NEW q \in CleanupRuns, CleanedUp(q)
  PROVE  Moves
<1>1. PICK c \in Awaited(q, "cleanup-close") :
        /\ outcome[c] = "failure"
        /\ step' = [step EXCEPT ![q] = "none", ![c] = "none"]
        /\ outcome' = [outcome EXCEPT ![q] = "none", ![c] = "none"]
        /\ attempt' = [attempt EXCEPT ![q] = 0, ![c] = 0]
        /\ via' = [via EXCEPT ![q] = NoRun, ![c] = NoRun]
  BY DEF CleanedUp
<1>2. c \in Runs /\ q \in Runs /\ Dispatched(c)
      /\ via[c].run = q /\ via[c].action = "cleanup-close"
  BY <1>1, Kinds DEF Awaited, DispatchedBy
<1>3. c \in StopRuns
  BY <1>2, Kinds DEF Origins, Children
<1>4. \A x \in Runs \ {q, c} : Same(x)
  BY <1>1 DEF RunsOK, Same
<1>5. /\ outcome[c] = "failure"
      /\ step'[c] = "none" /\ outcome'[c] = "none" /\ via'[c] = NoRun
      /\ UNCHANGED <<session, stops, evidence>>
      /\ via'[q] \in {NoRun}
  BY <1>1, <1>2 DEF RunsOK, CleanedUp
<1>6. \A x \in StopRuns : StopMove(x)
  BY <1>2, <1>3, <1>4, <1>5, Kinds DEF StopMove, StopForgotten, OfCleanup
<1>7. \A k \in Children : ChildMove(k)
  BY <1>3, <1>4, Kinds DEF ChildMove, Same
<1>8. \A x \in Runs : ViaMove(x)
  BY <1>4, <1>5 DEF ViaMove, Same
<1>9. \A o \in OpenRuns : OpenMove(o)
  BY <1>3, <1>4, Kinds DEF OpenMove, Same
<1>. QED
  BY <1>5, <1>6, <1>7, <1>8, <1>9 DEF Moves, evidence

LEMMA LaunchCleanupMoves ==
  ASSUME RunsOK, NEW q \in CleanupRuns, NEW c \in StopRuns, LaunchCleanup(q, c)
  PROVE  Moves
<1>. DEFINE d == [action |-> "cleanup-close", run |-> q, attempt |-> 1]
<1>0. q \in Runs /\ c \in Runs /\ q # c /\ d \in Dispatches
  BY Kinds, TimesAssumption DEF Dispatches, Attempts
<1>1. \A x \in Runs \ {q, c} : Same(x)
  BY DEF RunsOK, LaunchCleanup, Same
<1>2. /\ Fresh(c) /\ step'[c] = "resolve" /\ outcome'[c] = "running"
      /\ attempt'[c] = 1 /\ via'[c] = d /\ via'[q] = via[q]
      /\ UNCHANGED <<session, stops, evidence>>
  BY <1>0 DEF RunsOK, LaunchCleanup
<1>3. \A x \in StopRuns : StopMove(x)
  <2>1. \A x \in StopRuns \ {c} : Same(x)
    BY <1>1, Kinds
  <2>2. StopBegins(c)
    BY <1>0, <1>2, <2>1, WindowAssumption DEF StopBegins, Same
  <2>. QED
    BY <2>1, <2>2 DEF StopMove
<1>4. \A k \in Children : ChildMove(k)
  BY <1>1, Kinds DEF ChildMove, Same
<1>5. \A x \in Runs : ViaMove(x)
  BY <1>1, <1>2 DEF ViaMove, Same
<1>6. \A o \in OpenRuns : OpenMove(o)
  BY <1>1, Kinds DEF OpenMove, Same
<1>. QED
  BY <1>2, <1>3, <1>4, <1>5, <1>6 DEF Moves, evidence

LEMMA TickMoves ==
  ASSUME RunsOK, Tick
  PROVE  Moves
<1>1. /\ UNCHANGED <<outcome, attempt, via, stops, evidence>>
      /\ \A x \in Runs : step'[x] = IF ToAudit(x) THEN "audit" ELSE step[x]
  BY DEF Tick
<1>2. ASSUME NEW c \in StopRuns PROVE StopMove(c)
  <2>1. CASE ToAudit(c)
    BY <1>1, <2>1, Kinds DEF ToAudit, At, Running, StopMove, StopGoesOn, Goes
  <2>2. CASE ~ ToAudit(c)
    BY <1>1, <2>2, Kinds DEF StopMove, Same
  <2>. QED
    BY <2>1, <2>2
<1>3. \A o \in OpenRuns : OpenMove(o)
  BY <1>1, Kinds DEF OpenMove, Applying
<1>. QED
  BY <1>1, <1>2, <1>3 DEF Moves, ChildMove, ViaMove, evidence

LEMMA StepMoves ==
  ASSUME RunsOK, LedgerOK, Origins, [Next]_vars
  PROVE  Moves
<1>1. CASE \E r \in OpenRuns : LaunchOpen(r)
  <2>1. PICK r \in OpenRuns : Launch(r, "guard", Manual)
    BY <1>1 DEF LaunchOpen
  <2>. QED
    BY <2>1, LaunchMoves, Kinds DEF Applying
<1>2. CASE \E c \in StopRuns : LaunchManualStop(c)
  <2>1. PICK c \in StopRuns : Launch(c, "resolve", Manual)
    BY <1>2 DEF LaunchManualStop
  <2>. QED
    BY <2>1, LaunchMoves, WindowAssumption DEF Applying
<1>3. CASE EmergencyStop
  <2>1. PICK c \in StopRuns : NeedsRescue /\ Launch(c, "resolve", Emergency)
    BY <1>3 DEF EmergencyStop, LaunchEmergencyStop
  <2>. QED
    BY <2>1, LaunchMoves DEF Applying
<1>4. CASE Cleanup
  BY <1>4, LaunchCleanupMoves DEF Cleanup
<1>5. CASE \E r \in Runs : RunStep(r)
  BY <1>5, OpenStepMoves, StopStepMoves, CleanedUpMoves, ChildStepMoves DEF RunStep
<1>6. CASE \E r \in Runs : Fault(r) \/ Rerun(r)
  BY <1>6, FaultMoves, RerunMoves
<1>7. CASE Tick
  BY <1>7, TickMoves
<1>8. CASE UNCHANGED vars
  BY <1>8 DEF vars, Moves, StopMove, Same, ChildMove, ViaMove, OpenMove
<1>. QED
  BY <1>1, <1>2, <1>3, <1>4, <1>5, <1>6, <1>7, <1>8 DEF Next

-----------------------------------------------------------------------------
(***************************************************************************)
(* A stop goes past its first job when the session is over.                *)
(***************************************************************************)

\* Steps of a stop past its first job.
Entitled == StopSteps \ {"resolve"}
\* A stop gets there when the session is over.
AfterTheEnd == \A c \in StopRuns : step[c] \in Entitled => now >= ExpiresAt

\* A step gets no stop past its first job before the session is over.
StopsEntitled ==
  \A c \in StopRuns :
    step'[c] \in Entitled => step[c] \in Entitled \/ now >= ExpiresAt

LEMMA EntitledSteps ==
  Entitled = {"decide", "claim", "settle", "destroy", "destroying", "wait", "audit"}
BY DEF Entitled, StopSteps

LEMMA MovesEntitled ==
  ASSUME RunsOK, LedgerOK, Moves
  PROVE  StopsEntitled
<1>1. ASSUME NEW c \in StopRuns, step'[c] \in Entitled
      PROVE  step[c] \in Entitled \/ now >= ExpiresAt
  <2>1. CASE Goes(c, step'[c])
    <3>1. MayResolve(c) => now >= ExpiresAt
      BY TimesAssumption, WindowAssumption
         DEF MayResolve, EmergencyWindow, StopWindow, LedgerOK
    <3>. QED
      BY <1>1, <2>1, <3>1, EntitledSteps DEF Goes
  <2>2. CASE step'[c] \in {"resolve", "none", step[c]}
    BY <1>1, <2>2, EntitledSteps
  <2>3. CASE step'[c] = JobStart(step[c])
    BY <1>1, <2>3, EntitledSteps DEF JobStart
  <2>. QED
    BY <2>1, <2>2, <2>3 DEF Moves, StopMove, Same, StopBegins, StopEnds, StopGoesOn,
       StopReruns, StopForgotten
<1>. QED
  BY <1>1 DEF StopsEntitled

LEMMA AfterTheEndStep ==
  ASSUME LedgerOK, AfterTheEnd, StopsEntitled, SessionStep
  PROVE  AfterTheEnd'
<1>1. now' >= now
  BY TimesAssumption DEF SessionStep, LedgerOK
<1>. QED
  BY <1>1, TimesAssumption DEF AfterTheEnd, StopsEntitled, LedgerOK, SessionStep

-----------------------------------------------------------------------------
(***************************************************************************)
(* One stop destroys at a time, holds the lease, and leaves its marks.      *)
(***************************************************************************)

\* A run that nobody started was started by nobody.
FreshBlank == \A c \in StopRuns : Fresh(c) => via[c] = NoRun

LEMMA FreshBlankStep ==
  ASSUME FreshBlank, Moves
  PROVE  FreshBlank'
<1>1. ASSUME NEW c \in StopRuns, outcome'[c] = "none" PROVE via'[c] = NoRun
  BY <1>1 DEF Moves, StopMove, Same, StopBegins, StopEnds, StopGoesOn,
     StopReruns, StopForgotten, FreshBlank, Fresh
<1>. QED
  BY <1>1 DEF FreshBlank, Fresh

LEMMA OriginsStep ==
  ASSUME RunsOK, Origins, Moves
  PROVE  Origins'
<1>1. ASSUME NEW r \in Runs, via'[r] \in Dispatches
      PROVE  \/ r \in Children /\ via'[r] = r
             \/ r \in StopRuns /\ via'[r].run \in OpenRuns \cup CleanupRuns
  <2>1. via'[r] \notin {NoRun, Manual, Emergency}
    BY <1>1, RunsAssumption, WindowAssumption
  <2>. QED
    BY <1>1, <2>1 DEF Moves, ViaMove, Origins, Dispatched
<1>. QED
  BY <1>1 DEF Origins, Dispatched

\* An emergency stop stays one.
LEMMA StillEmergency ==
  ASSUME FreshBlank, Moves, NEW c \in StopRuns
  PROVE  /\ IsEmergency(c) => IsEmergency(c)'
         /\ IsEmergency(c)' => IsEmergency(c) \/ StopBegins(c)
<1>1. Emergency \notin Dispatches /\ Emergency # NoRun
  BY WindowAssumption
<1>2. IsEmergency(c) => ~ Fresh(c) /\ ~ OfCleanup(c)
  BY <1>1 DEF FreshBlank, IsEmergency, OfCleanup, Dispatched
<1>. QED
  BY <1>1, <1>2 DEF Moves, StopMove, Same, StopBegins, StopEnds, StopGoesOn,
     StopReruns, StopForgotten, IsEmergency

\* Steps between the decision of a stop and the end of its teardown.
Claims(c) == Running(c) /\ step[c] \in {"claim", "settle", "destroy", "destroying"}
OneClaims == \A c, d \in StopRuns : Claims(c) /\ Claims(d) => c = d

\* A stop comes to claim by its decision, which no other stop may take then.
LEMMA ClaimsStep ==
  ASSUME Moves, NEW c \in StopRuns, Claims(c)'
  PROVE  \/ Claims(c)
         \/ At(c, "decide") /\ MayDecide(c) /\ ~ ClosedBefore
<1>1. JobStart(step[c]) \notin {"claim", "settle", "destroy", "destroying"}
  BY DEF JobStart
<1>2. step'[c] \in {"claim", "settle", "destroy", "destroying"} /\ outcome'[c] = "running"
  BY DEF Claims, Running
<1>. QED
  BY <1>1, <1>2 DEF Moves, StopMove, Same, StopBegins, StopEnds, StopGoesOn, Goes,
     StopReruns, StopForgotten, Claims, At, Running

LEMMA OneClaimsStep ==
  ASSUME OneClaims, Moves
  PROVE  OneClaims'
<1>1. ASSUME NEW c \in StopRuns, NEW d \in StopRuns, Claims(c)', Claims(d)'
      PROVE  c = d
  <2>1. Claims(c) /\ Claims(d) => c = d
    BY DEF OneClaims
  <2>2. ASSUME NEW x \in StopRuns, NEW y \in StopRuns,
               At(x, "decide"), MayDecide(x), ~ ClosedBefore, Running(y)
        PROVE  x = y
    BY <2>2 DEF MayDecide
  <2>. QED
    BY <1>1, <2>1, <2>2, ClaimsStep DEF Claims, At
<1>. QED
  BY <1>1 DEF OneClaims

\* A normal stop that begins to destroy has just taken the lease.
LEMMA LeaseTaken ==
  ASSUME NEW c \in StopRuns, ~ IsEmergency(c),
         ClaimHeld(c, now, 0, IsEmergency(c))
  PROVE  FALSE
BY DEF ClaimHeld, Claimable, Holds

LEMMA DestroyerStep ==
  ASSUME RunsOK, LedgerOK, ClaimedOnce, FreshBlank, OneClaims,
         DestroyerHoldsLease, Moves, SessionStep
  PROVE  DestroyerHoldsLease'
<1>. SUFFICES ASSUME NEW c \in StopRuns, outcome'[c] = "running",
                     step'[c] \in {"destroy", "destroying"},
                     ~ IsEmergency(c)', session'.lease > 0
              PROVE  /\ session'.status = "closing" /\ session'.closeRun = c
                     /\ session'.closeAttempt = attempt'[c]
  BY DEF DestroyerHoldsLease, Closes, Holds, Running
<1>1. /\ ~ IsEmergency(c)
      /\ attempt'[c] = attempt[c]
      /\ \/ Running(c) /\ step[c] \in {"destroy", "destroying"}
         \/ At(c, "claim") /\ Claim(c, attempt[c], now, 0, IsEmergency(c))
  <2>1. ~ IsEmergency(c)
    BY StillEmergency
  <2>2. JobStart(step[c]) \notin {"destroy", "destroying"}
    BY DEF JobStart
  <2>. QED
    BY <2>1, <2>2, LeaseTaken DEF Moves, StopMove, Same, StopBegins, StopEnds, StopGoesOn,
       Goes, StopReruns, StopForgotten, At, Running
<1>2. CASE Claim(c, attempt[c], now, 0, IsEmergency(c))
  BY <1>1, <1>2 DEF Claim, LedgerOK, SessionRecord
<1>3. CASE Running(c) /\ step[c] \in {"destroy", "destroying"}
  <2>1. session.lease > 0 => Closes(c, attempt[c])
    BY <1>1, <1>3 DEF DestroyerHoldsLease
  <2>2. ASSUME session.lease > 0, session'.status = session.status,
               session'.closeRun = session.closeRun,
               session'.closeAttempt = session.closeAttempt
        PROVE  /\ session'.status = "closing" /\ session'.closeRun = c
               /\ session'.closeAttempt = attempt'[c]
    BY <1>1, <2>1, <2>2 DEF Closes, Holds
  <2>3. CASE UNCHANGED session
    BY <2>2, <2>3
  <2>4. ASSUME NEW r \in OpenRuns, MayOpen(r), Opened(r, attempt[r]) PROVE FALSE
    <3>1. session'.lease = session.lease /\ session.lease > 0
      BY <2>4 DEF Opened, LedgerOK, SessionRecord
    <3>2. NeverClaimed(session)
      BY <2>4, OpenedOnlyUnclaimed
    <3>. QED
      BY <2>1, <3>1, <3>2, StopIsARun DEF Closes, Holds, NeverClaimed
  <2>5. ASSUME NEW d \in StopRuns, At(d, "claim") \/ At(d, "settle") PROVE FALSE
    BY <1>3, <2>5 DEF OneClaims, Claims, At
  <2>6. ASSUME NEW d \in StopRuns, Finalize(d, attempt[d]) PROVE FALSE
    BY <2>6 DEF Finalize, LedgerOK, SessionRecord
  <2>7. CASE session' = [session EXCEPT !.lease = Sooner(session.lease, 0)]
    <3>1. session.lease \in Int /\ session'.lease = Sooner(session.lease, 0)
      BY <2>7 DEF LedgerOK, SessionRecord
    <3>2. session.lease > 0
      BY <3>1 DEF Sooner
    <3>. QED
      BY <2>2, <2>7, <3>2 DEF LedgerOK, SessionRecord
  <2>. QED
    BY <2>3, <2>4, <2>5, <2>6, <2>7 DEF SessionStep
<1>. QED
  BY <1>1, <1>2, <1>3

\* What an opening that began to change the environment left on record.
OpeningsMarked == \A o \in OpenRuns : step[o] \in Applying => o \in mutated

LEMMA OpeningsMarkedStep ==
  ASSUME OpeningsMarked, Moves
  PROVE  OpeningsMarked'
BY DEF OpeningsMarked, Moves, OpenMove

CloseChildren == {k \in Children : k.action = "close" /\ ~ Fresh(k)}
\* A run that changes the environment is named after its dispatch.
NamedAfter == \A k \in Children : ~ Fresh(k) => via[k] = k
\* A stop that destroyed is going on, or left its mark.
LeavesMark ==
  \A k \in CloseChildren :
    stops # {} \/ (Running(k.run) /\ step[k.run] \in {"destroying", "wait", "audit"})

LEMMA NamedAfterStep ==
  ASSUME NamedAfter, Moves
  PROVE  NamedAfter'
<1>1. ASSUME NEW k \in Children, outcome'[k] # "none" PROVE via'[k] = k
  BY <1>1 DEF Moves, ChildMove, ChildBegins, NamedAfter, Fresh, Running
<1>. QED
  BY <1>1 DEF NamedAfter, Fresh

LEMMA CloseChildStep ==
  ASSUME Moves, NEW k \in CloseChildren'
  PROVE  /\ k \in Children /\ k.run \in StopRuns /\ k.action = "close"
         /\ k \in CloseChildren \/ ChildBegins(k)
<1>1. k \in Children /\ k.action = "close" /\ outcome'[k] # "none"
  BY DEF CloseChildren, Fresh
<1>2. k.run \in StopRuns
  BY <1>1 DEF Children
<1>3. k \in CloseChildren \/ ChildBegins(k)
  BY <1>1 DEF Moves, ChildMove, CloseChildren, Fresh, Running
<1>. QED
  BY <1>1, <1>2, <1>3

LEMMA CloseChildRun == \A k \in CloseChildren : k \in Children /\ k.run \in StopRuns
BY DEF CloseChildren, Children

\* A stop that dispatched its teardown has no proof that nothing was destroyed.
LEMMA NoProof ==
  ASSUME NamedAfter, NEW k \in CloseChildren,
         step[k.run] \in {"destroying", "wait", "audit"}
  PROVE  ~ ProvesNoMutation(k.run)
<1>1. k \in Children /\ via[k] = k /\ k.action = "close"
  BY DEF CloseChildren, NamedAfter
<1>2. k \in DispatchedBy(k.run, "close")
  BY <1>1, Kinds DEF DispatchedBy, Dispatched
<1>. QED
  BY <1>2 DEF ProvesNoMutation

LEMMA LeavesMarkStep ==
  ASSUME NamedAfter, LeavesMark, Moves
  PROVE  LeavesMark'
<1>1. ASSUME NEW k \in CloseChildren'
      PROVE  \/ stops' # {}
             \/ outcome'[k.run] = "running" /\ step'[k.run] \in {"destroying", "wait", "audit"}
  <2>1. CASE ChildBegins(k)
    BY <2>1, CloseChildStep DEF ChildBegins
  <2>2. CASE stops # {}
    BY <2>2 DEF Moves
  <2>3. ASSUME NEW c \in StopRuns, Running(c), step[c] \in {"destroying", "wait", "audit"},
               ~ ProvesNoMutation(c)
        PROVE  \/ stops' # {}
               \/ outcome'[c] = "running" /\ step'[c] \in {"destroying", "wait", "audit"}
    BY <2>3 DEF Moves, StopMove, Same, StopBegins, StopEnds, StopGoesOn, Goes,
       StopReruns, StopForgotten, Running, Fresh
  <2>. QED
    BY <2>1, <2>2, <2>3, CloseChildStep, NoProof DEF LeavesMark
<1>. QED
  BY <1>1 DEF LeavesMark, Running

\* What was dispatched by an opening had its mark before.
OpenedMarked == \A k \in Children : ~ Fresh(k) /\ k.run \in OpenRuns => k.run \in mutated

LEMMA OpenedMarkedStep ==
  ASSUME OpeningsMarked, OpenedMarked, Moves
  PROVE  OpenedMarked'
<1>1. ASSUME NEW k \in Children, outcome'[k] # "none", k.run \in OpenRuns
      PROVE  k.run \in mutated
  <2>1. k.action # "close"
    BY <1>1, Kinds DEF Children
  <2>2. ~ Fresh(k) \/ ChildBegins(k)
    BY <1>1 DEF Moves, ChildMove, Fresh, Running
  <2>. QED
    BY <1>1, <2>1, <2>2 DEF ChildBegins, OpeningsMarked, OpenedMarked
<1>2. mutated \subseteq mutated'
  BY DEF Moves
<1>. QED
  BY <1>1, <1>2 DEF OpenedMarked, Fresh

LEMMA MarksAreEvidence ==
  LeavesMark /\ OpenedMarked => EvidenceComplete
<1>. SUFFICES ASSUME LeavesMark, OpenedMarked, NEW k \in Children, ~ Fresh(k)
              PROVE  LeftEvidence(k)
  BY DEF EvidenceComplete, Created
<1>1. CASE k.run \in OpenRuns
  BY <1>1 DEF OpenedMarked, LeftEvidence
<1>2. CASE k.run \notin OpenRuns
  <2>1. k \in CloseChildren
    BY <1>2 DEF Children, CloseChildren
  <2>. QED
    BY <1>2, <2>1 DEF LeavesMark, LeftEvidence
<1>. QED
  BY <1>1, <1>2

\* What the stops know of each other, of the openings and of the record.
TeardownInv ==
  /\ FreshBlank /\ Origins /\ AfterTheEnd
  /\ OneClaims /\ DestroyerHoldsLease
  /\ OpeningsMarked /\ OpenedMarked /\ NamedAfter /\ LeavesMark

LEMMA InitTeardown == Init => TeardownInv
<1>. SUFFICES ASSUME Init PROVE TeardownInv
  OBVIOUS
<1>1. \A r \in Runs : step[r] = "none" /\ outcome[r] = "none" /\ via[r] = NoRun
  BY DEF Init
<1>2. NoRun \notin Dispatches
  BY RunsAssumption
<1>3. FreshBlank /\ Origins
  BY <1>1, <1>2, Kinds DEF FreshBlank, Origins, Dispatched
<1>4. AfterTheEnd /\ OpeningsMarked
  BY <1>1, Kinds, EntitledSteps DEF AfterTheEnd, OpeningsMarked, Applying
<1>5. OneClaims /\ DestroyerHoldsLease
  BY <1>1, Kinds DEF OneClaims, Claims, DestroyerHoldsLease, Running
<1>6. \A k \in Children : Fresh(k)
  BY <1>1, Kinds DEF Fresh
<1>7. OpenedMarked /\ NamedAfter /\ LeavesMark
  BY <1>6 DEF OpenedMarked, NamedAfter, LeavesMark, CloseChildren
<1>. QED
  BY <1>3, <1>4, <1>5, <1>7 DEF TeardownInv

LEMMA NextMoves ==
  TypeInv /\ Origins /\ [Next]_vars => RunsOK /\ LedgerOK /\ Moves /\ SessionStep
BY StepGood, StepMoves, TypeParts DEF Good

LEMMA NextTeardown ==
  TypeInv /\ ClaimedOnce /\ TeardownInv /\ [Next]_vars => TeardownInv'
<1>. SUFFICES ASSUME TypeInv, ClaimedOnce, TeardownInv, [Next]_vars
              PROVE  TeardownInv'
  OBVIOUS
<1>1. RunsOK /\ LedgerOK /\ Moves /\ SessionStep
  BY NextMoves DEF TeardownInv
<1>2. FreshBlank' /\ Origins'
  BY <1>1, FreshBlankStep, OriginsStep DEF TeardownInv
<1>3. AfterTheEnd'
  BY <1>1, MovesEntitled, AfterTheEndStep DEF TeardownInv
<1>4. OneClaims'
  BY <1>1, OneClaimsStep DEF TeardownInv
<1>5. DestroyerHoldsLease'
  BY <1>1, DestroyerStep DEF TeardownInv
<1>6. OpeningsMarked' /\ OpenedMarked'
  BY <1>1, OpeningsMarkedStep, OpenedMarkedStep DEF TeardownInv
<1>7. NamedAfter' /\ LeavesMark'
  BY <1>1, NamedAfterStep, LeavesMarkStep DEF TeardownInv
<1>. QED
  BY <1>2, <1>3, <1>4, <1>5, <1>6, <1>7 DEF TeardownInv

LEMMA TeardownInvariance == Spec => []TeardownInv
BY InitTeardown, NextTeardown, TypeInvariance, ClaimedInvariance, PTL DEF Spec

\* Two stops never destroy at a time, whatever is lost and rerun: each looks
\* for the others before it claims, and goes back to that look when it is rerun.
THEOREM OneTeardownAtATime == Spec => []OneTeardown
<1>1. TeardownInv => OneTeardown
  BY DEF TeardownInv, OneClaims, Claims, OneTeardown, Destroys
<1>. QED
  BY <1>1, TeardownInvariance, PTL

\* A normal stop that destroys under a lease that is not over is on record with
\* its attempt, and can record its outcome and close: whoever claims next must
\* wait until it ended.
THEOREM TheDestroyerHoldsTheLease == Spec => []DestroyerHoldsLease
<1>1. TeardownInv => DestroyerHoldsLease
  BY DEF TeardownInv
<1>. QED
  BY <1>1, TeardownInvariance, PTL

\* Whatever changed the environment is on record for the reviews of the day,
\* whichever runs were lost or rerun: an opening that built is among those that
\* began to, and no stop that destroyed looks as if it had changed nothing.
THEOREM EvidenceIsComplete == Spec => []EvidenceComplete
<1>1. TeardownInv => EvidenceComplete
  BY MarksAreEvidence DEF TeardownInv
<1>. QED
  BY <1>1, TeardownInvariance, PTL

-----------------------------------------------------------------------------
(***************************************************************************)
(* The lease of a normal stop outlives its day.                            *)
(***************************************************************************)

\* A lease that was taken after the session lasts for its day.
LeaseLasts == session.status = "closing" => session.lease >= CleanupDeadline - now

LEMMA LeaseLastsStep ==
  ASSUME CloseLease >= CleanupDeadline - ExpiresAt,
         LedgerOK, AfterTheEnd, LeaseLasts, SessionStep
  PROVE  LeaseLasts'
<1>1. CASE UNCHANGED <<now, session>>
  BY <1>1 DEF LeaseLasts
<1>2. ASSUME NEW r \in OpenRuns, Opened(r, attempt[r]) PROVE LeaseLasts'
  BY <1>2 DEF Opened, LeaseLasts, LedgerOK, SessionRecord
<1>3. ASSUME NEW c \in StopRuns, At(c, "claim") \/ At(c, "settle"),
             UNCHANGED now, NEW cleanup,
             Claim(c, attempt[c], now, 0, cleanup)
      PROVE  LeaseLasts'
  <2>1. now >= ExpiresAt
    BY <1>3, EntitledSteps DEF AfterTheEnd, At
  <2>2. session'.lease = LeaseLeft(now, cleanup) - 0
    BY <1>3 DEF Claim, LedgerOK, SessionRecord
  <2>3. LeaseLeft(now, cleanup) >= CleanupDeadline - now
    BY <2>1, TimesAssumption DEF LeaseLeft, LedgerOK
  <2>4. LeaseLeft(now, cleanup) \in Int /\ now \in Int /\ CleanupDeadline \in Int
    BY TimesAssumption DEF LeaseLeft, LedgerOK
  <2>. QED
    BY <1>3, <2>2, <2>3, <2>4 DEF LeaseLasts
<1>4. ASSUME NEW c \in StopRuns, Finalize(c, attempt[c]) PROVE LeaseLasts'
  BY <1>4 DEF Finalize, LeaseLasts, LedgerOK, SessionRecord
<1>5. CASE /\ now' = IF now < CleanupDeadline THEN now + 1 ELSE now
           /\ session' = [session EXCEPT !.lease = Sooner(session.lease, 0)]
  <2>1. session'.status = session.status /\ session'.lease = Sooner(session.lease, 0)
    BY <1>5 DEF LedgerOK, SessionRecord
  <2>2. session.lease \in Int /\ now \in Int /\ CleanupDeadline \in Int
    BY TimesAssumption DEF LedgerOK, SessionRecord
  <2>. QED
    BY <1>5, <2>1, <2>2 DEF LeaseLasts, Sooner
<1>. QED
  BY <1>1, <1>2, <1>3, <1>4, <1>5 DEF SessionStep

LEMMA TakeoverStep ==
  ASSUME LedgerOK, ClaimedOnce, LeaseLasts, SessionStep, NEW c \in StopRuns,
         ~ NeverClaimed(session), session.closeRun # c, session'.closeRun = c
  PROVE  IsEmergency(c)
<1>1. PICK d \in StopRuns : Claim(d, attempt[d], now, 0, IsEmergency(d))
  BY DEF SessionStep, Opened, Finalize, LedgerOK, SessionRecord
<1>2. d = c
  BY <1>1 DEF Claim, LedgerOK, SessionRecord
<1>3. (session.status = "closing" /\ session.lease <= 0) \/ IsEmergency(c)
  BY <1>1, <1>2 DEF Claim, Claimable, Expired, ClaimedOnce, LedgerOK, SessionRecord
<1>4. now < CleanupDeadline \/ IsEmergency(c)
  BY <1>1, <1>2 DEF Claim
<1>5. session.lease \in Int /\ now \in Int /\ CleanupDeadline \in Int
  BY TimesAssumption DEF LedgerOK, SessionRecord
<1>. QED
  BY <1>3, <1>4, <1>5 DEF LeaseLasts

LEMMA LeaseLastsInvariance ==
  ASSUME CloseLease >= CleanupDeadline - ExpiresAt
  PROVE  Spec => []LeaseLasts
<1>1. Init => LeaseLasts
  BY DEF Init, NoSession, LeaseLasts
<1>2. TypeInv /\ TeardownInv /\ LeaseLasts /\ [Next]_vars => LeaseLasts'
  BY NextMoves, LeaseLastsStep DEF TeardownInv
<1>. QED
  BY <1>1, <1>2, TypeInvariance, TeardownInvariance, PTL DEF Spec

\* Where CLOSE_LEASE_SECONDS reaches from the end of the session to 23:00 (six
\* hours: sessions that end at 17:00 or later), only the emergency stop ever
\* takes over a teardown, whatever the runs do and however long they take.
THEOREM OnlyEmergencyTakesOver ==
  ASSUME CloseLease >= CleanupDeadline - ExpiresAt
  PROVE  Spec => TakeoverIsEmergency
<1>. DEFINE Takeover == \A c \in StopRuns :
                          /\ ~ NeverClaimed(session) /\ session.closeRun # c
                          /\ session'.closeRun = c
                          => IsEmergency(c)
<1>1. TypeInv /\ ClaimedOnce /\ LeaseLasts /\ [Next]_vars => [Takeover]_vars
  BY StepGood, TypeParts, TakeoverStep DEF Good
<1>2. Spec => [][Takeover]_vars
  <2>. HIDE DEF Takeover
  <2>. QED
    BY <1>1, TypeInvariance, ClaimedInvariance, LeaseLastsInvariance, PTL DEF Spec
<1>. QED
  BY <1>2 DEF TakeoverIsEmergency

\* Under the same assumption a claimed teardown is seen through.
THEOREM TeardownIsSeenThrough ==
  ASSUME CloseLease >= CleanupDeadline - ExpiresAt
  PROVE  Spec => TeardownSeenThrough
BY NoReopening, OnlyEmergencyTakesOver DEF TeardownSeenThrough

-----------------------------------------------------------------------------
(***************************************************************************)
(* One run destroys what a session opened.                                 *)
(***************************************************************************)

\* An emergency stop is started after the window of the session.
EmergencyAfter == \A c \in StopRuns : IsEmergency(c) => now >= WindowEnd
\* The closer on record destroyed, or is an emergency stop.
CloserOrRescuer ==
  \A k \in CloseChildren :
    \/ k.run = session.closeRun
    \/ session.closeRun \in StopRuns /\ IsEmergency(session.closeRun)
\* A first attempt of an emergency stop is alone.
First(c) == IsEmergency(c) /\ Running(c) /\ attempt[c] = 1
OneFirst == \A c, d \in StopRuns : First(c) /\ First(d) => c = d
Unreviewed(k) == IsEmergency(k.run) /\ k.attempt > 1
FirstAlone ==
  \A c \in StopRuns, k \in CloseChildren : First(c) => k.run = c \/ Unreviewed(k)

LEMMA EmergencyAfterStep ==
  ASSUME RunsOK, LedgerOK, FreshBlank, EmergencyAfter, Moves, SessionStep
  PROVE  EmergencyAfter'
<1>1. now' >= now
  BY TimesAssumption DEF SessionStep, LedgerOK
<1>2. ASSUME NEW c \in StopRuns, via'[c] = Emergency PROVE now >= WindowEnd
  BY <1>2, StillEmergency DEF EmergencyAfter, StopBegins, IsEmergency, NeedsRescue, Candidate
<1>3. ASSUME NEW c \in StopRuns, via'[c] = Emergency PROVE now' >= WindowEnd
  BY <1>1, <1>2, <1>3, TimesAssumption, WindowAssumption DEF SessionStep, LedgerOK
<1>. QED
  BY <1>3 DEF EmergencyAfter, IsEmergency

LEMMA CloserStep ==
  ASSUME LedgerOK, ClaimedOnce, FreshBlank, LeaseLasts, CloserOrRescuer,
         Moves, SessionStep
  PROVE  CloserOrRescuer'
<1>. SUFFICES ASSUME NEW k \in CloseChildren'
              PROVE  \/ k.run = session'.closeRun
                     \/ /\ session'.closeRun \in StopRuns
                        /\ via'[session'.closeRun] = Emergency
  BY DEF CloserOrRescuer, IsEmergency
<1>0. ASSUME NEW c \in StopRuns, IsEmergency(c) PROVE via'[c] = Emergency
  BY <1>0, StillEmergency DEF IsEmergency
<1>1. CASE ChildBegins(k)
  BY <1>1, CloseChildStep DEF ChildBegins, Holds
<1>2. CASE k \in CloseChildren
  <2>1. CASE session'.closeRun = session.closeRun
    BY <1>0, <1>2, <2>1 DEF CloserOrRescuer
  <2>2. CASE session'.closeRun # session.closeRun
    <3>1. PICK c \in StopRuns : session'.closeRun = c
      BY <2>2 DEF SessionStep, Opened, Claim, Finalize, LedgerOK, SessionRecord
    <3>2. ~ NeverClaimed(session)
      BY <1>2, StopIsARun, CloseChildRun DEF CloserOrRescuer, NeverClaimed
    <3>3. IsEmergency(c)
      BY <2>2, <3>1, <3>2, TakeoverStep
    <3>. QED
      BY <1>0, <3>1, <3>3
  <2>. QED
    BY <2>1, <2>2
<1>. QED
  BY <1>1, <1>2, CloseChildStep

\* An emergency stop comes to its first attempt as it is started.
LEMMA FirstStep ==
  ASSUME FreshBlank, Moves, NEW c \in StopRuns, First(c)'
  PROVE  First(c) \/ (StopBegins(c) /\ NeedsRescue)
<1>1. IsEmergency(c) \/ StopBegins(c)
  BY StillEmergency DEF First
<1>2. via'[c] = Emergency /\ outcome'[c] = "running" /\ attempt'[c] = 1
  BY DEF First, IsEmergency, Running
<1>3. StopBegins(c) => NeedsRescue
  BY <1>2 DEF StopBegins
<1>4. ~ StopReruns(c)
  BY <1>2, TimesAssumption DEF StopReruns, Attempts
<1>. QED
  BY <1>1, <1>2, <1>3, <1>4 DEF Moves, StopMove, Same, StopEnds, StopGoesOn,
     StopForgotten, First, Running

LEMMA OneFirstStep ==
  ASSUME FreshBlank, OneFirst, Moves
  PROVE  OneFirst'
<1>1. ASSUME NEW c \in StopRuns, NEW d \in StopRuns, First(c)', First(d)'
      PROVE  c = d
  <2>1. ASSUME NEW x \in StopRuns, NEW y \in StopRuns, First(x)', First(y)',
               StopBegins(x), NeedsRescue
        PROVE  x = y
    <3>1. ~ Running(y)
      BY <2>1 DEF NeedsRescue, Candidate
    <3>2. StopBegins(y)
      BY <2>1, <3>1, FirstStep DEF First
    <3>. QED
      BY <2>1, <3>2 DEF StopBegins, Fresh
  <2>2. First(c) /\ First(d) => c = d
    BY DEF OneFirst
  <2>. QED
    BY <1>1, <2>1, <2>2, FirstStep
<1>. QED
  BY <1>1 DEF OneFirst

LEMMA UnreviewedStays ==
  ASSUME FreshBlank, Moves, NEW k \in CloseChildren, Unreviewed(k)
  PROVE  Unreviewed(k)'
BY StillEmergency, CloseChildRun DEF Unreviewed, IsEmergency

\* What a stop that begins to destroy knows.
LEMMA BeginsToDestroy ==
  ASSUME RunsOK, Moves, NEW k \in CloseChildren', ChildBegins(k)
  PROVE  /\ k.run \in StopRuns /\ Running(k.run) /\ Holds(k.run)
         /\ k.attempt = attempt[k.run] /\ k.attempt \in Attempts
         /\ IsEmergency(k.run) \/ now < TeardownEnd
<1>1. k.run \in StopRuns /\ k.action = "close" /\ k \in Children
  BY CloseChildStep
<1>2. k.attempt \in Attempts
  BY <1>1 DEF Children
<1>. QED
  BY <1>1, <1>2 DEF ChildBegins, At

LEMMA FirstAloneStep ==
  ASSUME RunsOK, LedgerOK, FreshBlank, EmergencyAfter, LeavesMark, OneFirst,
         FirstAlone, Moves
  PROVE  FirstAlone'
<1>. SUFFICES ASSUME NEW c \in StopRuns, NEW k \in CloseChildren', First(c)', k.run # c
              PROVE  Unreviewed(k)'
  BY DEF FirstAlone
<1>1. CASE NeedsRescue
  <2>1. stops = {} /\ \A d \in StopRuns : ~ Running(d)
    BY <1>1 DEF NeedsRescue, Candidate
  <2>2. k \notin CloseChildren
    BY <2>1, CloseChildRun DEF LeavesMark
  <2>3. ~ ChildBegins(k)
    BY <2>1, BeginsToDestroy
  <2>. QED
    BY <2>2, <2>3, CloseChildStep
<1>2. CASE First(c) /\ k \in CloseChildren
  BY <1>2, UnreviewedStays DEF FirstAlone
<1>3. CASE First(c) /\ ChildBegins(k)
  <2>1. now >= WindowEnd
    BY <1>3 DEF First, EmergencyAfter
  <2>2. ~ (now < TeardownEnd)
    BY <2>1, WindowAssumption, TimesAssumption DEF LedgerOK
  <2>3. IsEmergency(k.run) /\ Running(k.run)
    BY <1>3, <2>2, BeginsToDestroy
  <2>4. k.attempt # 1
    BY <1>3, <2>3, BeginsToDestroy DEF OneFirst, First
  <2>5. k.attempt > 1
    BY <1>3, <2>4, BeginsToDestroy, TimesAssumption DEF Attempts
  <2>6. IsEmergency(k.run)'
    BY <1>3, <2>3, StillEmergency, BeginsToDestroy
  <2>. QED
    BY <2>5, <2>6 DEF Unreviewed
<1>. QED
  BY <1>1, <1>2, <1>3, FirstStep, CloseChildStep

LEMMA OneRunsTeardownsStep ==
  ASSUME RunsOK, LedgerOK, FreshBlank, CloserOrRescuer, FirstAlone,
         OneRunsTeardowns, Moves
  PROVE  OneRunsTeardowns'
<1>1. ASSUME NEW k \in CloseChildren', NEW l \in CloseChildren', k.run # l.run
      PROVE  Unreviewed(k)' \/ Unreviewed(l)'
  <2>1. CASE k \in CloseChildren /\ l \in CloseChildren
    <3>1. Unreviewed(k) \/ Unreviewed(l)
      BY <1>1, <2>1 DEF OneRunsTeardowns, CloseChildren, Unreviewed
    <3>. QED
      BY <2>1, <3>1, UnreviewedStays
  <2>2. ASSUME NEW x \in CloseChildren', NEW y \in CloseChildren, ChildBegins(x),
               x.run # y.run
        PROVE  Unreviewed(x)' \/ Unreviewed(y)'
    <3>1. Holds(x.run) /\ x.run \in StopRuns /\ Running(x.run)
      BY <2>2, BeginsToDestroy
    <3>2. IsEmergency(x.run)
      BY <2>2, <3>1 DEF CloserOrRescuer, Holds
    <3>3. CASE x.attempt = 1
      <4>1. First(x.run)
        BY <2>2, <3>1, <3>2, <3>3, BeginsToDestroy DEF First
      <4>. QED
        BY <2>2, <3>1, <4>1, UnreviewedStays DEF FirstAlone
    <3>4. CASE x.attempt # 1
      <4>1. x.attempt > 1
        BY <2>2, <3>4, BeginsToDestroy, TimesAssumption DEF Attempts
      <4>2. IsEmergency(x.run)'
        BY <3>1, <3>2, StillEmergency
      <4>. QED
        BY <4>1, <4>2 DEF Unreviewed
    <3>. QED
      BY <3>3, <3>4
  <2>3. CASE ChildBegins(k) /\ ChildBegins(l)
    BY <1>1, <2>3, BeginsToDestroy DEF Holds
  <2>. QED
    BY <1>1, <2>1, <2>2, <2>3, CloseChildStep
<1>. QED
  BY <1>1 DEF OneRunsTeardowns, CloseChildren, Unreviewed

\* What the emergency stop may rely upon.
RescueInv ==
  /\ EmergencyAfter /\ CloserOrRescuer
  /\ OneFirst /\ FirstAlone /\ OneRunsTeardowns

LEMMA InitRescue == Init => RescueInv
<1>. SUFFICES ASSUME Init PROVE RescueInv
  OBVIOUS
<1>1. \A r \in Runs : outcome[r] = "none" /\ via[r] = NoRun
  BY DEF Init
<1>2. CloseChildren = {}
  BY <1>1, Kinds DEF CloseChildren, Fresh
<1>3. \A c \in StopRuns : ~ IsEmergency(c)
  BY <1>1, Kinds, WindowAssumption DEF IsEmergency
<1>4. OneRunsTeardowns
  BY <1>2 DEF OneRunsTeardowns, CloseChildren
<1>. QED
  BY <1>2, <1>3, <1>4
     DEF RescueInv, EmergencyAfter, CloserOrRescuer, OneFirst, FirstAlone, First

LEMMA NextRescue ==
  TypeInv /\ ClaimedOnce /\ TeardownInv /\ LeaseLasts /\ RescueInv /\ [Next]_vars
  => RescueInv'
<1>. SUFFICES ASSUME TypeInv, ClaimedOnce, TeardownInv, LeaseLasts, RescueInv, [Next]_vars
              PROVE  RescueInv'
  OBVIOUS
<1>1. RunsOK /\ LedgerOK /\ FreshBlank /\ Moves /\ SessionStep
  BY NextMoves DEF TeardownInv
<1>2. EmergencyAfter'
  BY <1>1, EmergencyAfterStep DEF RescueInv
<1>3. CloserOrRescuer'
  BY <1>1, CloserStep DEF RescueInv
<1>4. OneFirst' /\ FirstAlone'
  BY <1>1, OneFirstStep, FirstAloneStep DEF RescueInv, TeardownInv
<1>5. OneRunsTeardowns'
  BY <1>1, OneRunsTeardownsStep DEF RescueInv
<1>. QED
  BY <1>2, <1>3, <1>4, <1>5 DEF RescueInv

\* Where the lease of a normal stop outlives its day, the environment of a
\* session is destroyed by one stop at a time, and by the attempts of one stop:
\* by another one only where an operator reruns an emergency stop.
THEOREM DestroyedByOne ==
  ASSUME CloseLease >= CleanupDeadline - ExpiresAt
  PROVE  Spec => []DestroyedByOneRun
<1>1. Spec => []RescueInv
  BY InitRescue, NextRescue, TypeInvariance, ClaimedInvariance, TeardownInvariance,
     LeaseLastsInvariance, PTL DEF Spec
<1>2. RescueInv => OneRunsTeardowns
  BY DEF RescueInv
<1>. QED
  BY <1>1, <1>2, OneTeardownAtATime, PTL DEF DestroyedByOneRun
=============================================================================
