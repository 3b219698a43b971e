--------------------------- MODULE DispatchProofs ---------------------------
(***************************************************************************)
(* The dispatch keeps its promise for any number of attempts, faults and   *)
(* applies.                                                                *)
(***************************************************************************)
EXTENDS CrossRepoDispatch, TLAPS

\* At any time at most one child is at work, and none once one succeeded.
OneAtATime ==
  \A a, b \in Attempts :
    Active(children[a]) /\ (Active(children[b]) \/ Successful(children[b])) => a = b

Idle == \A a \in Attempts : ~Active(children[a]) /\ ~Successful(children[a])

\* What an attempt has learnt when it dispatches, and what makes it hold when
\* the next one lists: every child there is was dispatched by an attempt so
\* far, and is listed by then.
Fresh ==
  /\ \A a \in Attempts : a > attempt => children[a].status = "none"
  /\ step \in {"list", "stopApplies", "stopping", "issue", "post"} =>
       children[attempt].status = "none"
  /\ step = "list" => \A a \in Attempts : children[a].status # "none" => Listed(a)
  /\ step \in {"stopApplies", "stopping", "issue", "post"} => Idle
  /\ step \in {"issue", "post"} => ActiveApplies = {}

\* The inductive invariant.
DispatchInv == TypeOK /\ Fresh /\ OneAtATime /\ NeverWithAnApply /\ DoneInTime

LEMMA AttemptsAreNumbers ==
  /\ MaxAttempt \in Nat /\ 1 \in Attempts
  /\ \A a \in Attempts : a \in Nat /\ a # 0 /\ a <= MaxAttempt
  /\ \A a \in Attempts : a < MaxAttempt => a + 1 \in Attempts /\ a + 1 > a
  /\ \A a, b \in Attempts : /\ ~(b > a) => b \in 1 .. a
                            /\ b > a + 1 => b > a
                            /\ b = a + 1 => b > a
  /\ \A a \in Attempts : 1 .. a \subseteq Attempts
BY BoundsAssumption DEF Attempts

LEMMA InitInv == Init => DispatchInv
<1> SUFFICES ASSUME Init PROVE DispatchInv
  OBVIOUS
<1>1. TypeOK
  <2>1. NoChild \in ChildRecord
    BY DEF NoChild, ChildRecord
  <2>2. auths \in [Attempts -> {"none", "issued", "consumed"}] /\ children \in [Attempts -> ChildRecord]
    BY <2>1 DEF Init
  <2>3. attempt \in Attempts /\ followed \in Attempts
    BY AttemptsAreNumbers DEF Init
  <2>4. faults \in 0 .. MaxFaults
    BY BoundsAssumption DEF Init
  <2>5. step \in Steps /\ late \in BOOLEAN /\ applies \in [Applies -> {"active", "completed"}]
    BY DEF Init, Steps
  <2> QED
    BY <2>2, <2>3, <2>4, <2>5 DEF TypeOK
<1>2. \A a \in Attempts : children[a].status = "none"
  BY DEF Init, NoChild
<1>3. Fresh /\ OneAtATime /\ NeverWithAnApply /\ DoneInTime
  BY <1>2, AttemptsAreNumbers
     DEF Init, Fresh, OneAtATime, NeverWithAnApply, DoneInTime, Active, Idle
<1> QED
  BY <1>1, <1>3 DEF DispatchInv

\* The steps that only move the coordinator on.
LEMMA MoveTypes ==
  ASSUME TypeOK, step' \in Steps, followed' \in Attempts, UNCHANGED <<attempt, late>>, Elsewhere
  PROVE  TypeOK'
BY DEF TypeOK, Elsewhere

LEMMA TypeStep == DispatchInv /\ [Next]_vars => TypeOK'
<1> SUFFICES ASSUME DispatchInv, [Next]_vars PROVE TypeOK'
  OBVIOUS
<1>1. TypeOK /\ Attempts \subseteq Nat
  BY DEF DispatchInv, Attempts
<1>2. CASE TooLate \/ StopApplies \/ ApplyStopped \/ Poll \/ PollOver \/ Final \/ GiveUp
  BY <1>1, <1>2, MoveTypes
     DEF TooLate, StopApplies, ApplyStopped, Poll, PollOver, Final, GiveUp, Raise, Goto, Steps,
         TypeOK
<1>3. CASE Resume \/ BeginDispatch
  <2>1. Prior \subseteq Attempts
    BY <1>1, AttemptsAreNumbers DEF Prior, TypeOK
  <2> QED
    BY <1>1, <1>3, <2>1, MoveTypes DEF Resume, BeginDispatch, Goto, Steps, TypeOK
<1>4. CASE Issue
  BY <1>1, <1>4, BoundsAssumption DEF Issue, Answered, Goto, TypeOK, Steps
<1>5. CASE Post
  BY <1>1, <1>5, BoundsAssumption DEF Post, Answered, TypeOK, Steps, ChildRecord
<1>6. CASE Fault
  BY <1>1, <1>6, BoundsAssumption DEF Fault, Goto, TypeOK, Steps
<1>7. CASE Deadline
  BY <1>1, <1>7 DEF Deadline, TypeOK
<1>8. CASE Rerun
  BY <1>1, <1>8, AttemptsAreNumbers DEF Rerun, TypeOK, Steps
<1>9. CASE \E a \in Attempts : Appear(a) \/ StartChild(a) \/ EndChild(a)
  <2> PICK a \in Attempts : Appear(a) \/ StartChild(a) \/ EndChild(a)
    BY <1>9
  <2>1. children[a] \in ChildRecord
    BY <1>1 DEF TypeOK
  <2>2. CASE Appear(a)
    BY <1>1, <2>1, <2>2 DEF Appear, UpdateChild, TypeOK, ChildRecord
  <2>3. CASE StartChild(a)
    BY <1>1, <2>1, <2>3 DEF StartChild, UpdateChild, TypeOK, ChildRecord
  <2>4. CASE EndChild(a)
    <3>1. PICK status \in {"failure", "success"} :
            UpdateChild(a, [children[a] EXCEPT !.status = status,
                                               !.missedBy = IF late THEN attempt ELSE 0])
      BY <2>4 DEF EndChild
    <3> DEFINE child == [children[a] EXCEPT !.status = status, !.missedBy = IF late THEN attempt ELSE 0]
    <3>2. child \in ChildRecord
      BY <1>1, <2>1 DEF TypeOK, ChildRecord
    <3>3. UpdateChild(a, child) /\ UNCHANGED auths
      BY <2>4, <3>1 DEF EndChild
    <3> HIDE DEF child
    <3> QED
      BY <1>1, <3>2, <3>3 DEF UpdateChild, TypeOK
  <2> QED
    BY <2>2, <2>3, <2>4
<1>10. CASE \E r \in Applies : EndApply(r)
  BY <1>1, <1>10 DEF EndApply, TypeOK
<1>11. CASE UNCHANGED vars
  BY <1>1, <1>11 DEF vars, TypeOK
<1> QED
  BY <1>2, <1>3, <1>4, <1>5, <1>6, <1>7, <1>8, <1>9, <1>10, <1>11 DEF Next, Coordinate

\* A step that leaves the runs alone leaves them one at a time.
LEMMA SameRuns ==
  ASSUME OneAtATime, NeverWithAnApply, UNCHANGED <<children, applies>>
  PROVE  OneAtATime' /\ NeverWithAnApply'
BY DEF OneAtATime, NeverWithAnApply, Active, Successful, ActiveApplies

LEMMA CoordinateStep ==
  DispatchInv /\ Coordinate => Fresh' /\ OneAtATime' /\ NeverWithAnApply' /\ DoneInTime'
<1> SUFFICES ASSUME DispatchInv, Coordinate
             PROVE  Fresh' /\ OneAtATime' /\ NeverWithAnApply' /\ DoneInTime'
  OBVIOUS
<1>1. TypeOK /\ Fresh /\ OneAtATime /\ NeverWithAnApply /\ DoneInTime
  BY DEF DispatchInv
<1>2. CASE TooLate \/ ApplyStopped \/ PollOver \/ GiveUp
  <2>1. step' \in {"failed", "stopApplies", "final"} /\ UNCHANGED <<attempt, children, applies>>
    BY <1>2 DEF TooLate, ApplyStopped, PollOver, GiveUp, Raise, Goto, Elsewhere
  <2>2. step' = "stopApplies" => step = "stopping"
    BY <1>2 DEF TooLate, ApplyStopped, PollOver, GiveUp, Raise, Goto
  <2>3. Fresh' /\ DoneInTime'
    BY <1>1, <2>1, <2>2 DEF Fresh, DoneInTime, Idle, Active, Successful
  <2> QED
    BY <1>1, <2>1, <2>3, SameRuns
<1>3. CASE Poll \/ Final
  <2>1. /\ step' \in {"failed", "cancelling", "done"}
        /\ UNCHANGED <<attempt, children, applies, followed>>
        /\ step' = "done" => Successful(children[followed]) /\ InTime(children[followed])
    BY <1>3 DEF Poll, Final, Goto, Elsewhere
  <2>2. Fresh' /\ DoneInTime'
    BY <1>1, <2>1 DEF Fresh, DoneInTime, Successful, InTime
  <2> QED
    BY <1>1, <2>1, <2>2, SameRuns
<1>4. CASE Resume
  <2>1. step' \in {"failed", "poll"} /\ UNCHANGED <<attempt, children, applies>>
    BY <1>4 DEF Resume, Goto, Elsewhere
  <2>2. Fresh' /\ DoneInTime'
    BY <1>1, <2>1 DEF Fresh, DoneInTime
  <2> QED
    BY <1>1, <2>1, <2>2, SameRuns
<1>5. CASE BeginDispatch
  <2>1. step = "list" /\ step' = "stopApplies" /\ Prior = {}
        /\ UNCHANGED <<attempt, children, applies>>
    BY <1>5 DEF BeginDispatch, Goto, Elsewhere
  <2>2. ASSUME NEW a \in Attempts PROVE ~Active(children[a]) /\ ~Successful(children[a])
    <3>1. CASE children[a].status = "none"
      BY <3>1 DEF Active, Successful
    <3>2. CASE children[a].status # "none"
      <4>1. Listed(a) /\ ~(a > attempt)
        BY <1>1, <2>1, <3>2 DEF Fresh
      <4>2. a \in 1 .. attempt
        BY <1>1, <4>1 DEF TypeOK, Attempts
      <4> QED
        BY <2>1, <4>1, <4>2 DEF Prior
    <3> QED
      BY <3>1, <3>2
  <2>3. Fresh' /\ DoneInTime'
    BY <1>1, <2>1, <2>2 DEF Fresh, DoneInTime, Idle, Active, Successful
  <2> QED
    BY <1>1, <2>1, <2>3, SameRuns
<1>6. CASE StopApplies
  <2>1. /\ step = "stopApplies"
        /\ step' \in {"issue", "stopping", "failed"}
        /\ step' = "issue" => ActiveApplies = {}
        /\ UNCHANGED <<attempt, children, applies>>
    BY <1>6 DEF StopApplies, Goto, Elsewhere
  <2>2. Fresh' /\ DoneInTime'
    BY <1>1, <2>1 DEF Fresh, DoneInTime, Idle, Active, Successful, ActiveApplies
  <2> QED
    BY <1>1, <2>1, <2>2, SameRuns
<1>7. CASE Issue
  <2>1. /\ step = "issue"
        /\ step' \in {"post", "failed"}
        /\ UNCHANGED <<attempt, children, applies>>
    BY <1>7 DEF Issue, Answered, Goto
  <2>2. Fresh' /\ DoneInTime'
    BY <1>1, <2>1 DEF Fresh, DoneInTime, Idle, Active, Successful, ActiveApplies
  <2> QED
    BY <1>1, <2>1, <2>2, SameRuns
<1>8. CASE Post
  <2>1. /\ step = "post"
        /\ step' \in {"poll", "failed"}
        /\ UNCHANGED <<attempt, applies>>
        /\ children' = [children EXCEPT ![attempt].status = "queued"]
    BY <1>8 DEF Post, Answered
  <2>2. Idle /\ ActiveApplies = {} /\ attempt \in Attempts
    BY <1>1, <2>1 DEF Fresh, TypeOK
  <2>3. \A a \in Attempts : a # attempt => children'[a] = children[a]
    BY <1>1, <2>1 DEF TypeOK
  <2>4. OneAtATime'
    BY <2>2, <2>3 DEF Idle, OneAtATime, Active, Successful
  <2>5. NeverWithAnApply'
    BY <2>1, <2>2 DEF NeverWithAnApply, ActiveApplies
  <2>6. Fresh' /\ DoneInTime'
    BY <1>1, <2>1, <2>3 DEF Fresh, DoneInTime, TypeOK, Attempts
  <2> QED
    BY <2>4, <2>5, <2>6
<1> QED
  BY <1>2, <1>3, <1>4, <1>5, <1>6, <1>7, <1>8 DEF Coordinate

\* A child at work goes on, or ends: the others are as they were.
LEMMA ChildStep ==
  ASSUME DispatchInv, NEW a \in Attempts, Appear(a) \/ StartChild(a) \/ EndChild(a)
  PROVE  Fresh' /\ OneAtATime' /\ NeverWithAnApply' /\ DoneInTime'
<1>1. TypeOK /\ Fresh /\ OneAtATime /\ NeverWithAnApply /\ DoneInTime
  BY DEF DispatchInv
<1>2. children \in [Attempts -> ChildRecord] /\ children[a] \in ChildRecord
  BY <1>1 DEF TypeOK
<1>3. UNCHANGED <<attempt, step, followed, applies>>
  BY DEF Appear, StartChild, EndChild, UpdateChild
<1>4. \A b \in Attempts : b # a => children'[b] = children[b]
  BY <1>2 DEF Appear, StartChild, EndChild, UpdateChild
<1>0. \/ Appear(a) /\ children'[a] = [children[a] EXCEPT !.listed = TRUE]
      \/ StartChild(a) /\ children'[a] = [children[a] EXCEPT !.status = "running"]
      \/ /\ EndChild(a)
         /\ \E status \in {"failure", "success"} :
              children'[a] = [children[a] EXCEPT !.status = status,
                                                 !.missedBy = IF late THEN attempt ELSE 0]
  BY <1>2 DEF Appear, StartChild, EndChild, UpdateChild
<1>5. children[a].status # "none" /\ children'[a].status # "none" /\ (Listed(a) => children'[a].listed)
  BY <1>0, <1>2 DEF Appear, StartChild, EndChild, Active, ChildRecord, Listed
<1>6. /\ Active(children'[a]) => Active(children[a])
      /\ Successful(children'[a]) => Active(children[a]) \/ Successful(children[a])
      /\ Successful(children[a]) => Successful(children'[a]) /\ children'[a].missedBy = children[a].missedBy
  BY <1>0, <1>2 DEF Appear, StartChild, EndChild, Active, Successful, ChildRecord
<1>7. OneAtATime'
  <2> SUFFICES ASSUME NEW b \in Attempts, NEW c \in Attempts, Active(children'[b]),
                      Active(children'[c]) \/ Successful(children'[c])
               PROVE  b = c
    BY DEF OneAtATime
  <2>1. Active(children[b]) /\ (Active(children[c]) \/ Successful(children[c]))
    BY <1>4, <1>6
  <2> QED
    BY <1>1, <2>1 DEF OneAtATime
<1>8. NeverWithAnApply'
  <2> SUFFICES ASSUME NEW b \in Attempts, Active(children'[b]) PROVE ActiveApplies = {}
    BY <1>3 DEF NeverWithAnApply, ActiveApplies
  <2>1. Active(children[b])
    BY <1>4, <1>6
  <2> QED
    BY <1>1, <2>1 DEF NeverWithAnApply
<1>9. DoneInTime'
  <2> SUFFICES ASSUME step = "done"
               PROVE  Successful(children'[followed]) /\ children'[followed].missedBy # attempt
    BY <1>3 DEF DoneInTime, InTime
  <2>1. followed \in Attempts /\ Successful(children[followed]) /\ children[followed].missedBy # attempt
    BY <1>1 DEF DoneInTime, InTime, TypeOK
  <2> QED
    BY <1>4, <1>6, <2>1
<1>10. Fresh'
  <2>1. ~ (step \in {"stopApplies", "stopping", "issue", "post"} /\ ~Idle)
    BY <1>1 DEF Fresh
  <2>2. Idle => Idle'
    BY <1>4, <1>6 DEF Idle
  <2>3. ~(a > attempt)
    BY <1>1, <1>5 DEF Fresh
  <2>4. \A b \in Attempts : b > attempt' => children'[b].status = "none"
    BY <1>1, <1>3, <1>4, <2>3 DEF Fresh
  <2>5. step' \in {"list", "stopApplies", "stopping", "issue", "post"} => children'[attempt'].status = "none"
    BY <1>1, <1>3, <1>4, <1>5 DEF Fresh, TypeOK
  <2>6. step' = "list" => \A b \in Attempts : children'[b].status # "none" => children'[b].listed
    BY <1>1, <1>3, <1>4, <1>5 DEF Fresh, Listed
  <2>7. ActiveApplies' = ActiveApplies
    BY <1>3 DEF ActiveApplies
  <2> QED
    BY <1>1, <1>3, <2>1, <2>2, <2>4, <2>5, <2>6, <2>7 DEF Fresh, Listed
<1> QED
  BY <1>7, <1>8, <1>9, <1>10

LEMMA SafetyStep ==
  DispatchInv /\ [Next]_vars => Fresh' /\ OneAtATime' /\ NeverWithAnApply' /\ DoneInTime'
<1> SUFFICES ASSUME DispatchInv, [Next]_vars
             PROVE  Fresh' /\ OneAtATime' /\ NeverWithAnApply' /\ DoneInTime'
  OBVIOUS
<1>1. TypeOK /\ Fresh /\ OneAtATime /\ NeverWithAnApply /\ DoneInTime
  BY DEF DispatchInv
<1>2. CASE Coordinate
  BY <1>2, CoordinateStep
<1>3. CASE Fault
  <2>1. step' = "failed" /\ UNCHANGED <<attempt, children, applies>>
    BY <1>3 DEF Fault, Goto
  <2>2. Fresh' /\ DoneInTime'
    BY <1>1, <2>1 DEF Fresh, DoneInTime
  <2> QED
    BY <1>1, <2>1, <2>2, SameRuns
<1>4. CASE Deadline \/ UNCHANGED vars
  <2>1. UNCHANGED <<attempt, step, followed, children, applies>>
    BY <1>4 DEF Deadline, vars
  <2>2. Fresh' /\ DoneInTime'
    BY <1>1, <2>1 DEF Fresh, DoneInTime, Idle, Active, Successful, InTime, ActiveApplies, Listed
  <2> QED
    BY <1>1, <2>1, <2>2, SameRuns
<1>5. CASE Rerun
  <2>1. /\ step' = "list"
        /\ attempt' = attempt + 1
        /\ UNCHANGED <<children, applies>>
        /\ \A a \in Attempts : children[a].status # "none" => Listed(a)
    BY <1>5 DEF Rerun
  <2>2. attempt \in Nat /\ attempt + 1 \in Attempts
    BY <1>1, <1>5, AttemptsAreNumbers DEF Rerun, TypeOK
  <2>3. attempt \in Attempts
    BY <1>1 DEF TypeOK
  <2>4. \A a \in Attempts : a > attempt' => children'[a].status = "none"
    BY <1>1, <2>1, <2>2, <2>3, AttemptsAreNumbers DEF Fresh
  <2>5. children'[attempt'].status = "none"
    BY <1>1, <2>1, <2>2, <2>3, AttemptsAreNumbers DEF Fresh
  <2>6. Fresh' /\ DoneInTime'
    BY <2>1, <2>4, <2>5 DEF Fresh, DoneInTime, Listed
  <2> QED
    BY <1>1, <2>1, <2>6, SameRuns
<1>6. CASE \E a \in Attempts : Appear(a) \/ StartChild(a) \/ EndChild(a)
  BY <1>6, ChildStep
<1>7. CASE \E r \in Applies : EndApply(r)
  <2>1. UNCHANGED <<attempt, step, followed, children>> /\ ActiveApplies' \subseteq ActiveApplies
    BY <1>1, <1>7 DEF EndApply, ActiveApplies, TypeOK
  <2>2. Fresh' /\ DoneInTime'
    BY <1>1, <2>1 DEF Fresh, DoneInTime, Idle, Active, Successful, InTime, Listed
  <2>3. OneAtATime' /\ NeverWithAnApply'
    BY <1>1, <2>1 DEF OneAtATime, NeverWithAnApply, Active, Successful
  <2> QED
    BY <2>2, <2>3
<1> QED
  BY <1>2, <1>3, <1>4, <1>5, <1>6, <1>7 DEF Next

LEMMA Invariance == Spec => []DispatchInv
<1>1. DispatchInv /\ [Next]_vars => DispatchInv'
  BY TypeStep, SafetyStep DEF DispatchInv
<1> QED
  BY InitInv, <1>1, PTL DEF Spec

\* For any bounds, every variable of the dispatch keeps its type.
THEOREM TypeCorrect == Spec => []TypeOK
BY Invariance, PTL DEF DispatchInv

\* dispatch_and_wait reports success for a child that succeeded, in time.
THEOREM ReportedInTime == Spec => []DoneInTime
BY Invariance, PTL DEF DispatchInv

\* No child is at work while an apply of the session is.
THEOREM AppliesFirst == Spec => []NeverWithAnApply
BY Invariance, PTL DEF DispatchInv

\* What a step does to the work.
LEMMA WorkStep ==
  DispatchInv /\ [Next]_vars => [Promise!Next]_<<AtWork, WorkDone>>
<1> SUFFICES ASSUME DispatchInv, [Next]_vars, ~(UNCHANGED <<AtWork, WorkDone>>)
             PROVE  Promise!Next
  OBVIOUS
<1>1. TypeOK /\ Fresh /\ OneAtATime
  BY DEF DispatchInv
<1>2. ASSUME UNCHANGED children PROVE FALSE
  BY <1>2 DEF AtWork, WorkDone, Active, Successful
<1>3. CASE Post
  <2>1. Idle /\ attempt \in Attempts /\ children' = [children EXCEPT ![attempt].status = "queued"]
    BY <1>1, <1>3 DEF Post, Fresh, TypeOK
  <2>2. AtWork = {} /\ ~WorkDone
    BY <2>1 DEF Idle, AtWork, WorkDone
  <2>3. /\ children'[attempt].status = "queued"
        /\ \A a \in Attempts : a # attempt => children'[a] = children[a]
    BY <1>1, <2>1 DEF TypeOK, ChildRecord
  <2>4. AtWork' = {attempt}
    BY <2>1, <2>3 DEF AtWork, Active, Idle
  <2>5. WorkDone' = WorkDone
    BY <2>1, <2>2, <2>3 DEF WorkDone, Successful
  <2>6. Promise!Begin(attempt)
    BY <2>2, <2>4, <2>5 DEF Promise!Begin
  <2> QED
    BY <2>1, <2>6 DEF Promise!Next
<1>4. ASSUME NEW a \in Attempts, Appear(a) \/ StartChild(a) \/ EndChild(a) PROVE Promise!Next
  <2>1. children \in [Attempts -> ChildRecord] /\ children[a] \in ChildRecord
    BY <1>1 DEF TypeOK
  <2>2. \A b \in Attempts : b # a => children'[b] = children[b]
    BY <1>4, <2>1 DEF Appear, StartChild, EndChild, UpdateChild
  <2>3. CASE EndChild(a)
    <3>1. Active(children[a]) /\ ~Active(children'[a])
      BY <2>1, <2>3 DEF EndChild, UpdateChild, Active
    <3>2. AtWork = {a} /\ ~WorkDone
      BY <1>1, <3>1 DEF OneAtATime, AtWork, WorkDone, Active, Successful
    <3>3. AtWork' = {}
      BY <2>2, <3>1, <3>2 DEF AtWork
    <3>4. Promise!Fail(a) \/ Promise!Complete(a)
      BY <3>2, <3>3 DEF Promise!Fail, Promise!Complete, WorkDone
    <3> QED
      BY <3>4 DEF Promise!Next
  <2>4. CASE Appear(a) \/ StartChild(a)
    <3>1. /\ Active(children'[a]) <=> Active(children[a])
          /\ Successful(children'[a]) <=> Successful(children[a])
      BY <2>1, <2>4 DEF Appear, StartChild, UpdateChild, Active, Successful, ChildRecord
    <3>2. \A b \in Attempts : /\ Active(children'[b]) <=> Active(children[b])
                              /\ Successful(children'[b]) <=> Successful(children[b])
      BY <2>2, <3>1
    <3>3. AtWork' = AtWork /\ WorkDone' = WorkDone
      BY <3>2 DEF AtWork, WorkDone
    <3> QED
      BY <3>3
  <2> QED
    BY <1>4, <2>3, <2>4
<1>5. ASSUME Coordinate, ~Post PROVE UNCHANGED children
  BY <1>5 DEF Coordinate, TooLate, Resume, BeginDispatch, StopApplies, ApplyStopped, Issue, Poll,
              PollOver, Final, GiveUp, Raise, Elsewhere
<1>6. ASSUME Fault \/ Deadline \/ Rerun \/ (\E r \in Applies : EndApply(r)) \/ UNCHANGED vars
      PROVE  UNCHANGED children
  BY <1>6 DEF Fault, Deadline, Rerun, EndApply, vars
<1> QED
  BY <1>2, <1>3, <1>4, <1>5, <1>6 DEF Next

\* However many attempts a coordinator has and whatever answers it loses, it
\* implements Operation: one child at a time, none once one succeeded.
THEOREM KeepsItsPromise == Spec => ImplementsOperation
<1>1. Init => Promise!Init
  BY DEF Init, Promise!Init, AtWork, WorkDone, Active, Successful, NoChild
<1>2. DispatchInv /\ [Next]_vars => [Promise!Next]_<<AtWork, WorkDone>>
  BY WorkStep
<1> QED
  BY <1>1, <1>2, Invariance, PTL DEF Spec, ImplementsOperation, Promise!Spec
=============================================================================
