------------------------- MODULE ProvisioningProofs -------------------------
(***************************************************************************)
(* Proofs about Provisioning: for any definitions, whatever names they      *)
(* give, any faults and any changes by hand.                                *)
(*                                                                         *)
(* What a run has established when it ends is only known step by step, so  *)
(* the invariant says, for each step of a run, what the steps before it    *)
(* have left behind.                                                       *)
(***************************************************************************)
EXTENDS Provisioning, SequenceTheorems, TLAPS

\* The names Provisioning gives to parts of its actions are always expanded.
USE DEF Continue, Refuse, Answered, Here, Found, Owned, DashboardInput, DashboardMatches,
        NewGuid, PoliciesFound, Current, There, Present, PutCondition, Done, BetweenRuns, ByHand

\* What a run can rely on of what it found and has done so far.
RunFacts ==
  /\ run.step = "idle" => run = Idle
  /\ run.step # "idle" => Valid(run.version) /\ outcome.action = "none"
  /\ run.step \in {"update", "create", "tag", "policyCreate", "policyUpdate"} =>
       run.action = "apply"
  /\ run.step = "update" => Len(Here) = 1 /\ run.guid = 1 /\ Owned(1)
  /\ run.step = "create" => Len(Here) = 0
  /\ run.step = "tag" => Len(Here) = 1 /\ run.guid = 1
  /\ run.step = "policyCreate" => PoliciesFound = 0
  /\ run.step \in {"policyUpdate", "conditions", "condition", "recreate"} => PoliciesFound = 1
  /\ run.step \in {"condition", "recreate"} =>
       /\ run.todo \subseteq Expected(run.version)
       /\ \A name \in Names \ Expected(run.version) : ~There(name)

\* Alerts belong to a policy, and one that is not there has no state.
AlertsExist ==
  \A policy \in Range(PolicyNames), name \in Names :
    /\ policies[policy] = 0 => ~Present(policy, name)
    /\ ~Present(policy, name) => conditions[policy][name] = Absent

\* Past the dashboard an apply leaves the defined one behind, and a condition
\* it no longer has to look at is as desired, or cannot fire if it disables:
\* unless somebody changed things meanwhile.
PastDashboard == {"policy", "policyCreate", "policyUpdate", "conditions", "condition", "recreate"}

DashboardProgress ==
  run.action = "apply" /\ ~run.disturbed =>
    /\ run.step = "tag" => Here[1].configuration = run.version
    /\ run.step \in PastDashboard =>
         Len(Here) = 1 /\ Owned(1) /\ Here[1].configuration = run.version

ConditionsProgress ==
  run.step \in {"condition", "recreate"} /\ ~run.disturbed =>
    \A name \in Expected(run.version) \ run.todo :
      IF run.action = "apply" THEN Current(name) = Desired ELSE ~Current(name).enabled

\* The inductive invariant.
Inv == /\ TypeOK /\ RunFacts /\ AlertsExist
       /\ DashboardProgress /\ ConditionsProgress /\ DoneAsAsked

-----------------------------------------------------------------------------
LEMMA ConstantTypes ==
  /\ Idle \in Runs /\ Idle.step = "idle" /\ ~Idle.disturbed
  /\ Unknown \in Outcomes /\ Unknown.action = "none"
  /\ Absent \in Conditions /\ ~Absent.enabled /\ Absent.configuration = 0 /\ Absent.static
  /\ Foreign \in Configurations /\ Foreign \in 0 .. Foreign /\ Foreign # 0
  /\ Versions \subseteq Configurations /\ 0 \notin Versions
  /\ \A v \in Versions : v \in 0 .. Foreign
<1>1. 1 \in Versions /\ 0 \in 0 .. MaxDashboards /\ 0 \in 0 .. Foreign
  BY VersionsAssumption, BoundsAssumption DEF Versions, Foreign
<1>2. Idle \in Runs /\ Idle.step = "idle" /\ ~Idle.disturbed
  BY <1>1 DEF Idle, Runs, Steps, Actions
<1>3. Unknown \in Outcomes /\ Unknown.action = "none"
  BY <1>1 DEF Unknown, Outcomes
<1>4. Absent \in Conditions /\ ~Absent.enabled /\ Absent.configuration = 0 /\ Absent.static
  BY <1>1 DEF Absent, Conditions
<1>5. /\ Foreign \in Configurations /\ Foreign \in 0 .. Foreign /\ Foreign # 0
      /\ Versions \subseteq Configurations /\ 0 \notin Versions
      /\ \A v \in Versions : v \in 0 .. Foreign
  BY VersionsAssumption DEF Foreign, Configurations, Versions
<1> QED
  BY <1>2, <1>3, <1>4, <1>5

LEMMA InitInv == Init => Inv
<1> SUFFICES ASSUME Init PROVE Inv
  OBVIOUS
<1>1. TypeOK
  <2>1. /\ dashboards \in [Range(Titles) -> Seq(Dashboards)]
        /\ \A title \in Range(Titles) : Len(dashboards[title]) = 0
    BY DEF Init
  <2>2. version \in Versions /\ 0 <= MaxDashboards /\ 0 \in 0 .. MaxFaults
    BY VersionsAssumption, BoundsAssumption DEF Init, Versions
  <2> QED
    BY <2>1, <2>2, ConstantTypes DEF Init, TypeOK
<1>2. AlertsExist
  BY ConstantTypes DEF Init, AlertsExist, Present
<1>3. RunFacts
  BY ConstantTypes DEF Init, RunFacts
<1>4. DashboardProgress /\ ConditionsProgress
  BY ConstantTypes DEF Init, DashboardProgress, ConditionsProgress, PastDashboard
<1>5. DoneAsAsked
  BY ConstantTypes DEF Init, DoneAsAsked, AppliedMeansGuarded, DisabledMeansSilent
<1> QED
  BY <1>1, <1>2, <1>3, <1>4, <1>5 DEF Inv

\* A run that is over, and has established nothing, leaves nothing to prove
\* but types.
LEMMA RunEnds ==
  ASSUME TypeOK', AlertsExist', run' = Idle, outcome'.action = "none"
  PROVE  Inv'
<1>1. run'.step = "idle"
  BY ConstantTypes
<1>2. RunFacts'
  BY <1>1 DEF RunFacts
<1>3. DashboardProgress' /\ ConditionsProgress'
  BY <1>1 DEF DashboardProgress, ConditionsProgress, PastDashboard
<1>4. DoneAsAsked'
  BY DEF DoneAsAsked, AppliedMeansGuarded, DisabledMeansSilent
<1> QED
  BY <1>2, <1>3, <1>4 DEF Inv

\* What a version of the definitions holds does not depend on the state.
LEMMA SameDefinitions ==
  ASSUME profile' = profile, run'.version = run.version
  PROVE  /\ Valid(run.version)' = Valid(run.version)
         /\ Expected(run.version)' = Expected(run.version)
BY DEF Valid, SomeEligible, Expected, TechnicalDashboardValid, TechnicalAlertsValid,
       QueriesValid, ServiceOrderDashboardValid, ServiceOrderAlertsValid

\* Nor do the names it gives.
LEMMA SameNames ==
  ASSUME profile' = profile, run'.version = run.version
  PROVE  /\ Title(run.version)' = Title(run.version)
         /\ Owner(run.version)' = Owner(run.version)
         /\ PolicyName(run.version)' = PolicyName(run.version)
BY DEF Title, Owner, PolicyName, Named

\* What has the names of a version has its type.
LEMMA NamesType ==
  ASSUME TypeOK, NEW v \in Versions
  PROVE  /\ Title(v) \in Range(Titles) /\ Owner(v) \in Range(Owners)
         /\ PolicyName(v) \in Range(PolicyNames)
         /\ dashboards[Title(v)] \in Seq(Dashboards)
         /\ Len(dashboards[Title(v)]) <= MaxDashboards
         /\ policies[PolicyName(v)] \in Nat
         /\ conditions[PolicyName(v)] \in [Names -> Conditions]
<1>1. Named(v) \in 1 .. MaxVersion
  BY VersionsAssumption DEF Named, Versions
<1>2. /\ Title(v) \in Range(Titles) /\ Owner(v) \in Range(Owners)
      /\ PolicyName(v) \in Range(PolicyNames)
  BY <1>1, DefinitionsAssumption DEF Title, Owner, PolicyName, Range
<1> QED
  BY <1>2 DEF TypeOK

\* A call that changes neither what the run found nor the alerts.
LEMMA AlertsUntouched ==
  ASSUME AlertsExist, UNCHANGED <<policies, conditions>>
  PROVE  AlertsExist'
BY DEF AlertsExist

LEMMA RunType ==
  ASSUME TypeOK
  PROVE  /\ run \in Runs /\ run.step \in Steps /\ run.action \in Actions
         /\ run.version \in Versions /\ run.guid \in 0 .. MaxDashboards
         /\ run.todo \in SUBSET Names /\ run.gone \in SUBSET Names
         /\ run.disturbed \in BOOLEAN
BY DEF TypeOK, Runs

\* A run in progress goes on with the next step.
LEMMA RunGoesOn ==
  ASSUME Inv, run.step # "idle", NEW next \in Runs, run' = next,
         next.step # "idle", next.version = run.version,
         UNCHANGED <<profile, outcome>>, TypeOK', AlertsExist',
         RunFacts', DashboardProgress', ConditionsProgress'
  PROVE  Inv'
<1>1. outcome'.action = "none"
  BY DEF Inv, RunFacts
<1>2. DoneAsAsked'
  BY <1>1 DEF DoneAsAsked, AppliedMeansGuarded, DisabledMeansSilent
<1> QED
  BY <1>2 DEF Inv

\* The step that is next, for those that only move on.
LEMMA NextStepType ==
  ASSUME TypeOK, NEW step \in Steps, NEW guid \in 0 .. MaxDashboards
  PROVE  LET next == [run EXCEPT !.step = step, !.guid = guid]
         IN  /\ next \in Runs /\ next.step = step /\ next.guid = guid
             /\ next.version = run.version /\ next.action = run.action
             /\ next.todo = run.todo /\ next.gone = run.gone
             /\ next.disturbed = run.disturbed
BY RunType DEF Runs

LEMMA NextStepKeeps ==
  ASSUME TypeOK, NEW step \in Steps
  PROVE  LET next == [run EXCEPT !.step = step]
         IN  /\ next \in Runs /\ next.step = step /\ next.guid = run.guid
             /\ next.version = run.version /\ next.action = run.action
             /\ next.todo = run.todo /\ next.gone = run.gone
             /\ next.disturbed = run.disturbed
BY RunType DEF Runs

LEMMA RefuseInv ==
  ASSUME Inv, run.step # "idle", Refuse
  PROVE  Inv'
<1>1. TypeOK' /\ AlertsExist'
  BY ConstantTypes DEF Inv, TypeOK, AlertsExist, Present
<1>2. outcome'.action = "none"
  BY DEF Inv, RunFacts
<1> QED
  BY <1>1, <1>2, RunEnds

LEMMA CallFailsInv ==
  ASSUME Inv, CallFails
  PROVE  Inv'
<1>1. TypeOK' /\ AlertsExist'
  BY ConstantTypes, BoundsAssumption DEF CallFails, Inv, TypeOK, AlertsExist, Present
<1>2. run.step # "idle"
  BY DEF CallFails, Inv, RunFacts
<1>3. outcome'.action = "none"
  BY <1>2 DEF CallFails, Inv, RunFacts
<1> QED
  BY <1>1, <1>3, RunEnds DEF CallFails

LEMMA StartInv ==
  ASSUME Inv, NEW action \in Actions, Start(action)
  PROVE  Inv'
<1> DEFINE next == [Idle EXCEPT !.step = "dashboard", !.action = action, !.version = version]
<1>1. /\ next \in Runs /\ next.step = "dashboard" /\ next.action = action
      /\ next.version = version /\ ~next.disturbed
  <2>1. version \in Versions /\ Idle \in Runs /\ ~Idle.disturbed /\ "dashboard" \in Steps
    BY ConstantTypes DEF Inv, TypeOK, Steps
  <2> QED
    BY <2>1 DEF Runs
<1>2. run' = next /\ outcome' = Unknown
      /\ UNCHANGED <<profile, version, dashboards, policies, conditions, faults, hands>>
  BY DEF Start
<1> HIDE DEF next
<1>3. TypeOK' /\ AlertsExist'
  BY <1>1, <1>2, ConstantTypes DEF Inv, TypeOK, AlertsExist, Present
<1>4. Valid(run.version)'
  BY <1>1, <1>2 DEF Start, Valid, SomeEligible, Expected, TechnicalDashboardValid,
     TechnicalAlertsValid, QueriesValid, ServiceOrderDashboardValid, ServiceOrderAlertsValid
<1>5. RunFacts'
  BY <1>1, <1>2, <1>4, ConstantTypes DEF RunFacts
<1>6. DashboardProgress' /\ ConditionsProgress'
  BY <1>1, <1>2 DEF DashboardProgress, ConditionsProgress, PastDashboard
<1>7. DoneAsAsked'
  BY <1>2, ConstantTypes DEF DoneAsAsked, AppliedMeansGuarded, DisabledMeansSilent
<1> QED
  BY <1>3, <1>5, <1>6, <1>7 DEF Inv

-----------------------------------------------------------------------------
(***************************************************************************)
(* The dashboard.                                                          *)
(***************************************************************************)

\* Dashboards as rows, and a row replaced.
LEMMA DashboardType ==
  ASSUME TypeOK, NEW title \in Range(Titles), NEW guid \in DOMAIN dashboards[title]
  PROVE  dashboards[title][guid] \in Dashboards
<1>1. dashboards[title] \in Seq(Dashboards) /\ guid \in 1 .. Len(dashboards[title])
  BY DEF TypeOK
<1> QED
  BY <1>1, ElementOfSeq

LEMMA DashboardTagged ==
  ASSUME NEW d \in Dashboards, NEW owner \in Range(Owners)
  PROVE  LET tagged == [d EXCEPT !.owners = @ \cup {owner}]
         IN  /\ tagged \in Dashboards /\ owner \in tagged.owners
             /\ d.owners \subseteq tagged.owners /\ tagged.configuration = d.configuration
BY DEF Dashboards

LEMMA DashboardConfigured ==
  ASSUME NEW d \in Dashboards, NEW v \in Configurations
  PROVE  LET changed == [d EXCEPT !.configuration = v]
         IN  changed \in Dashboards /\ changed.owners = d.owners /\ changed.configuration = v
BY DEF Dashboards

\* What TypeOK says of the dashboards.
DashboardsTyped ==
  /\ dashboards \in [Range(Titles) -> Seq(Dashboards)]
  /\ \A title \in Range(Titles) : Len(dashboards[title]) <= MaxDashboards

\* The dashboards of one name are replaced.
LEMMA TitlePut ==
  ASSUME TypeOK, NEW title \in Range(Titles), NEW seq \in Seq(Dashboards),
         Len(seq) <= MaxDashboards, dashboards' = [dashboards EXCEPT ![title] = seq]
  PROVE  /\ DashboardsTyped' /\ dashboards'[title] = seq
         /\ \A other \in Range(Titles) : other # title => dashboards'[other] = dashboards[other]
BY DEF TypeOK, DashboardsTyped

\* A row of a sequence of dashboards is replaced.
Replaced(old, guid, row, seq) ==
  /\ seq \in Seq(Dashboards) /\ Len(seq) = Len(old) /\ DOMAIN seq = DOMAIN old
  /\ seq[guid] = row
  /\ \A other \in DOMAIN old : other # guid => seq[other] = old[other]

LEMMA RowReplaced ==
  ASSUME NEW old \in Seq(Dashboards), NEW guid \in DOMAIN old, NEW row \in Dashboards
  PROVE  Replaced(old, guid, row, [old EXCEPT ![guid] = row])
<1> DEFINE seq == [old EXCEPT ![guid] = row]
<1>1. guid \in 1 .. Len(old) /\ DOMAIN old = 1 .. Len(old)
  OBVIOUS
<1>2. seq \in Seq(Dashboards) /\ Len(seq) = Len(old)
  BY <1>1, ExceptSeq
<1>3. /\ DOMAIN seq = DOMAIN old /\ seq[guid] = row
      /\ \A other \in DOMAIN old : other # guid => seq[other] = old[other]
  BY <1>1
<1> QED
  BY <1>2, <1>3 DEF Replaced

LEMMA DashboardPut ==
  ASSUME TypeOK, NEW title \in Range(Titles), NEW guid \in DOMAIN dashboards[title],
         NEW row \in Dashboards, NEW seq,
         Replaced(dashboards[title], guid, row, seq),
         dashboards' = [dashboards EXCEPT ![title] = seq]
  PROVE  /\ DashboardsTyped'
         /\ Len(dashboards'[title]) = Len(dashboards[title])
         /\ DOMAIN dashboards'[title] = DOMAIN dashboards[title]
         /\ dashboards'[title][guid] = row
         /\ \A other \in DOMAIN dashboards[title] :
              other # guid => dashboards'[title][other] = dashboards[title][other]
         /\ \A other \in Range(Titles) : other # title => dashboards'[other] = dashboards[other]
<1> DEFINE old == dashboards[title]
<1>1. /\ old \in Seq(Dashboards) /\ guid \in 1 .. Len(old) /\ DOMAIN old = 1 .. Len(old)
      /\ Len(old) <= MaxDashboards
  BY DEF TypeOK
<1>2. dashboards' = [dashboards EXCEPT ![title] = seq] /\ Replaced(old, guid, row, seq)
  OBVIOUS
<1> HIDE DEF old
<1>3. seq \in Seq(Dashboards) /\ Len(seq) = Len(old)
  BY <1>2 DEF Replaced
<1>4. /\ DOMAIN seq = DOMAIN old /\ seq[guid] = row
      /\ \A other \in DOMAIN old : other # guid => seq[other] = old[other]
  BY <1>2 DEF Replaced
<1>5. /\ DashboardsTyped' /\ dashboards'[title] = seq
      /\ \A other \in Range(Titles) : other # title => dashboards'[other] = dashboards[other]
  BY <1>1, <1>2, <1>3, TitlePut
<1> QED
  BY <1>3, <1>4, <1>5 DEF old

\* The dashboard of the name, if there is one only.
LEMMA OnlyDashboard ==
  ASSUME TypeOK, Len(Here) = 1
  PROVE  /\ DOMAIN Here = {1} /\ Here[1] \in Dashboards
         /\ Title(run.version) \in Range(Titles) /\ Owner(run.version) \in Range(Owners)
<1>1. run.version \in Versions
  BY RunType
<1>2. /\ Title(run.version) \in Range(Titles) /\ Owner(run.version) \in Range(Owners)
      /\ Here \in Seq(Dashboards)
  BY <1>1, NamesType
<1>3. DOMAIN Here = {1}
  BY <1>2
<1> QED
  BY <1>2, <1>3, DashboardType

LEMMA LengthOfDomain ==
  ASSUME NEW seq \in Seq(Dashboards)
  PROVE  (DOMAIN seq = {1} => Len(seq) = 1) /\ (DOMAIN seq = {} => Len(seq) = 0)
<1> DEFINE n == Len(seq)
<1>1. DOMAIN seq = 1 .. n /\ n \in Nat
  OBVIOUS
<1> HIDE DEF n
<1>2. 1 .. n = {1} => n = 1
  <2>1. n \in 1 .. n \/ n = 0
    BY <1>1
  <2> QED
    BY <1>1, <2>1
<1>3. 1 .. n = {} => n = 0
  BY <1>1
<1> QED
  BY <1>1, <1>2, <1>3 DEF n

LEMMA FindDashboardInv ==
  ASSUME Inv, FindDashboard
  PROVE  Inv'
<1>0. run.version \in Versions /\ Here \in Seq(Dashboards)
  BY RunType, NamesType DEF Inv
<1>1. run.step = "dashboard"
  BY DEF FindDashboard
<1>2. CASE Refuse
  BY <1>1, <1>2, RefuseInv
<1>3. CASE /\ Found = {1} /\ Owned(1)
           /\ Continue([run EXCEPT !.step = IF run.action = "apply" THEN "update" ELSE "policy",
                                   !.guid = 1])
  <2> DEFINE step == IF run.action = "apply" THEN "update" ELSE "policy"
             next == [run EXCEPT !.step = step, !.guid = 1]
  <2>1. step \in Steps /\ 1 \in 0 .. MaxDashboards
    BY BoundsAssumption DEF Steps
  <2>2. /\ next \in Runs /\ next.step = step /\ next.guid = 1
        /\ next.version = run.version /\ next.action = run.action
        /\ next.disturbed = run.disturbed
    <3> HIDE DEF step
    <3> QED
      BY <2>1, NextStepType DEF Inv
  <2>3. run' = next
        /\ UNCHANGED <<profile, version, dashboards, policies, conditions, outcome, faults, hands>>
    BY <1>3
  <2>4. Len(Here) = 1 /\ Owned(1)
    BY <1>0, <1>3, LengthOfDomain
  <2> HIDE DEF next
  <2>5. TypeOK' /\ AlertsExist'
    BY <2>2, <2>3 DEF Inv, TypeOK, AlertsExist, Present
  <2>6. Valid(run.version)' /\ Title(run.version)' = Title(run.version)
        /\ Owner(run.version)' = Owner(run.version)
    BY <1>1, <2>2, <2>3, SameDefinitions, SameNames DEF Inv, RunFacts
  <2>7. RunFacts'
    BY <1>1, <2>2, <2>3, <2>4, <2>6 DEF Inv, RunFacts
  <2>8. DashboardProgress' /\ ConditionsProgress'
    BY <2>2, <2>3 DEF DashboardProgress, ConditionsProgress, PastDashboard
  <2> QED
    BY <1>1, <2>2, <2>3, <2>5, <2>7, <2>8, RunGoesOn
<1>4. CASE /\ Found = {}
           /\ Continue([run EXCEPT !.step = IF run.action = "apply" THEN "create" ELSE "policy"])
  <2> DEFINE step == IF run.action = "apply" THEN "create" ELSE "policy"
             next == [run EXCEPT !.step = step]
  <2>1. step \in Steps
    BY DEF Steps
  <2>2. /\ next \in Runs /\ next.step = step
        /\ next.version = run.version /\ next.action = run.action
        /\ next.disturbed = run.disturbed
    <3> HIDE DEF step
    <3> QED
      BY <2>1, NextStepKeeps DEF Inv
  <2>3. run' = next
        /\ UNCHANGED <<profile, version, dashboards, policies, conditions, outcome, faults, hands>>
    BY <1>4
  <2>4. Len(Here) = 0
    BY <1>0, <1>4, LengthOfDomain
  <2> HIDE DEF next
  <2>5. TypeOK' /\ AlertsExist'
    BY <2>2, <2>3 DEF Inv, TypeOK, AlertsExist, Present
  <2>6. Valid(run.version)' /\ Title(run.version)' = Title(run.version)
        /\ Owner(run.version)' = Owner(run.version)
    BY <1>1, <2>2, <2>3, SameDefinitions, SameNames DEF Inv, RunFacts
  <2>7. RunFacts'
    BY <1>1, <2>2, <2>3, <2>4, <2>6 DEF Inv, RunFacts
  <2>8. DashboardProgress' /\ ConditionsProgress'
    BY <2>2, <2>3 DEF DashboardProgress, ConditionsProgress, PastDashboard
  <2> QED
    BY <1>1, <2>2, <2>3, <2>5, <2>7, <2>8, RunGoesOn
<1> QED
  BY <1>2, <1>3, <1>4 DEF FindDashboard

\* Past the dashboard, with the one the definitions ask for.
LEMMA DashboardDone ==
  ASSUME Inv, run.step # "idle", run.action = "apply", NEW next,
         next = [run EXCEPT !.step = "policy"], run' = next,
         UNCHANGED <<profile, outcome, policies, conditions>>, TypeOK',
         ~run.disturbed => LET here == dashboards'[Title(run.version)]
                           IN  /\ Len(here) = 1 /\ Owner(run.version) \in here[1].owners
                               /\ here[1].configuration = run.version
  PROVE  Inv'
<1>1. /\ next \in Runs /\ next.step = "policy" /\ next.version = run.version
      /\ next.action = run.action /\ next.disturbed = run.disturbed
  BY NextStepKeeps DEF Inv, Steps
<1>2. Valid(run.version)' /\ outcome'.action = "none"
  BY <1>1, SameDefinitions DEF Inv, RunFacts
<1>3. RunFacts'
  BY <1>1, <1>2 DEF RunFacts
<1>4. /\ Title(run.version)' = Title(run.version)
      /\ Owner(run.version)' = Owner(run.version)
  BY <1>1, SameNames
<1>5. DashboardProgress' /\ ConditionsProgress'
  BY <1>1, <1>4 DEF DashboardProgress, ConditionsProgress
<1> QED
  BY <1>1, <1>3, <1>5, AlertsUntouched, RunGoesOn DEF Inv

\* The run ends there and then: its answer was lost.
LEMMA AnswerLost ==
  ASSUME Inv, run.step # "idle", run' = Idle, outcome' = outcome, TypeOK', AlertsExist'
  PROVE  Inv'
BY RunEnds DEF Inv, RunFacts

LEMMA KeepDashboardInv ==
  ASSUME Inv, KeepDashboard
  PROVE  Inv'
<1> DEFINE next == [run EXCEPT !.step = "policy"]
<1>1. /\ run.step = "update" /\ run.action = "apply" /\ run' = next
      /\ UNCHANGED <<profile, version, dashboards, policies, conditions, outcome, faults, hands>>
  BY DEF KeepDashboard, Inv, RunFacts
<1>2. Len(Here) = 1 /\ Owned(1) /\ Here[1].configuration = run.version
  BY <1>1 DEF KeepDashboard, Inv, RunFacts
<1>3. TypeOK'
  BY <1>1, NextStepKeeps DEF Inv, TypeOK, Steps
<1> QED
  BY <1>1, <1>2, <1>3, DashboardDone

\* What a call on the dashboards leaves is typed, answered or not.
LEMMA DashboardCallType ==
  ASSUME TypeOK, DashboardsTyped', NEW next \in Runs,
         UNCHANGED <<profile, version, policies, conditions, outcome, hands>>,
         \/ run' = next /\ UNCHANGED faults
         \/ run' = Idle /\ faults < MaxFaults /\ faults' = faults + 1
  PROVE  TypeOK'
<1>1. faults' \in 0 .. MaxFaults /\ run' \in Runs
  BY ConstantTypes, BoundsAssumption DEF TypeOK
<1> QED
  BY <1>1 DEF TypeOK, DashboardsTyped

\* The dashboard at hand is written, and the run is past the dashboard.
LEMMA DashboardWriteInv ==
  ASSUME Inv, run.step \in {"update", "tag"}, NEW row \in Dashboards, NEW next,
         next = [run EXCEPT !.step = "policy"],
         dashboards' = [dashboards EXCEPT ![Title(run.version)][1] = row],
         Owner(run.version) \in row.owners,
         ~run.disturbed => row.configuration = run.version,
         UNCHANGED <<profile, version, policies, conditions, outcome, hands>>,
         \/ run' = next /\ UNCHANGED faults
         \/ run' = Idle /\ faults < MaxFaults /\ faults' = faults + 1
  PROVE  Inv'
<1>0. PICK title : title = Title(run.version)
  OBVIOUS
<1>1. run.action = "apply" /\ Len(Here) = 1
  BY DEF Inv, RunFacts
<1>2. /\ TypeOK /\ title \in Range(Titles) /\ Len(dashboards[title]) = 1
      /\ DOMAIN dashboards[title] = {1} /\ 1 \in DOMAIN dashboards[title]
  BY <1>0, <1>1, OnlyDashboard DEF Inv
<1>3. dashboards' = [dashboards EXCEPT ![title][1] = row]
  BY <1>0
<1>4. /\ DashboardsTyped' /\ Len(dashboards'[title]) = 1 /\ dashboards'[title][1] = row
  <2> DEFINE seq == [dashboards[title] EXCEPT ![1] = row]
  <2>1. DashboardsTyped
    BY <1>2 DEF TypeOK, DashboardsTyped
  <2>2. Replaced(dashboards[title], 1, row, seq)
    BY <1>2, <2>1, RowReplaced DEF DashboardsTyped
  <2>3. /\ DOMAIN dashboards' = Range(Titles) /\ dashboards'[title] = seq
        /\ \A other \in Range(Titles) : other # title => dashboards'[other] = dashboards[other]
        /\ dashboards' = [other \in Range(Titles) |-> dashboards'[other]]
    BY <1>2, <1>3, <2>1 DEF DashboardsTyped
  <2>4. Len(dashboards[title]) = 1
    BY <1>0, <1>1
  <2> HIDE DEF seq
  <2>5. DashboardsTyped'
    BY <1>2, <2>1, <2>2, <2>3 DEF DashboardsTyped, Replaced
  <2> QED
    BY <1>2, <2>2, <2>3, <2>4, <2>5 DEF Replaced
<1>5. next \in Runs
  BY NextStepKeeps DEF Inv, Steps
<1>6. TypeOK'
  BY <1>4, <1>5, DashboardCallType DEF Inv
<1>7. CASE run' = next
  BY <1>1, <1>4, <1>6, <1>7, DashboardDone, <1>0
<1>8. CASE run' = Idle
  BY <1>6, <1>8, AnswerLost, AlertsUntouched DEF Inv
<1> QED
  BY <1>7, <1>8

\* The rows that the two calls write.
LEMMA UpdateDashboardRow ==
  ASSUME Inv, UpdateDashboard
  PROVE  /\ run.step = "update"
         /\ LET row == [Here[1] EXCEPT !.configuration = run.version]
            IN  /\ row \in Dashboards /\ Owner(run.version) \in row.owners
                /\ row.configuration = run.version
                /\ dashboards' = [dashboards EXCEPT ![Title(run.version)][1] = row]
<1>1. /\ run.step = "update" /\ run.guid = 1 /\ Len(Here) = 1 /\ Owned(1)
      /\ dashboards' = [dashboards EXCEPT ![Title(run.version)][1].configuration = run.version]
  BY DEF UpdateDashboard, Inv, RunFacts
<1>2. Here[1] \in Dashboards /\ run.version \in Configurations
  BY <1>1, OnlyDashboard, RunType, ConstantTypes DEF Inv
<1>3. LET row == [Here[1] EXCEPT !.configuration = run.version]
      IN  /\ row \in Dashboards /\ row.owners = Here[1].owners
          /\ row.configuration = run.version
  BY <1>2, DashboardConfigured
<1> QED
  BY <1>1, <1>3

LEMMA TagDashboardRow ==
  ASSUME Inv, TagDashboard
  PROVE  /\ run.step = "tag"
         /\ LET row == [Here[1] EXCEPT !.owners = @ \cup {Owner(run.version)}]
            IN  /\ row \in Dashboards /\ Owner(run.version) \in row.owners
                /\ row.configuration = Here[1].configuration
                /\ dashboards' = [dashboards EXCEPT ![Title(run.version)][1] = row]
<1>1. /\ run.step = "tag" /\ run.guid = 1 /\ Len(Here) = 1
      /\ dashboards' = [dashboards EXCEPT ![Title(run.version)][1].owners =
                          @ \cup {Owner(run.version)}]
  BY DEF TagDashboard, Inv, RunFacts
<1>2. Here[1] \in Dashboards /\ Owner(run.version) \in Range(Owners)
  BY <1>1, OnlyDashboard DEF Inv
<1>3. LET row == [Here[1] EXCEPT !.owners = @ \cup {Owner(run.version)}]
      IN  /\ row \in Dashboards /\ Owner(run.version) \in row.owners
          /\ row.configuration = Here[1].configuration
  BY <1>2, DashboardTagged
<1> QED
  BY <1>1, <1>3

LEMMA UpdateDashboardInv ==
  ASSUME Inv, UpdateDashboard
  PROVE  Inv'
<1> DEFINE row == [Here[1] EXCEPT !.configuration = run.version]
           next == [run EXCEPT !.step = "policy"]
<1>1. /\ run.step = "update" /\ row \in Dashboards /\ Owner(run.version) \in row.owners
      /\ row.configuration = run.version
      /\ dashboards' = [dashboards EXCEPT ![Title(run.version)][1] = row]
  BY UpdateDashboardRow
<1>2. /\ UNCHANGED <<profile, version, policies, conditions, outcome, hands>>
      /\ \/ run' = next /\ UNCHANGED faults
         \/ run' = Idle /\ faults < MaxFaults /\ faults' = faults + 1
  BY DEF UpdateDashboard
<1>3. next = [run EXCEPT !.step = "policy"]
  OBVIOUS
<1> HIDE DEF row, next
<1> QED
  BY <1>1, <1>2, <1>3, DashboardWriteInv

LEMMA TagDashboardInv ==
  ASSUME Inv, TagDashboard
  PROVE  Inv'
<1> DEFINE row == [Here[1] EXCEPT !.owners = @ \cup {Owner(run.version)}]
           next == [run EXCEPT !.step = "policy"]
<1>1. /\ run.step = "tag" /\ row \in Dashboards /\ Owner(run.version) \in row.owners
      /\ row.configuration = Here[1].configuration
      /\ dashboards' = [dashboards EXCEPT ![Title(run.version)][1] = row]
  BY TagDashboardRow
<1>2. /\ UNCHANGED <<profile, version, policies, conditions, outcome, hands>>
      /\ \/ run' = next /\ UNCHANGED faults
         \/ run' = Idle /\ faults < MaxFaults /\ faults' = faults + 1
  BY DEF TagDashboard
<1>3. next = [run EXCEPT !.step = "policy"]
  OBVIOUS
<1> HIDE DEF row, next
<1>4. ~run.disturbed => row.configuration = run.version
  BY <1>1 DEF Inv, RunFacts, DashboardProgress
<1> QED
  BY <1>1, <1>2, <1>3, <1>4, DashboardWriteInv

\* A dashboard of the name, where there was none.
LEMMA FirstDashboard ==
  ASSUME Inv, run.step = "create", NEW row \in Dashboards,
         dashboards' = [dashboards EXCEPT ![Title(run.version)] = Append(@, row)]
  PROVE  LET title == Title(run.version)
         IN  /\ DashboardsTyped' /\ DOMAIN dashboards[title] = {}
             /\ Len(dashboards'[title]) = 1 /\ DOMAIN dashboards'[title] = {1}
             /\ dashboards'[title][1] = row
             /\ \A other \in Range(Titles) :
                  other # title => dashboards'[other] = dashboards[other]
<1> DEFINE title == Title(run.version)
           old == dashboards[title]
           seq == Append(old, row)
<1>1. run.version \in Versions /\ Len(old) = 0
  BY RunType DEF Inv, RunFacts
<1>2. title \in Range(Titles) /\ old \in Seq(Dashboards)
  BY <1>1, NamesType DEF Inv
<1>3. dashboards' = [dashboards EXCEPT ![title] = seq]
  OBVIOUS
<1> HIDE DEF title, old
<1>4. seq \in Seq(Dashboards) /\ Len(seq) = 1 /\ seq[1] = row /\ DOMAIN seq = {1}
      /\ DOMAIN old = {}
  BY <1>1, <1>2, AppendProperties
<1> HIDE DEF seq
<1>5. Len(seq) <= MaxDashboards
  BY <1>4, BoundsAssumption
<1>6. /\ DashboardsTyped' /\ dashboards'[title] = seq
      /\ \A other \in Range(Titles) : other # title => dashboards'[other] = dashboards[other]
  BY <1>2, <1>3, <1>4, <1>5, TitlePut DEF Inv
<1> QED
  BY <1>4, <1>6 DEF title, old

LEMMA CreateDashboardInv ==
  ASSUME Inv, CreateDashboard
  PROVE  Inv'
<1> DEFINE row == [owners |-> {}, configuration |-> run.version]
           next == [run EXCEPT !.step = "tag", !.guid = 1]
           title == Title(run.version)
<1>8. run.step = "create" /\ run.action = "apply" /\ Len(Here) = 0
  BY DEF CreateDashboard, Inv, RunFacts
<1>9. Len(Here) + 1 = 1
  BY <1>8
<1>1. /\ run.step = "create" /\ run.action = "apply" /\ Len(Here) = 0
      /\ dashboards' = [dashboards EXCEPT ![title] = Append(@, row)]
      /\ UNCHANGED <<profile, version, policies, conditions, outcome, hands>>
      /\ \/ run' = next /\ UNCHANGED faults
         \/ run' = Idle /\ faults < MaxFaults /\ faults' = faults + 1
  BY <1>8, <1>9 DEF CreateDashboard
<1>2. row \in Dashboards /\ row.configuration = run.version
  BY RunType, ConstantTypes DEF Inv, Dashboards
<1>3. /\ next \in Runs /\ next.step = "tag" /\ next.guid = 1 /\ next.version = run.version
      /\ next.action = run.action /\ next.disturbed = run.disturbed
  <2>1. "tag" \in Steps /\ 1 \in 0 .. MaxDashboards
    BY BoundsAssumption DEF Steps
  <2> QED
    BY <2>1, NextStepType DEF Inv
<1> HIDE DEF next, row
<1>4. /\ DashboardsTyped' /\ Len(dashboards'[title]) = 1
      /\ dashboards'[title][1].configuration = run.version
  BY <1>1, <1>2, FirstDashboard
<1>5. TypeOK' /\ AlertsExist'
  BY <1>1, <1>3, <1>4, DashboardCallType, AlertsUntouched DEF Inv
<1>6. CASE run' = next
  <2>1. /\ Valid(run.version)' /\ outcome'.action = "none"
        /\ Title(run.version)' = Title(run.version)
    BY <1>1, <1>3, <1>6, SameDefinitions, SameNames DEF Inv, RunFacts
  <2>2. RunFacts'
    BY <1>1, <1>3, <1>4, <1>6, <2>1 DEF RunFacts
  <2>3. DashboardProgress' /\ ConditionsProgress'
    BY <1>1, <1>3, <1>4, <1>6, <2>1 DEF DashboardProgress, ConditionsProgress, PastDashboard
  <2> QED
    BY <1>1, <1>3, <1>5, <1>6, <2>2, <2>3, RunGoesOn
<1>7. CASE run' = Idle
  BY <1>1, <1>5, <1>7, AnswerLost
<1> QED
  BY <1>1, <1>6, <1>7

-----------------------------------------------------------------------------
(***************************************************************************)
(* The policy and its conditions.                                          *)
(***************************************************************************)

\* A run that has done what it is for may say so.
LEMMA SucceedInv ==
  ASSUME Inv, Succeed, run.step # "idle",
         ~run.disturbed =>
           IF run.action = "apply" THEN Guarded(run.version)
           ELSE \A name \in Names : ~Current(name).enabled
  PROVE  Inv'
<1> DEFINE done == [action |-> run.action, version |-> run.version]
<1>1. /\ run' = Idle /\ outcome' = IF run.disturbed THEN Unknown ELSE done
      /\ UNCHANGED <<profile, version, dashboards, policies, conditions, faults, hands>>
  BY DEF Succeed
<1>2. done \in Outcomes
  BY RunType DEF Inv, Outcomes
<1>3. TypeOK' /\ AlertsExist'
  <2> HIDE DEF done
  <2> QED
    BY <1>1, <1>2, ConstantTypes DEF Inv, TypeOK, AlertsExist, Present
<1>4. CASE run.disturbed
  BY <1>1, <1>3, <1>4, ConstantTypes, RunEnds
<1>5. CASE ~run.disturbed
  <2>1. outcome'.action = run.action /\ outcome'.version = run.version
    BY <1>1, <1>5
  <2>2. RunFacts'
    BY <1>1, ConstantTypes DEF RunFacts
  <2>3. DashboardProgress' /\ ConditionsProgress'
    BY <1>1, ConstantTypes DEF DashboardProgress, ConditionsProgress, PastDashboard
  <2>4. AppliedMeansGuarded'
    <3> SUFFICES ASSUME run.action = "apply" PROVE Guarded(outcome.version)'
      BY <2>1 DEF AppliedMeansGuarded
    <3>1. Guarded(run.version)
      BY <1>5
    <3> QED
      BY <1>1, <2>1, <3>1 DEF Guarded, Expected, Title, Owner, PolicyName, Named
  <2>5. DisabledMeansSilent'
    BY <1>1, <1>5, <2>1 DEF DisabledMeansSilent, PolicyName, Named
  <2> QED
    BY <1>3, <2>2, <2>3, <2>4, <2>5 DEF Inv, DoneAsAsked
<1> QED
  BY <1>4, <1>5

\* The run goes on to a step of the policy, having found what it relies on.
LEMMA PolicyGoesOn ==
  ASSUME Inv, run.step \in {"policy", "policyCreate", "policyUpdate"},
         NEW step \in {"policyCreate", "policyUpdate", "conditions"},
         run' = [run EXCEPT !.step = step],
         UNCHANGED <<profile, version, dashboards, conditions, outcome, hands, faults>>,
         policies' \in [Range(PolicyNames) -> Nat], AlertsExist',
         step \in {"policyCreate", "policyUpdate"} => run.action = "apply",
         step = "policyCreate" => policies'[PolicyName(run.version)] = 0,
         step # "policyCreate" => policies'[PolicyName(run.version)] = 1
  PROVE  Inv'
<1> DEFINE next == [run EXCEPT !.step = step]
<1>1. /\ next \in Runs /\ next.step = step /\ next.version = run.version
      /\ next.action = run.action /\ next.disturbed = run.disturbed
  BY NextStepKeeps DEF Inv, Steps
<1>2. run' = next
  OBVIOUS
<1> HIDE DEF next
<1>3. /\ Valid(run.version)' /\ outcome'.action = "none"
      /\ Title(run.version)' = Title(run.version)
      /\ Owner(run.version)' = Owner(run.version)
      /\ PolicyName(run.version)' = PolicyName(run.version)
  BY <1>1, <1>2, SameDefinitions, SameNames DEF Inv, RunFacts
<1>4. TypeOK'
  BY <1>1, <1>2 DEF Inv, TypeOK
<1>5. RunFacts'
  BY <1>1, <1>2, <1>3 DEF RunFacts
<1>6. DashboardProgress' /\ ConditionsProgress'
  BY <1>1, <1>2, <1>3 DEF Inv, DashboardProgress, ConditionsProgress, PastDashboard
<1> QED
  BY <1>1, <1>2, <1>4, <1>5, <1>6, RunGoesOn

LEMMA FindPolicyInv ==
  ASSUME Inv, FindPolicy
  PROVE  Inv'
<1>1. run.step = "policy" /\ run.action \in {"apply", "disable"}
  BY RunType DEF FindPolicy, Inv, Actions
<1>0. PolicyName(run.version) \in Range(PolicyNames)
      /\ policies \in [Range(PolicyNames) -> Nat]
  BY RunType, NamesType DEF Inv, TypeOK
<1>2. CASE Refuse
  BY <1>1, <1>2, RefuseInv
<1>3. CASE PoliciesFound = 0 /\ run.action = "disable" /\ Succeed
  <2>1. \A name \in Names : ~Current(name).enabled
    BY <1>0, <1>3, ConstantTypes DEF Inv, AlertsExist
  <2> QED
    BY <1>1, <1>3, <2>1, SucceedInv
<1>4. CASE PoliciesFound = 0 /\ run.action = "apply" /\ Continue([run EXCEPT !.step = "policyCreate"])
  BY <1>0, <1>1, <1>4, PolicyGoesOn, AlertsUntouched DEF Inv
<1>5. CASE PoliciesFound = 1 /\ run.action = "disable" /\ Continue([run EXCEPT !.step = "conditions"])
  BY <1>0, <1>1, <1>5, PolicyGoesOn, AlertsUntouched DEF Inv
<1>6. CASE PoliciesFound = 1 /\ run.action = "apply" /\ Continue([run EXCEPT !.step = "policyUpdate"])
  BY <1>0, <1>1, <1>6, PolicyGoesOn, AlertsUntouched DEF Inv
<1> QED
  BY <1>2, <1>3, <1>4, <1>5, <1>6 DEF FindPolicy

LEMMA UpdatePolicyInv ==
  ASSUME Inv, UpdatePolicy
  PROVE  Inv'
<1>1. /\ run.step = "policyUpdate" /\ PoliciesFound = 1 /\ policies' = policies
      /\ policies \in [Range(PolicyNames) -> Nat]
  BY DEF UpdatePolicy, Inv, RunFacts, TypeOK
<1> QED
  BY <1>1, PolicyGoesOn, AlertsUntouched DEF UpdatePolicy, Inv

LEMMA CreatePolicyInv ==
  ASSUME Inv, CreatePolicy
  PROVE  Inv'
<1>0. PolicyName(run.version) \in Range(PolicyNames)
  BY RunType, NamesType DEF Inv
<1>6. run.step = "policyCreate" /\ PoliciesFound = 0
  BY DEF CreatePolicy, Inv, RunFacts
<1>7. PoliciesFound + 1 = 1
  BY <1>6
<1>1. /\ run.step = "policyCreate" /\ PoliciesFound = 0
      /\ policies' = [policies EXCEPT ![PolicyName(run.version)] = 1]
      /\ UNCHANGED <<profile, version, dashboards, conditions, outcome, hands>>
  BY <1>6, <1>7 DEF CreatePolicy
<1>5. /\ policies' \in [Range(PolicyNames) -> Nat]
      /\ policies'[PolicyName(run.version)] = 1
      /\ \A policy \in Range(PolicyNames) :
           policies'[policy] = policies[policy] \/ policies'[policy] = 1
  BY <1>0, <1>1 DEF Inv, TypeOK
<1>2. AlertsExist'
  BY <1>1, <1>5 DEF Inv, AlertsExist
<1>3. CASE run' = [run EXCEPT !.step = "conditions"] /\ UNCHANGED faults
  BY <1>1, <1>2, <1>3, <1>5, PolicyGoesOn
<1>4. CASE run' = Idle /\ faults < MaxFaults /\ faults' = faults + 1
  <2>1. faults' \in 0 .. MaxFaults
    BY <1>4, BoundsAssumption DEF Inv, TypeOK
  <2>2. TypeOK'
    BY <1>1, <1>4, <1>5, <2>1, ConstantTypes DEF Inv, TypeOK
  <2> QED
    BY <1>1, <1>2, <1>4, <2>2, AnswerLost
<1> QED
  BY <1>3, <1>4 DEF CreatePolicy

\* A step among the conditions: what is no longer to do is as it should be.
LEMMA ConditionsGoOn ==
  ASSUME Inv, run.step # "idle", NEW next \in Runs, run' = next,
         next.step \in {"condition", "recreate"},
         next.version = run.version, next.action = run.action,
         next.disturbed = run.disturbed,
         run.step \in {"conditions", "condition", "recreate"},
         UNCHANGED <<profile, version, dashboards, policies, outcome, hands, faults>>,
         conditions' \in [Range(PolicyNames) -> [Names -> Conditions]], AlertsExist',
         NEW policy, policy = PolicyName(run.version),
         next.todo \subseteq Expected(run.version),
         \A name \in Names \ Expected(run.version) :
           conditions'[policy][name].configuration = 0,
         ~run.disturbed =>
           \A name \in Expected(run.version) \ next.todo :
             IF run.action = "apply" THEN conditions'[policy][name] = Desired
             ELSE ~conditions'[policy][name].enabled
  PROVE  Inv'
<1>1. /\ Valid(run.version)' /\ outcome'.action = "none"
      /\ policies[policy] = 1
      /\ Expected(run.version)' = Expected(run.version)
      /\ Title(run.version)' = Title(run.version)
      /\ Owner(run.version)' = Owner(run.version)
      /\ PolicyName(run.version)' = policy
  BY SameDefinitions, SameNames DEF Inv, RunFacts
<1>2. TypeOK'
  BY DEF Inv, TypeOK
<1>3. RunFacts'
  BY <1>1 DEF RunFacts
<1>4. DashboardProgress'
  BY <1>1 DEF Inv, DashboardProgress, PastDashboard
<1>5. Desired' = Desired
  BY DEF Desired
<1>6. ConditionsProgress'
  BY <1>1, <1>5 DEF ConditionsProgress
<1> QED
  BY <1>2, <1>3, <1>4, <1>6, RunGoesOn

LEMMA FindConditionsInv ==
  ASSUME Inv, FindConditions
  PROVE  Inv'
<1>1. run.step = "conditions"
  BY DEF FindConditions
<1>2. CASE Refuse
  BY <1>1, <1>2, RefuseInv
<1>3. CASE /\ \A name \in Names \ Expected(run.version) : ~There(name)
           /\ Continue([run EXCEPT !.step = "condition", !.todo = Expected(run.version)])
  <2> DEFINE todo == Expected(run.version)
             next == [run EXCEPT !.step = "condition", !.todo = todo]
  <2>1. todo \subseteq Names
    BY RunType, DefinitionsAssumption DEF Inv, Expected, Versions
  <2>2. /\ next \in Runs /\ next.step = "condition" /\ next.todo = todo
        /\ next.version = run.version /\ next.action = run.action
        /\ next.disturbed = run.disturbed
    <3> HIDE DEF todo
    <3> QED
      BY <2>1, RunType DEF Inv, Runs, Steps
  <2>3. run' = next /\ AlertsExist'
        /\ conditions' \in [Range(PolicyNames) -> [Names -> Conditions]]
        /\ UNCHANGED <<profile, version, dashboards, policies, conditions, outcome, hands, faults>>
    BY <1>3, AlertsUntouched DEF Inv, TypeOK
  <2> HIDE DEF next
  <2> QED
    BY <1>1, <1>3, <2>2, <2>3, ConditionsGoOn
<1> QED
  BY <1>2, <1>3 DEF FindConditions

LEMMA DoneType ==
  ASSUME TypeOK, NEW name
  PROVE  LET next == Done(name)
         IN  /\ next \in Runs /\ next.step = "condition" /\ next.todo = run.todo \ {name}
             /\ next.version = run.version /\ next.action = run.action
             /\ next.disturbed = run.disturbed
BY RunType DEF Runs, Steps

LEMMA DesiredType ==
  ASSUME TypeOK
  PROVE  Desired \in Conditions /\ Desired.configuration # 0
         /\ Desired.enabled = (run.action = "apply") /\ Desired.configuration = run.version
         /\ Desired.static
BY RunType, ConstantTypes DEF Desired, Conditions

LEMMA DesiredOfDisable ==
  ASSUME TypeOK, run.action # "apply"
  PROVE  ~Desired.enabled
<1>1. Desired.enabled = (run.action = "apply")
  BY DesiredType
<1> QED
  BY <1>1

LEMMA KeepConditionInv ==
  ASSUME Inv, NEW name \in run.todo, KeepCondition(name)
  PROVE  Inv'
<1> DEFINE next == Done(name)
<1>1. /\ run.step = "condition" /\ run' = next /\ Settled(name)
      /\ UNCHANGED <<profile, version, dashboards, policies, conditions, outcome, hands, faults>>
  BY DEF KeepCondition
<1>2. /\ next \in Runs /\ next.step = "condition" /\ next.todo = run.todo \ {name}
      /\ next.version = run.version /\ next.action = run.action
      /\ next.disturbed = run.disturbed
  BY DoneType DEF Inv
<1> HIDE DEF next
<1>3. name \in Names
  BY RunType DEF Inv
<1>7. PolicyName(run.version) \in Range(PolicyNames)
  BY RunType, NamesType DEF Inv
<1>4. IF run.action = "apply" THEN Current(name) = Desired ELSE ~Current(name).enabled
  <2>1. Current(name) = Desired \/ (Current(name) = Absent /\ run.action = "disable")
    BY <1>1, <1>3, <1>7 DEF Settled, Matches, Inv, AlertsExist
  <2> QED
    BY <2>1, ConstantTypes, DesiredOfDisable DEF Inv
<1>5. /\ run.todo \subseteq Expected(run.version)
      /\ \A n \in Names \ Expected(run.version) : Current(n).configuration = 0
      /\ ~run.disturbed =>
           \A n \in Expected(run.version) \ run.todo :
             IF run.action = "apply" THEN Current(n) = Desired ELSE ~Current(n).enabled
  BY <1>1 DEF Inv, RunFacts, ConditionsProgress
<1>6. conditions' \in [Range(PolicyNames) -> [Names -> Conditions]] /\ AlertsExist'
  BY <1>1, AlertsUntouched DEF Inv, TypeOK
<1> QED
  BY <1>1, <1>2, <1>4, <1>5, <1>6, ConditionsGoOn

LEMMA ConditionReplaced ==
  ASSUME TypeOK, NEW policy \in Range(PolicyNames), NEW name \in Names, NEW c \in Conditions,
         conditions' = [conditions EXCEPT ![policy][name] = c]
  PROVE  /\ conditions' \in [Range(PolicyNames) -> [Names -> Conditions]]
         /\ conditions'[policy][name] = c
         /\ \A p \in Range(PolicyNames), n \in Names :
              p # policy \/ n # name => conditions'[p][n] = conditions[p][n]
BY DEF TypeOK

LEMMA ConditionPut ==
  ASSUME Inv, run.step \in {"condition", "recreate"}, NEW name \in run.todo,
         NEW c \in Conditions, NEW next \in Runs, PutCondition(name, c, next),
         next.step \in {"condition", "recreate"},
         next.version = run.version, next.action = run.action,
         next.disturbed = run.disturbed,
         c.configuration = 0 => c = Absent,
         \/ next.todo = run.todo
         \/ next.todo = run.todo \ {name} /\ c = Desired
  PROVE  Inv'
<1>7. PICK policy : policy = PolicyName(run.version)
  OBVIOUS
<1>1. /\ conditions' = [conditions EXCEPT ![policy][name] = c]
      /\ UNCHANGED <<profile, version, dashboards, policies, outcome, hands>>
      /\ \/ run' = next /\ UNCHANGED faults
         \/ run' = Idle /\ faults < MaxFaults /\ faults' = faults + 1
  BY <1>7
<1>2. /\ name \in Names /\ policies[policy] = 1 /\ policy \in Range(PolicyNames)
      /\ run.todo \subseteq Expected(run.version)
      /\ \A n \in Names \ Expected(run.version) : conditions[policy][n].configuration = 0
      /\ ~run.disturbed =>
           \A n \in Expected(run.version) \ run.todo :
             IF run.action = "apply" THEN conditions[policy][n] = Desired
             ELSE ~conditions[policy][n].enabled
  BY <1>7, RunType, NamesType DEF Inv, RunFacts, ConditionsProgress
<1>3. /\ conditions' \in [Range(PolicyNames) -> [Names -> Conditions]]
      /\ conditions'[policy][name] = c
      /\ \A p \in Range(PolicyNames), n \in Names :
           p # policy \/ n # name => conditions'[p][n] = conditions[p][n]
  <2>1. conditions \in [Range(PolicyNames) -> [Names -> Conditions]]
    BY DEF Inv, TypeOK
  <2>2. name \in Names /\ policy \in Range(PolicyNames)
    BY <1>2
  <2>3. conditions' = [conditions EXCEPT ![policy][name] = c]
    BY <1>1
  <2>4. conditions' \in [Range(PolicyNames) -> [Names -> Conditions]]
    <3> DEFINE row == [conditions[policy] EXCEPT ![name] = c]
    <3>1. row \in [Names -> Conditions]
      BY <2>1, <2>2
    <3>2. conditions' = [conditions EXCEPT ![policy] = row]
      BY <2>3
    <3> HIDE DEF row
    <3> QED
      BY <2>1, <2>2, <3>1, <3>2
  <2>5. conditions'[policy][name] = c
    BY <2>1, <2>2, <2>3
  <2>6. \A p \in Range(PolicyNames), n \in Names :
          p # policy \/ n # name => conditions'[p][n] = conditions[p][n]
    BY <2>1, <2>2, <2>3
  <2> QED
    BY <2>4, <2>5, <2>6
<1>4. AlertsExist'
  BY <1>1, <1>2, <1>3 DEF Inv, AlertsExist
<1>5. CASE run' = next /\ UNCHANGED faults
  <2>1. \A n \in Names \ Expected(run.version) : conditions'[policy][n].configuration = 0
    BY <1>2, <1>3
  <2>2. c = Desired =>
          IF run.action = "apply" THEN c = Desired ELSE ~c.enabled
    BY DesiredOfDisable DEF Inv
  <2>3. Expected(run.version) \subseteq Names
    BY RunType, DefinitionsAssumption DEF Inv, Expected, Versions
  <2>4. ~run.disturbed =>
          \A n \in Expected(run.version) \ next.todo :
            IF run.action = "apply" THEN conditions'[policy][n] = Desired
            ELSE ~conditions'[policy][n].enabled
    BY <1>2, <1>3, <2>2, <2>3
  <2> QED
    BY <1>1, <1>2, <1>3, <1>4, <1>5, <1>7, <2>1, <2>4, ConditionsGoOn
<1>6. CASE run' = Idle /\ faults < MaxFaults /\ faults' = faults + 1
  <2>1. faults' \in 0 .. MaxFaults
    BY <1>6, BoundsAssumption DEF Inv, TypeOK
  <2>2. TypeOK'
    BY <1>1, <1>3, <1>6, <2>1, ConstantTypes DEF Inv, TypeOK
  <2> QED
    BY <1>1, <1>4, <1>6, <2>2, AnswerLost
<1> QED
  BY <1>1, <1>5, <1>6

LEMMA WriteConditionInv ==
  ASSUME Inv, NEW name \in run.todo,
         CreateCondition(name) \/ UpdateCondition(name)
  PROVE  Inv'
<1>1. run.step = "condition" /\ PutCondition(name, Desired, Done(name))
  BY DEF CreateCondition, UpdateCondition
<1> DEFINE next == Done(name)
<1>2. /\ next \in Runs /\ next.step = "condition" /\ next.todo = run.todo \ {name}
      /\ next.version = run.version /\ next.action = run.action
      /\ next.disturbed = run.disturbed
  BY DoneType DEF Inv
<1>3. PutCondition(name, Desired, next)
  BY <1>1
<1> HIDE DEF next
<1> QED
  BY <1>1, <1>2, <1>3, DesiredType, ConditionPut DEF Inv

LEMMA DeleteConditionInv ==
  ASSUME Inv, NEW name \in run.todo, DeleteCondition(name)
  PROVE  Inv'
<1> DEFINE next == [run EXCEPT !.step = "recreate", !.gone = {name}]
<1>1. run.step = "condition" /\ PutCondition(name, Absent, next)
  BY DEF DeleteCondition
<1>2. /\ next \in Runs /\ next.step = "recreate" /\ next.todo = run.todo
      /\ next.version = run.version /\ next.action = run.action
      /\ next.disturbed = run.disturbed
  BY RunType DEF Inv, Runs, Steps
<1> HIDE DEF next
<1> QED
  BY <1>1, <1>2, ConstantTypes, ConditionPut

LEMMA RefuseConditionInv ==
  ASSUME Inv, NEW name \in run.todo, RefuseCondition(name)
  PROVE  Inv'
BY RefuseInv DEF RefuseCondition

LEMMA RecreateConditionInv ==
  ASSUME Inv, NEW name \in run.todo, RecreateCondition(name)
  PROVE  Inv'
<1> DEFINE next == [Done(name) EXCEPT !.gone = {}]
<1>1. run.step = "recreate" /\ PutCondition(name, Desired, next)
  BY DEF RecreateCondition
<1>2. /\ next \in Runs /\ next.step = "condition" /\ next.todo = run.todo \ {name}
      /\ next.version = run.version /\ next.action = run.action
      /\ next.disturbed = run.disturbed
  <2> DEFINE done == Done(name)
  <2>1. /\ done \in Runs /\ done.step = "condition" /\ done.todo = run.todo \ {name}
        /\ done.version = run.version /\ done.action = run.action
        /\ done.disturbed = run.disturbed
    BY DoneType DEF Inv
  <2>2. next = [done EXCEPT !.gone = {}]
    OBVIOUS
  <2> HIDE DEF done, next
  <2> QED
    BY <2>1, <2>2 DEF Runs
<1> HIDE DEF next
<1> QED
  BY <1>1, <1>2, DesiredType, ConditionPut DEF Inv

LEMMA FinishInv ==
  ASSUME Inv, Finish
  PROVE  Inv'
<1>1. run.step = "condition" /\ run.todo = {} /\ Succeed
  BY DEF Finish
<1>0. PolicyName(run.version) \in Range(PolicyNames)
  BY RunType, NamesType DEF Inv
<1>2. \A name \in Names \ Expected(run.version) : Current(name) = Absent
  BY <1>0, <1>1 DEF Inv, RunFacts, AlertsExist
<1>3. ~run.disturbed =>
        \A name \in Expected(run.version) :
          IF run.action = "apply" THEN Current(name) = Desired ELSE ~Current(name).enabled
  BY <1>1 DEF Inv, ConditionsProgress
<1>4. ASSUME ~run.disturbed, run.action = "apply" PROVE Guarded(run.version)
  <2>1. Len(Here) = 1 /\ Owned(1) /\ Here[1].configuration = run.version
    BY <1>1, <1>4 DEF Inv, DashboardProgress, PastDashboard
  <2>2. PoliciesFound = 1
    BY <1>1 DEF Inv, RunFacts
  <2>3. Desired = [enabled |-> TRUE, configuration |-> run.version, static |-> TRUE]
    BY <1>4 DEF Desired
  <2> QED
    BY <1>2, <1>3, <1>4, <2>1, <2>2, <2>3 DEF Guarded
<1>5. ASSUME ~run.disturbed, run.action # "apply"
      PROVE  \A name \in Names : ~Current(name).enabled
  BY <1>2, <1>3, <1>5, ConstantTypes
<1> QED
  BY <1>1, <1>4, <1>5, SucceedInv

-----------------------------------------------------------------------------
(***************************************************************************)
(* What others change.                                                     *)
(***************************************************************************)

\* Between runs nothing is relied on.
LEMMA BetweenRunsInv ==
  ASSUME Inv, BetweenRuns, AlertsExist', DashboardsTyped',
         policies' \in [Range(PolicyNames) -> Nat],
         conditions' \in [Range(PolicyNames) -> [Names -> Conditions]]
  PROVE  Inv'
<1>1. hands' \in 0 .. MaxFaults
  BY BoundsAssumption DEF Inv, TypeOK
<1>2. run' = Idle /\ outcome' = Unknown
  OBVIOUS
<1>3. TypeOK'
  BY <1>1, <1>2, ConstantTypes DEF Inv, TypeOK, DashboardsTyped
<1> QED
  BY <1>2, <1>3, ConstantTypes, RunEnds

LEMMA OneDashboardLess ==
  ASSUME TypeOK, NEW title \in Range(Titles), NEW guid \in DOMAIN dashboards[title]
  PROVE  /\ RemoveAt(dashboards[title], guid) \in Seq(Dashboards)
         /\ Len(RemoveAt(dashboards[title], guid)) <= MaxDashboards
<1> DEFINE old == dashboards[title]
           n == Len(old)
           before == SubSeq(old, 1, guid - 1)
           after == SubSeq(old, guid + 1, n)
<1>1. n \in Nat /\ guid \in 1 .. n /\ n <= MaxDashboards /\ old \in Seq(Dashboards)
  BY DEF TypeOK
<1> HIDE DEF old
<1>2. before \in Seq(Dashboards) /\ Len(before) = guid - 1
  BY <1>1, SubSeqProperties
<1>3. after \in Seq(Dashboards) /\ Len(after) = n - guid
  <2>1. \A i \in guid + 1 .. n : old[i] \in Dashboards
    BY <1>1, ElementOfSeq
  <2>2. guid + 1 \in 1 .. n + 1 /\ n \in guid .. n + 1
    BY <1>1
  <2> QED
    BY <1>1, <2>1, <2>2, SubSeqProperties
<1> HIDE DEF before, after
<1>4. /\ before \o after \in Seq(Dashboards)
      /\ Len(before \o after) = Len(before) + Len(after)
  BY <1>2, <1>3, ConcatProperties
<1>5. Len(before) + Len(after) <= n
  BY <1>1, <1>2, <1>3
<1>6. RemoveAt(old, guid) = before \o after
  BY DEF RemoveAt, before, after
<1>7. n <= MaxDashboards /\ n \in Nat /\ MaxDashboards \in Nat
      /\ Len(before) + Len(after) \in Nat
  BY <1>1, <1>2, <1>3, BoundsAssumption
<1>8. Len(before \o after) <= MaxDashboards
  BY <1>4, <1>5, <1>7
<1> QED
  BY <1>4, <1>6, <1>8 DEF old

LEMMA MakeDashboardInv ==
  ASSUME Inv, NEW title \in Range(Titles), MakeDashboard(title)
  PROVE  Inv'
<1> DEFINE row == [owners |-> {}, configuration |-> Foreign]
           old == dashboards[title]
           seq == Append(old, row)
<1>1. row \in Dashboards
  BY ConstantTypes DEF Dashboards
<1>2. dashboards' = [dashboards EXCEPT ![title] = seq] /\ Len(old) < MaxDashboards
      /\ UNCHANGED <<policies, conditions>> /\ BetweenRuns
  BY DEF MakeDashboard
<1>3. old \in Seq(Dashboards)
  BY DEF Inv, TypeOK
<1> HIDE DEF row, old
<1>4. seq \in Seq(Dashboards) /\ Len(seq) = Len(old) + 1
  BY <1>1, <1>3, AppendProperties
<1> HIDE DEF seq
<1>5. Len(seq) <= MaxDashboards
  BY <1>2, <1>3, <1>4, BoundsAssumption
<1>6. DashboardsTyped'
  BY <1>2, <1>4, <1>5, TitlePut DEF Inv
<1>7. /\ AlertsExist' /\ policies' \in [Range(PolicyNames) -> Nat]
      /\ conditions' \in [Range(PolicyNames) -> [Names -> Conditions]]
  BY <1>2, AlertsUntouched DEF Inv, TypeOK
<1> QED
  BY <1>2, <1>6, <1>7, BetweenRunsInv

LEMMA AdoptDashboardInv ==
  ASSUME Inv, NEW title \in Range(Titles), NEW guid \in DOMAIN dashboards[title],
         AdoptDashboard(title, guid)
  PROVE  Inv'
<1> DEFINE row == [dashboards[title][guid] EXCEPT !.owners = @ \cup {Owner(version)}]
<1>1. row \in Dashboards
  <2>1. Owner(version) \in Range(Owners)
    BY NamesType DEF Inv, TypeOK
  <2> QED
    BY <2>1, DashboardType, DashboardTagged DEF Inv
<1>2. dashboards' = [dashboards EXCEPT ![title][guid] = row]
      /\ UNCHANGED <<policies, conditions>> /\ BetweenRuns
  BY DEF AdoptDashboard
<1> HIDE DEF row
<1>3. DashboardsTyped'
  <2> DEFINE seq == [dashboards[title] EXCEPT ![guid] = row]
  <2>1. TypeOK /\ dashboards' = [dashboards EXCEPT ![title] = seq]
    BY <1>2 DEF Inv
  <2>2. Replaced(dashboards[title], guid, row, seq)
    <3>1. dashboards[title] \in Seq(Dashboards)
      BY <1>1, <2>1 DEF TypeOK
    <3> QED
      BY <1>1, <3>1, RowReplaced
  <2> HIDE DEF seq
  <2> QED
    BY <1>1, <2>1, <2>2, DashboardPut
<1>4. /\ AlertsExist' /\ policies' \in [Range(PolicyNames) -> Nat]
      /\ conditions' \in [Range(PolicyNames) -> [Names -> Conditions]]
  BY <1>2, AlertsUntouched DEF Inv, TypeOK
<1> QED
  BY <1>2, <1>3, <1>4, BetweenRunsInv

LEMMA RemoveDashboardInv ==
  ASSUME Inv, NEW title \in Range(Titles), NEW guid \in DOMAIN dashboards[title],
         RemoveDashboard(title, guid)
  PROVE  Inv'
<1>1. /\ AlertsExist' /\ policies' \in [Range(PolicyNames) -> Nat]
      /\ conditions' \in [Range(PolicyNames) -> [Names -> Conditions]]
  BY AlertsUntouched DEF RemoveDashboard, Inv, TypeOK
<1>2. DashboardsTyped'
  BY OneDashboardLess, TitlePut DEF RemoveDashboard, Inv
<1> QED
  BY <1>1, <1>2, BetweenRunsInv DEF RemoveDashboard

LEMMA MakePolicyInv ==
  ASSUME Inv, NEW policy \in Range(PolicyNames), MakePolicy(policy)
  PROVE  Inv'
<1>1. /\ policies' \in [Range(PolicyNames) -> Nat]
      /\ \A p \in Range(PolicyNames) : policies'[p] = 0 => policies[p] = 0
      /\ conditions' = conditions /\ dashboards' = dashboards /\ BetweenRuns
  BY DEF MakePolicy, Inv, TypeOK
<1>2. AlertsExist'
  BY <1>1 DEF Inv, AlertsExist
<1> QED
  BY <1>1, <1>2, BetweenRunsInv DEF Inv, TypeOK, DashboardsTyped

\* A condition is put where there is a policy, or taken away.
LEMMA ConditionByHand ==
  ASSUME Inv, NEW policy \in Range(PolicyNames), NEW name \in Names, NEW c \in Conditions,
         conditions' = [conditions EXCEPT ![policy][name] = c],
         UNCHANGED <<dashboards, policies>>,
         IF c.configuration = 0 THEN c = Absent ELSE policies[policy] # 0
  PROVE  /\ AlertsExist' /\ DashboardsTyped' /\ policies' \in [Range(PolicyNames) -> Nat]
         /\ conditions' \in [Range(PolicyNames) -> [Names -> Conditions]]
<1>1. /\ conditions' \in [Range(PolicyNames) -> [Names -> Conditions]]
      /\ conditions'[policy][name] = c
      /\ \A p \in Range(PolicyNames), n \in Names :
           p # policy \/ n # name => conditions'[p][n] = conditions[p][n]
  BY ConditionReplaced DEF Inv
<1>2. AlertsExist'
  BY <1>1 DEF Inv, AlertsExist
<1> QED
  BY <1>1, <1>2 DEF Inv, TypeOK, DashboardsTyped

LEMMA MakeConditionInv ==
  ASSUME Inv, NEW policy \in Range(PolicyNames), NEW name \in Names,
         MakeCondition(policy, name)
  PROVE  Inv'
<1>1. PICK enabled \in BOOLEAN, static \in BOOLEAN :
        conditions' = [conditions EXCEPT ![policy][name] =
                         [enabled |-> enabled, configuration |-> Foreign, static |-> static]]
  BY DEF MakeCondition
<1> DEFINE c == [enabled |-> enabled, configuration |-> Foreign, static |-> static]
<1>2. c \in Conditions /\ c.configuration # 0
  BY ConstantTypes DEF Conditions
<1>3. /\ conditions' = [conditions EXCEPT ![policy][name] = c] /\ BetweenRuns
      /\ UNCHANGED <<dashboards, policies>> /\ policies[policy] > 0
  BY <1>1 DEF MakeCondition
<1> HIDE DEF c
<1>4. policies[policy] # 0
  BY <1>3 DEF Inv, TypeOK
<1>5. /\ AlertsExist' /\ DashboardsTyped' /\ policies' \in [Range(PolicyNames) -> Nat]
      /\ conditions' \in [Range(PolicyNames) -> [Names -> Conditions]]
  BY <1>2, <1>3, <1>4, ConditionByHand
<1> QED
  BY <1>3, <1>5, BetweenRunsInv

LEMMA RemoveConditionInv ==
  ASSUME Inv, NEW policy \in Range(PolicyNames), NEW name \in Names,
         RemoveCondition(policy, name)
  PROVE  Inv'
<1>1. /\ conditions' = [conditions EXCEPT ![policy][name] = Absent]
      /\ UNCHANGED <<dashboards, policies>> /\ BetweenRuns
  BY DEF RemoveCondition
<1>2. /\ AlertsExist' /\ DashboardsTyped' /\ policies' \in [Range(PolicyNames) -> Nat]
      /\ conditions' \in [Range(PolicyNames) -> [Names -> Conditions]]
  BY <1>1, ConstantTypes, ConditionByHand
<1> QED
  BY <1>1, <1>2, BetweenRunsInv

\* During a run people change what is there, and that is put on record: of
\* what they change the run relies on nothing.
LEMMA ChangedByHand ==
  ASSUME Inv, ByHand, UNCHANGED policies, DashboardsTyped', AlertsExist',
         \A title \in Range(Titles) :
           /\ Len(dashboards'[title]) = Len(dashboards[title])
           /\ Len(dashboards[title]) = 1 =>
                dashboards[title][1].owners \subseteq dashboards'[title][1].owners,
         conditions' \in [Range(PolicyNames) -> [Names -> Conditions]],
         \A policy \in Range(PolicyNames), name \in Names :
           ~Present(policy, name) => conditions'[policy][name].configuration = 0
  PROVE  Inv'
<1>1. hands' \in 0 .. MaxFaults /\ outcome' = Unknown
  BY BoundsAssumption DEF Inv, TypeOK
<1>3. CASE run = Idle
  <2>1. run' = Idle
    BY <1>3
  <2>2. TypeOK'
    BY <1>1, <2>1, ConstantTypes DEF Inv, TypeOK, DashboardsTyped
  <2> QED
    BY <1>1, <2>1, <2>2, ConstantTypes, RunEnds
<1>4. CASE run # Idle
  <2> DEFINE next == [run EXCEPT !.disturbed = TRUE]
  <2>1. run' = next
    BY <1>4
  <2>2. /\ next \in Runs /\ next.step = run.step /\ next.disturbed
        /\ next.version = run.version /\ next.action = run.action
        /\ next.todo = run.todo /\ next.guid = run.guid
    BY RunType DEF Inv, Runs
  <2> HIDE DEF next
  <2>3. run.step # "idle"
    BY <1>4 DEF Inv, RunFacts
  <2>4. TypeOK'
    BY <1>1, <2>1, <2>2, ConstantTypes DEF Inv, TypeOK, DashboardsTyped
  <2>5. /\ Valid(run.version)' /\ outcome'.action = "none"
        /\ Expected(run.version)' = Expected(run.version)
        /\ Title(run.version)' = Title(run.version)
        /\ Owner(run.version)' = Owner(run.version)
        /\ PolicyName(run.version)' = PolicyName(run.version)
    BY <1>1, <2>1, <2>2, <2>3, ConstantTypes, SameDefinitions, SameNames DEF Inv, RunFacts
  <2>9. Title(run.version) \in Range(Titles) /\ PolicyName(run.version) \in Range(PolicyNames)
    BY RunType, NamesType DEF Inv
  <2>6. RunFacts'
    BY <2>1, <2>2, <2>3, <2>5, <2>9 DEF Inv, RunFacts
  <2>7. DashboardProgress' /\ ConditionsProgress'
    BY <2>1, <2>2 DEF DashboardProgress, ConditionsProgress
  <2>8. DoneAsAsked'
    BY <2>5 DEF DoneAsAsked, AppliedMeansGuarded, DisabledMeansSilent
  <2> QED
    BY <2>4, <2>6, <2>7, <2>8 DEF Inv
<1> QED
  BY <1>3, <1>4

LEMMA EditDashboardInv ==
  ASSUME Inv, NEW title \in Range(Titles), NEW guid \in DOMAIN dashboards[title],
         EditDashboard(title, guid)
  PROVE  Inv'
<1> DEFINE row == [dashboards[title][guid] EXCEPT !.configuration = Foreign]
<1>1. row \in Dashboards /\ row.owners = dashboards[title][guid].owners
  BY DashboardType, DashboardConfigured, ConstantTypes DEF Inv
<1>2. dashboards' = [dashboards EXCEPT ![title][guid] = row]
      /\ UNCHANGED <<policies, conditions>> /\ ByHand
  BY DEF EditDashboard
<1> HIDE DEF row
<1>3. /\ DashboardsTyped' /\ Len(dashboards'[title]) = Len(dashboards[title])
      /\ dashboards'[title][guid] = row
      /\ \A other \in DOMAIN dashboards[title] :
           other # guid => dashboards'[title][other] = dashboards[title][other]
      /\ \A other \in Range(Titles) : other # title => dashboards'[other] = dashboards[other]
  <2> DEFINE seq == [dashboards[title] EXCEPT ![guid] = row]
  <2>1. TypeOK /\ dashboards' = [dashboards EXCEPT ![title] = seq]
    BY <1>2 DEF Inv
  <2>2. Replaced(dashboards[title], guid, row, seq)
    <3>1. dashboards[title] \in Seq(Dashboards)
      BY <1>1, <2>1 DEF TypeOK
    <3> QED
      BY <1>1, <3>1, RowReplaced
  <2> HIDE DEF seq
  <2> QED
    BY <1>1, <2>1, <2>2, DashboardPut
<1>4. ASSUME NEW other \in Range(Titles)
      PROVE  /\ Len(dashboards'[other]) = Len(dashboards[other])
             /\ Len(dashboards[other]) = 1 =>
                  dashboards[other][1].owners \subseteq dashboards'[other][1].owners
  <2>1. Len(dashboards[other]) = 1 => DOMAIN dashboards[other] = {1}
    BY DEF Inv, TypeOK
  <2> QED
    BY <1>1, <1>3, <2>1
<1>5. /\ conditions' \in [Range(PolicyNames) -> [Names -> Conditions]] /\ AlertsExist'
      /\ \A policy \in Range(PolicyNames), name \in Names :
           ~Present(policy, name) => conditions'[policy][name].configuration = 0
  BY <1>2, AlertsUntouched DEF Inv, TypeOK
<1> QED
  BY <1>2, <1>3, <1>4, <1>5, ChangedByHand

LEMMA EditConditionInv ==
  ASSUME Inv, NEW policy \in Range(PolicyNames), NEW name \in Names,
         EditCondition(policy, name)
  PROVE  Inv'
<1>1. PICK enabled \in BOOLEAN :
        conditions' = [conditions EXCEPT ![policy][name] =
                         [@ EXCEPT !.enabled = enabled, !.configuration = Foreign]]
  BY DEF EditCondition
<1> DEFINE c == [conditions[policy][name] EXCEPT !.enabled = enabled, !.configuration = Foreign]
<1>2. c \in Conditions /\ c.configuration # 0
  <2>1. conditions[policy][name] \in Conditions
    BY DEF Inv, TypeOK
  <2> QED
    BY <2>1, ConstantTypes DEF Conditions
<1>3. conditions' = [conditions EXCEPT ![policy][name] = c] /\ Present(policy, name)
      /\ UNCHANGED <<dashboards, policies>> /\ ByHand
  BY <1>1 DEF EditCondition
<1> HIDE DEF c
<1>4. policies[policy] # 0
  BY <1>3 DEF Inv, AlertsExist
<1>5. /\ AlertsExist' /\ DashboardsTyped'
      /\ conditions' \in [Range(PolicyNames) -> [Names -> Conditions]]
  BY <1>2, <1>3, <1>4, ConditionByHand
<1>6. \A p \in Range(PolicyNames), n \in Names :
        ~Present(p, n) => conditions'[p][n].configuration = 0
  BY <1>2, <1>3, ConditionReplaced DEF Inv
<1>7. \A title \in Range(Titles) :
        /\ Len(dashboards'[title]) = Len(dashboards[title])
        /\ Len(dashboards[title]) = 1 =>
             dashboards[title][1].owners \subseteq dashboards'[title][1].owners
  BY <1>3
<1> QED
  BY <1>3, <1>5, <1>6, <1>7, ChangedByHand

LEMMA ChangeDefinitionsInv ==
  ASSUME Inv, ChangeDefinitions
  PROVE  Inv'
<1>1. version' \in Versions
  BY VersionsAssumption DEF ChangeDefinitions, Inv, TypeOK, Versions
<1>2. UNCHANGED <<profile, dashboards, policies, conditions, run, outcome, faults, hands>>
  BY DEF ChangeDefinitions
<1>3. TypeOK' /\ AlertsExist'
  BY <1>1, <1>2, AlertsUntouched DEF Inv, TypeOK
<1>4. /\ Valid(run.version)' = Valid(run.version)
      /\ Expected(run.version)' = Expected(run.version)
      /\ Title(run.version)' = Title(run.version)
      /\ Owner(run.version)' = Owner(run.version)
      /\ PolicyName(run.version)' = PolicyName(run.version)
  BY <1>2, SameDefinitions, SameNames
<1>5. RunFacts'
  BY <1>2, <1>4 DEF Inv, RunFacts
<1>6. DashboardProgress' /\ ConditionsProgress'
  BY <1>2, <1>4 DEF Inv, DashboardProgress, ConditionsProgress, PastDashboard, Desired
<1>7. DoneAsAsked'
  BY <1>2 DEF Inv, DoneAsAsked, AppliedMeansGuarded, DisabledMeansSilent, Guarded, Expected,
    Title, Owner, PolicyName, Named
<1> QED
  BY <1>3, <1>5, <1>6, <1>7 DEF Inv

-----------------------------------------------------------------------------
LEMMA NextInv == Inv /\ [Next]_vars => Inv'
<1> SUFFICES ASSUME Inv, [Next]_vars PROVE Inv'
  OBVIOUS
<1>1. CASE \E action \in Actions : Start(action)
  BY <1>1, StartInv
<1>2. CASE RunStep
  <2>1. CASE ConditionStep
    BY <2>1, KeepConditionInv, WriteConditionInv, DeleteConditionInv, RecreateConditionInv,
       RefuseConditionInv, FinishInv DEF ConditionStep
  <2> QED
    BY <1>2, <2>1, FindDashboardInv, KeepDashboardInv, UpdateDashboardInv, CreateDashboardInv,
       TagDashboardInv, FindPolicyInv, CreatePolicyInv, UpdatePolicyInv, FindConditionsInv
    DEF RunStep
<1>3. CASE CallFails
  BY <1>3, CallFailsInv
<1>4. CASE Others
  BY <1>4, MakeDashboardInv, MakePolicyInv, ChangeDefinitionsInv, AdoptDashboardInv,
     RemoveDashboardInv, EditDashboardInv, MakeConditionInv, RemoveConditionInv, EditConditionInv DEF Others
<1>5. CASE UNCHANGED vars
  <2>1. UNCHANGED <<profile, version, dashboards, policies, conditions, run, outcome, faults, hands>>
    BY <1>5 DEF vars
  <2>2. TypeOK' /\ AlertsExist'
    BY <2>1, AlertsUntouched DEF Inv, TypeOK
  <2>3. /\ Valid(run.version)' = Valid(run.version)
        /\ Expected(run.version)' = Expected(run.version)
        /\ Title(run.version)' = Title(run.version)
        /\ Owner(run.version)' = Owner(run.version)
        /\ PolicyName(run.version)' = PolicyName(run.version)
    BY <2>1, SameDefinitions, SameNames
  <2>4. RunFacts'
    BY <2>1, <2>3 DEF Inv, RunFacts
  <2>5. DashboardProgress' /\ ConditionsProgress'
    BY <2>1, <2>3 DEF Inv, DashboardProgress, ConditionsProgress, PastDashboard, Desired
  <2>6. DoneAsAsked'
    BY <2>1 DEF Inv, DoneAsAsked, AppliedMeansGuarded, DisabledMeansSilent, Guarded, Expected,
      Title, Owner, PolicyName, Named
  <2> QED
    BY <2>2, <2>4, <2>5, <2>6 DEF Inv
<1> QED
  BY <1>1, <1>2, <1>3, <1>4, <1>5 DEF Next

LEMMA Invariance == Spec => []Inv
  BY InitInv, NextInv, PTL DEF Spec

\* Whatever calls fail and whatever people change, no run puts what its tables
\* have no meaning for.
THEOREM TypeCorrect == Spec => []TypeOK
<1>1. Inv => TypeOK
  BY DEF Inv
<1> QED
  BY <1>1, Invariance, PTL

\* For any definitions, any calls that fail and any changes by hand: when
\* reconcile returns from an apply, the one dashboard and the one policy that
\* have the names of its definitions are the owned, defined ones with exactly
\* the defined alerts, enabled; and when it returns from a disable no owned
\* alert of the policy that has the name can fire; until somebody changes them.
\* Of what an earlier name was given to it says nothing: a policy whose name the
\* definitions no longer give keeps its alerts on.
THEOREM RunsDoAsAsked == Spec => []DoneAsAsked
<1>1. Inv => DoneAsAsked
  BY DEF Inv
<1> QED
  BY <1>1, Invariance, PTL

-----------------------------------------------------------------------------
(***************************************************************************)
(* What a run may do, call by call.                                        *)
(***************************************************************************)

\* What StaysWithinItsTask asks of a step.
WithinTask ==
  /\ OtherNamesUntouched /\ OthersUntouched /\ OnlyReviewed
  /\ run.action = "disable" => NothingArmed
  /\ profile = "technical" => NothingDeleted

\* The version a run works with was reviewed.
LEMMA RunIsReviewed ==
  ASSUME Inv, run.step # "idle"
  PROVE  run.version \in {0} \cup {v \in Versions : Valid(v)}
BY RunType DEF Inv, RunFacts

LEMMA NothingChanges ==
  ASSUME Inv, UNCHANGED <<dashboards, policies, conditions>>
  PROVE  WithinTask
<1>1. OtherNamesUntouched /\ OthersUntouched /\ NothingArmed
  BY DEF OtherNamesUntouched, OthersUntouched, NothingArmed
<1>2. OnlyReviewed
  BY DEF OnlyReviewed
<1>3. \A title \in Range(Titles) : Len(dashboards'[title]) >= Len(dashboards[title])
  BY DEF Inv, TypeOK
<1>4. \A policy \in Range(PolicyNames), name \in Names :
        Present(policy, name) => conditions'[policy][name] # Absent
  BY ConstantTypes
<1> QED
  BY <1>1, <1>2, <1>3, <1>4 DEF WithinTask, NothingDeleted

\* An apply leaves the dashboards of one name as reviewed.
LEMMA DashboardsWithin ==
  ASSUME Inv, run.action = "apply", UNCHANGED <<policies, conditions>>, DashboardsTyped',
         NEW title, title = Title(run.version),
         \A other \in Range(Titles) : other # title => dashboards'[other] = dashboards[other],
         Len(dashboards'[title]) >= Len(dashboards[title]),
         \A guid \in DOMAIN dashboards'[title] :
           dashboards'[title][guid].configuration \in
             {run.version} \cup {dashboards[title][old].configuration :
                                   old \in DOMAIN dashboards[title]},
         run.step # "idle", OthersUntouched
  PROVE  WithinTask
<1>1. OtherNamesUntouched
  BY DEF OtherNamesUntouched
<1>2. OnlyReviewed
  BY RunIsReviewed DEF OnlyReviewed
<1>3. ASSUME NEW other \in Range(Titles)
      PROVE  Len(dashboards'[other]) >= Len(dashboards[other])
  BY DEF Inv, TypeOK
<1>4. \A policy \in Range(PolicyNames), name \in Names :
        Present(policy, name) => conditions'[policy][name] # Absent
  BY ConstantTypes
<1>5. NothingDeleted
  BY <1>3, <1>4 DEF NothingDeleted
<1> QED
  BY <1>1, <1>2, <1>5 DEF WithinTask

\* An apply writes its dashboard.
LEMMA DashboardWritten ==
  ASSUME Inv, run.step \in {"update", "tag"}, NEW row \in Dashboards,
         dashboards' = [dashboards EXCEPT ![Title(run.version)][1] = row],
         UNCHANGED <<policies, conditions>>,
         row.configuration \in {run.version, Here[1].configuration},
         run.step = "tag" => row.configuration = Here[1].configuration
  PROVE  WithinTask
<1>0. PICK title : title = Title(run.version)
  OBVIOUS
<1>1. /\ run.action = "apply" /\ run.guid = 1 /\ Len(Here) = 1 /\ run.step # "idle"
      /\ run.step = "update" => Owned(1)
  BY DEF Inv, RunFacts
<1>2. /\ TypeOK /\ title \in Range(Titles)
      /\ DOMAIN dashboards[title] = {1} /\ 1 \in DOMAIN dashboards[title]
  BY <1>0, <1>1, OnlyDashboard DEF Inv
<1>7. dashboards' = [dashboards EXCEPT ![title][1] = row]
  BY <1>0
<1>3. /\ DashboardsTyped' /\ DOMAIN dashboards'[title] = {1}
      /\ dashboards'[title][1] = row /\ Len(dashboards'[title]) = 1
      /\ \A other \in Range(Titles) : other # title => dashboards'[other] = dashboards[other]
  <2> DEFINE seq == [dashboards[title] EXCEPT ![1] = row]
  <2>1. DashboardsTyped
    BY <1>2 DEF TypeOK, DashboardsTyped
  <2>2. Replaced(dashboards[title], 1, row, seq)
    BY <1>2, <2>1, RowReplaced DEF DashboardsTyped
  <2>3. /\ DOMAIN dashboards' = Range(Titles) /\ dashboards'[title] = seq
        /\ \A other \in Range(Titles) : other # title => dashboards'[other] = dashboards[other]
        /\ dashboards' = [other \in Range(Titles) |-> dashboards'[other]]
    BY <1>2, <1>7, <2>1 DEF DashboardsTyped
  <2>4. Len(dashboards[title]) = 1
    BY <1>0, <1>1
  <2> HIDE DEF seq
  <2>5. DashboardsTyped'
    BY <1>2, <2>1, <2>2, <2>3 DEF DashboardsTyped, Replaced
  <2> QED
    BY <1>2, <2>2, <2>3, <2>4, <2>5 DEF Replaced
<1>4. OthersUntouched
  BY <1>0, <1>1, <1>2, <1>3 DEF OthersUntouched
<1>5. \A guid \in DOMAIN dashboards'[title] :
        dashboards'[title][guid].configuration \in
          {run.version} \cup {dashboards[title][old].configuration :
                                old \in DOMAIN dashboards[title]}
  BY <1>2, <1>3
<1>6. Len(dashboards'[title]) >= Len(dashboards[title]) /\ title = Title(run.version)
  BY <1>0, <1>1, <1>3
<1> QED
  BY <1>1, <1>3, <1>4, <1>5, <1>6, DashboardsWithin

LEMMA CreateDashboardWithin ==
  ASSUME Inv, CreateDashboard
  PROVE  WithinTask
<1> DEFINE row == [owners |-> {}, configuration |-> run.version]
           title == Title(run.version)
<1>1. /\ run.step = "create" /\ run.action = "apply" /\ Len(dashboards[title]) = 0
      /\ dashboards' = [dashboards EXCEPT ![title] = Append(@, row)]
      /\ UNCHANGED <<policies, conditions>>
  BY DEF CreateDashboard, Inv, RunFacts
<1>2. row \in Dashboards /\ row.configuration = run.version
  BY RunType, ConstantTypes DEF Inv, Dashboards
<1> HIDE DEF row
<1>3. /\ DashboardsTyped' /\ DOMAIN dashboards[title] = {}
      /\ Len(dashboards'[title]) = 1 /\ DOMAIN dashboards'[title] = {1}
      /\ dashboards'[title][1] = row
      /\ \A other \in Range(Titles) : other # title => dashboards'[other] = dashboards[other]
  BY <1>1, <1>2, FirstDashboard
<1>4. OthersUntouched
  BY <1>3 DEF OthersUntouched
<1>5. /\ Len(dashboards'[title]) >= Len(dashboards[title]) /\ title = Title(run.version)
      /\ \A guid \in DOMAIN dashboards'[title] :
           dashboards'[title][guid].configuration = run.version
  BY <1>1, <1>2, <1>3
<1> HIDE DEF title
<1> QED
  BY <1>1, <1>3, <1>4, <1>5, DashboardsWithin

LEMMA CreatePolicyWithin ==
  ASSUME Inv, CreatePolicy
  PROVE  WithinTask
<1>1. /\ run.action = "apply" /\ UNCHANGED <<dashboards, conditions>>
      /\ policies' = [policies EXCEPT ![PolicyName(run.version)] = @ + 1]
  BY DEF CreatePolicy, Inv, RunFacts
<1>2. OthersUntouched /\ OnlyReviewed
  BY <1>1 DEF OthersUntouched, OnlyReviewed
<1>3. NothingDeleted
  BY <1>1, ConstantTypes DEF NothingDeleted, Inv, TypeOK
<1>4. OtherNamesUntouched
  BY <1>1 DEF OtherNamesUntouched, Inv, TypeOK
<1> QED
  BY <1>1, <1>2, <1>3, <1>4 DEF WithinTask

\* A condition is put, or deleted where the profile replaces conditions.
LEMMA ConditionWithin ==
  ASSUME Inv, run.step \in {"condition", "recreate"}, NEW name \in run.todo, NEW next,
         NEW c \in Conditions, PutCondition(name, c, next),
         c = Desired \/ (c = Absent /\ profile = "service-order")
  PROVE  WithinTask
<1>9. PICK policy : policy = PolicyName(run.version)
  OBVIOUS
<1>1. /\ name \in Names /\ conditions' = [conditions EXCEPT ![policy][name] = c]
      /\ UNCHANGED <<dashboards, policies>> /\ policy \in Range(PolicyNames)
  BY <1>9, RunType, NamesType DEF Inv
<1>2. /\ conditions'[policy][name] = c
      /\ \A p \in Range(PolicyNames), n \in Names :
           p # policy \/ n # name => conditions'[p][n] = conditions[p][n]
  <2>1. conditions \in [Range(PolicyNames) -> [Names -> Conditions]]
    BY DEF Inv, TypeOK
  <2> QED
    BY <1>1, <2>1
<1>3. OthersUntouched
  BY <1>1 DEF OthersUntouched
<1>4. c.configuration \in {0} \cup {v \in Versions : Valid(v)}
  BY RunIsReviewed, DesiredType, ConstantTypes DEF Inv
<1>5. OnlyReviewed
  BY <1>1, <1>2, <1>4, <1>9 DEF OnlyReviewed
<1>6. ASSUME run.action = "disable" PROVE NothingArmed
  <2>1. ~c.enabled
    BY <1>6, DesiredOfDisable, ConstantTypes DEF Inv
  <2> QED
    BY <1>1, <1>2, <2>1 DEF NothingArmed
<1>7. ASSUME profile = "technical" PROVE NothingDeleted
  <2>1. c # Absent
    BY <1>7, DesiredType, ConstantTypes DEF Inv
  <2>2. \A title \in Range(Titles) : Len(dashboards'[title]) >= Len(dashboards[title])
    BY <1>1 DEF Inv, TypeOK
  <2>3. \A p \in Range(PolicyNames), n \in Names :
          Present(p, n) => conditions'[p][n] # Absent
    BY <1>2, <2>1, ConstantTypes
  <2> QED
    BY <2>2, <2>3 DEF NothingDeleted
<1>8. OtherNamesUntouched
  <2>1. \A p \in Range(PolicyNames) : p # policy => conditions'[p] = conditions[p]
    BY <1>1 DEF Inv, TypeOK
  <2> QED
    BY <1>1, <1>9, <2>1 DEF OtherNamesUntouched
<1> QED
  BY <1>3, <1>5, <1>6, <1>7, <1>8 DEF WithinTask

LEMMA StepIsWithinTask ==
  Inv /\ [Next]_vars => [run # Idle /\ hands' = hands => WithinTask]_vars
<1> SUFFICES ASSUME Inv, Next, run # Idle, hands' = hands PROVE WithinTask
  OBVIOUS
<1>1. CASE (\E action \in Actions : Start(action)) \/ CallFails
  BY <1>1, NothingChanges DEF Start, CallFails
<1>2. CASE Others
  <2>1. hands + 1 # hands
    BY DEF Inv, TypeOK
  <2>2. ChangeDefinitions
    BY <1>2, <2>1 DEF Others, MakeDashboard, MakePolicy, AdoptDashboard, RemoveDashboard,
                      EditDashboard, MakeCondition, RemoveCondition, EditCondition
  <2> QED
    BY <2>2, NothingChanges DEF ChangeDefinitions
<1>3. CASE RunStep
  <2>1. CASE UpdateDashboard
    <3> DEFINE row == [Here[1] EXCEPT !.configuration = run.version]
    <3>1. /\ run.step = "update" /\ row \in Dashboards /\ row.configuration = run.version
          /\ dashboards' = [dashboards EXCEPT ![Title(run.version)][1] = row]
      BY <2>1, UpdateDashboardRow
    <3>2. UNCHANGED <<policies, conditions>>
      BY <2>1 DEF UpdateDashboard
    <3> HIDE DEF row
    <3> QED
      BY <3>1, <3>2, DashboardWritten
  <2>2. CASE TagDashboard
    <3> DEFINE row == [Here[1] EXCEPT !.owners = @ \cup {Owner(run.version)}]
    <3>1. /\ run.step = "tag" /\ row \in Dashboards
          /\ row.configuration = Here[1].configuration
          /\ dashboards' = [dashboards EXCEPT ![Title(run.version)][1] = row]
      BY <2>2, TagDashboardRow
    <3>2. UNCHANGED <<policies, conditions>>
      BY <2>2 DEF TagDashboard
    <3> HIDE DEF row
    <3> QED
      BY <3>1, <3>2, DashboardWritten
  <2>3. CASE ConditionStep
    <3>1. ASSUME NEW name \in run.todo,
                 CreateCondition(name) \/ UpdateCondition(name) \/ RecreateCondition(name)
          PROVE  WithinTask
      BY <3>1, ConditionWithin, DesiredType
      DEF CreateCondition, UpdateCondition, RecreateCondition, Inv
    <3>2. ASSUME NEW name \in run.todo, DeleteCondition(name) PROVE WithinTask
      BY <3>2, ConditionWithin, ConstantTypes DEF DeleteCondition
    <3> QED
      BY <2>3, <3>1, <3>2, NothingChanges
      DEF ConditionStep, KeepCondition, RefuseCondition, Finish, Succeed
  <2> QED
    BY <1>3, <2>1, <2>2, <2>3, CreateDashboardWithin, CreatePolicyWithin, NothingChanges
    DEF RunStep, FindDashboard, KeepDashboard, FindPolicy, UpdatePolicy, FindConditions, Succeed
<1> QED
  BY <1>1, <1>2, <1>3 DEF Next

\* For any definitions and any history: no call of any run, of those that fail
\* too, changes what is not the repository's or writes what was not reviewed; a
\* disable only silences; the technical profile deletes nothing.
THEOREM RunsStayWithinTheirTask == Spec => StaysWithinItsTask
<1>1. [run # Idle /\ hands' = hands => WithinTask]_vars =>
        [run # Idle /\ hands' = hands =>
           /\ OtherNamesUntouched /\ OthersUntouched /\ OnlyReviewed
           /\ run.action = "disable" => NothingArmed
           /\ profile = "technical" => NothingDeleted]_vars
  BY DEF WithinTask
<1> QED
  BY <1>1, StepIsWithinTask, Invariance, PTL DEF Spec, StaysWithinItsTask

=============================================================================
