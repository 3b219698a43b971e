----------------------------- MODULE Provisioning -----------------------------
(***************************************************************************)
(* The reconciliation of the dashboard and the alerts that New Relic shows *)
(* for the HML environment with the definitions kept in the repository.    *)
(*                                                                         *)
(* A run of the provisioner is a series of calls to New Relic, and keeps   *)
(* nothing between runs: what it did before is what it finds there.  A     *)
(* call can be refused, or take effect and its answer be lost; either way  *)
(* the run fails there and then, no call is tried again.  The workflow has *)
(* one run at a time.  The definitions change under it, the names they give *)
(* to things included, and people change New Relic by hand.  A run knows    *)
(* what has a name of its definitions, and nothing of what has another.     *)
(***************************************************************************)
EXTENDS Naturals, SequencesExt

CONSTANTS
  Names,          \* owned names of alert conditions
  Titles,         \* names of the dashboard by version, in the technical profile
  Owners,         \* the ownership marker by version, likewise
  PolicyNames,    \* and names of the alert policy
  Defined,        \* for each version of the definitions, the alerts it has
  Verified,       \* and those whose source of data is verified to report
  Flaws,          \* for each profile and version, the parts that break their contract
  MaxVersion,     \* bound on the versions of the definitions
  MaxDashboards,  \* bound on the dashboards of one name
  MaxFaults       \* bound on failing calls, and on changes made by hand

ASSUME VersionsAssumption == MaxVersion \in Nat \ {0}
ASSUME DefinitionsAssumption ==
  /\ Defined \in [1 .. MaxVersion -> SUBSET Names]
  /\ Verified \in [1 .. MaxVersion -> SUBSET Names]
  /\ DOMAIN Titles = 1 .. MaxVersion
  /\ DOMAIN Owners = 1 .. MaxVersion
  /\ DOMAIN PolicyNames = 1 .. MaxVersion
  /\ Flaws \in [{"technical", "service-order"} ->
                 [1 .. MaxVersion -> SUBSET {"dashboard", "queries", "alerts"}]]
ASSUME BoundsAssumption == MaxDashboards \in Nat \ {0} /\ MaxFaults \in Nat

VARIABLES
  profile,     \* which of the two sets of definitions: how it is updated
  version,     \* version of the definitions in the repository
  dashboards,  \* by name, the dashboards as the search finds them
  policies,    \* by name, the number of alert policies
  conditions,  \* by name of the policy and owned name, its alert conditions
  run,         \* the run in progress
  outcome,     \* what the last run that ended well has established
  faults,      \* calls that failed so far
  hands        \* changes made by hand so far

vars == <<profile, version, dashboards, policies, conditions, run, outcome, faults, hands>>

Versions == 1 .. MaxVersion
\* The technical definitions name the dashboard, its owner and the policy, by a
\* pattern only; the names of the service orders are given to the letter.
Named(v) == IF profile = "technical" THEN v ELSE 1
Title(v) == Titles[Named(v)]
Owner(v) == Owners[Named(v)]
PolicyName(v) == PolicyNames[Named(v)]

\* A configuration that is no version of the definitions: made by hand.
Foreign == MaxVersion + 1
Configurations == 1 .. Foreign

\* Of the technical profile only alerts on verified sources are provisioned:
\* one whose source is verified no more is as if it were defined no more.
Expected(v) == IF profile = "technical" THEN Defined[v] \cap Verified[v] ELSE Defined[v]

-----------------------------------------------------------------------------
(***************************************************************************)
(* The definitions.  What they say is told apart only by whether it is as  *)
(* reviewed: the widgets and alerts, their sources and the scope of their  *)
(* queries are fixed by the provisioner itself.                            *)
(***************************************************************************)

\* validate_definitions, the dashboard and its widgets.
TechnicalDashboardValid(v) == "dashboard" \notin Flaws["technical"][v]

\* validate_definitions, the policy and its conditions.
TechnicalAlertsValid(v) == "alerts" \notin Flaws["technical"][v]

\* Something is left once what has no verified source is dropped, which
\* reconcile finds out before its first call.
SomeEligible(v) == Expected(v) # {}

\* Every query aggregates over its declared source, within HML.
QueriesValid(v) == "queries" \notin Flaws["technical"][v]

\* validate_service_order_definitions, whose queries are given to the letter.
ServiceOrderDashboardValid(v) ==
  Flaws["service-order"][v] \cap {"dashboard", "queries"} = {}
ServiceOrderAlertsValid(v) == "alerts" \notin Flaws["service-order"][v]

\* A run of any action begins with definitions that are valid, or not at all.
Valid(v) ==
  /\ SomeEligible(v)
  /\ IF profile = "technical"
     THEN TechnicalDashboardValid(v) /\ QueriesValid(v) /\ TechnicalAlertsValid(v)
     ELSE ServiceOrderDashboardValid(v) /\ ServiceOrderAlertsValid(v)

-----------------------------------------------------------------------------
\* configuration 0: there is no such condition.  Those that a run creates are
\* NRQL conditions of the static type.
Absent == [enabled |-> FALSE, configuration |-> 0, static |-> TRUE]
Conditions == [enabled : BOOLEAN, configuration : 0 .. Foreign, static : BOOLEAN]
Present(policy, name) == conditions[policy][name].configuration # 0
Dashboards == [owners : SUBSET Range(Owners), configuration : Configurations]

Steps == {"idle", "dashboard", "update", "create", "tag", "policy", "policyCreate",
          "policyUpdate", "conditions", "condition", "recreate"}
Actions == {"apply", "disable"}
\* guid is the dashboard at hand, todo the conditions still to be looked at,
\* gone the one deleted to be created anew; disturbed is a history variable:
\* something was changed by hand since the run began.
Runs == [step : Steps, action : Actions, version : Versions, guid : 0 .. MaxDashboards,
         todo : SUBSET Names, gone : SUBSET Names, disturbed : BOOLEAN]
Idle == [step |-> "idle", action |-> "disable", version |-> 1, guid |-> 0,
         todo |-> {}, gone |-> {}, disturbed |-> FALSE]

\* Nothing is known, or a run of this action and version ended well.
Outcomes == [action : Actions \cup {"none"}, version : Versions]
Unknown == [action |-> "none", version |-> 1]

Init ==
  /\ profile \in {"technical", "service-order"}
  /\ version = 1
  /\ dashboards = [title \in Range(Titles) |-> <<>>]
  /\ policies = [policy \in Range(PolicyNames) |-> 0]
  /\ conditions = [policy \in Range(PolicyNames) |-> [name \in Names |-> Absent]]
  /\ run = Idle
  /\ outcome = Unknown
  /\ faults = 0
  /\ hands = 0

-----------------------------------------------------------------------------
(***************************************************************************)
(* Calls.                                                                  *)
(***************************************************************************)

\* A call that changed New Relic is answered, or its answer is lost.
Answered(next) ==
  \/ run' = next /\ UNCHANGED faults
  \/ run' = Idle /\ faults < MaxFaults /\ faults' = faults + 1

\* The run goes on after it has read something.
Continue(next) ==
  /\ run' = next
  /\ UNCHANGED <<profile, version, dashboards, policies, conditions, outcome, faults, hands>>

\* ProvisioningError: what was found is not the run's to change.
Refuse == Continue(Idle)

\* NerdGraphClient.execute raises and nothing was done, or the job dies.
CallFails ==
  /\ run # Idle
  /\ faults < MaxFaults
  /\ faults' = faults + 1
  /\ run' = Idle
  /\ UNCHANGED <<profile, version, dashboards, policies, conditions, outcome, hands>>

\* Mutant: the definitions are not validated.
StartUnvalidated(action) ==
  /\ run = Idle
  /\ run' = [Idle EXCEPT !.step = "dashboard", !.action = action, !.version = version]
  /\ outcome' = Unknown
  /\ UNCHANGED <<profile, version, dashboards, policies, conditions, faults, hands>>

\* The concurrency group of the workflow admits one run.  Definitions that are
\* not valid end it before its first call.
Start(action) ==
  /\ run = Idle
  /\ Valid(version)
  /\ run' = [Idle EXCEPT !.step = "dashboard", !.action = action, !.version = version]
  /\ outcome' = Unknown
  /\ UNCHANGED <<profile, version, dashboards, policies, conditions, faults, hands>>

Succeed ==
  /\ run' = Idle
  /\ outcome' = IF run.disturbed THEN Unknown
                ELSE [action |-> run.action, version |-> run.version]
  /\ UNCHANGED <<profile, version, dashboards, policies, conditions, faults, hands>>

-----------------------------------------------------------------------------
(***************************************************************************)
(* The dashboard.                                                          *)
(***************************************************************************)

\* The dashboards of the name, as the search lists them.
Here == dashboards[Title(run.version)]
Found == DOMAIN Here

\* The dashboard has the ownership tag.
Owned(guid) == Owner(run.version) \in Here[guid].owners

\* Mutant: the ownership tag is not looked at.
FindDashboardAnyOwner ==
  /\ run.step = "dashboard"
  /\ \/ Cardinality(Found) > 1 /\ Refuse
     \/ /\ Found = {1}
        /\ Continue([run EXCEPT !.step = IF run.action = "apply" THEN "update" ELSE "policy",
                                !.guid = 1])
     \/ /\ Found = {}
        /\ Continue([run EXCEPT !.step = IF run.action = "apply" THEN "create" ELSE "policy"])

\* Mutant: only a dashboard with the tag counts as there.
FindDashboardOwnedOnly ==
  /\ run.step = "dashboard"
  /\ \/ /\ Found = {1}
        /\ Owned(1)
        /\ Continue([run EXCEPT !.step = IF run.action = "apply" THEN "update" ELSE "policy",
                                !.guid = 1])
     \/ /\ \A guid \in Found : ~Owned(guid)
        /\ Continue([run EXCEPT !.step = IF run.action = "apply" THEN "create" ELSE "policy"])

\* Several dashboards of the name are ambiguous, one without the ownership
\* tag is someone else's.
FindDashboard ==
  /\ run.step = "dashboard"
  /\ \/ Cardinality(Found) > 1 /\ Refuse
     \/ Found = {1} /\ ~Owned(1) /\ Refuse
     \/ /\ Found = {1}
        /\ Owned(1)
        /\ Continue([run EXCEPT !.step = IF run.action = "apply" THEN "update" ELSE "policy",
                                !.guid = 1])
     \/ /\ Found = {}
        /\ Continue([run EXCEPT !.step = IF run.action = "apply" THEN "create" ELSE "policy"])

\* _dashboard_input.
DashboardInput == run.version

\* The dashboard found is read and compared, in all that is defined of it.
DashboardMatches == Here[run.guid].configuration = DashboardInput

KeepDashboard ==
  /\ run.step = "update"
  /\ DashboardMatches
  /\ Continue([run EXCEPT !.step = "policy"])

UpdateDashboard ==
  /\ run.step = "update"
  /\ ~DashboardMatches
  /\ dashboards' =
       [dashboards EXCEPT ![Title(run.version)][run.guid].configuration = DashboardInput]
  /\ Answered([run EXCEPT !.step = "policy"])
  /\ UNCHANGED <<profile, version, policies, conditions, outcome, hands>>

\* The identity New Relic answers a creation with.
NewGuid == Len(Here) + 1

\* Created first and tagged next: in between it is nobody's.
CreateDashboard ==
  /\ run.step = "create"
  /\ dashboards' = [dashboards EXCEPT ![Title(run.version)] =
                      Append(@, [owners |-> {}, configuration |-> DashboardInput])]
  /\ Answered([run EXCEPT !.step = "tag", !.guid = NewGuid])
  /\ UNCHANGED <<profile, version, policies, conditions, outcome, hands>>

TagDashboard ==
  /\ run.step = "tag"
  /\ dashboards' =
       [dashboards EXCEPT ![Title(run.version)][run.guid].owners = @ \cup {Owner(run.version)}]
  /\ Answered([run EXCEPT !.step = "policy"])
  /\ UNCHANGED <<profile, version, policies, conditions, outcome, hands>>

-----------------------------------------------------------------------------
(***************************************************************************)
(* The policy and its conditions.                                          *)
(***************************************************************************)

\* How many policies have the name.
PoliciesFound == policies[PolicyName(run.version)]

\* A run that disables and finds none has nothing to disable under this name.
FindPolicy ==
  /\ run.step = "policy"
  /\ \/ PoliciesFound > 1 /\ Refuse
     \/ PoliciesFound = 0 /\ run.action = "disable" /\ Succeed
     \/ PoliciesFound = 0 /\ run.action = "apply" /\ Continue([run EXCEPT !.step = "policyCreate"])
     \/ PoliciesFound = 1 /\ run.action = "disable" /\ Continue([run EXCEPT !.step = "conditions"])
     \/ PoliciesFound = 1 /\ run.action = "apply" /\ Continue([run EXCEPT !.step = "policyUpdate"])

CreatePolicy ==
  /\ run.step = "policyCreate"
  /\ policies' = [policies EXCEPT ![PolicyName(run.version)] = @ + 1]
  /\ Answered([run EXCEPT !.step = "conditions"])
  /\ UNCHANGED <<profile, version, dashboards, conditions, outcome, hands>>

\* Its incident preference is a constant of the definitions.
UpdatePolicy ==
  /\ run.step = "policyUpdate"
  /\ Continue([run EXCEPT !.step = "conditions"])

\* Mutant: owned conditions that are no longer defined are passed over.
FindConditionsLenient ==
  /\ run.step = "conditions"
  /\ Continue([run EXCEPT !.step = "condition", !.todo = Expected(run.version)])

\* The condition of the policy at hand.
Current(name) == conditions[PolicyName(run.version)][name]
There(name) == Present(PolicyName(run.version), name)

\* An owned condition that is not in the definitions needs a person.
FindConditions ==
  /\ run.step = "conditions"
  /\ \/ /\ \E name \in Names \ Expected(run.version) : There(name)
        /\ Refuse
     \/ /\ \A name \in Names \ Expected(run.version) : ~There(name)
        /\ Continue([run EXCEPT !.step = "condition", !.todo = Expected(run.version)])

\* Mutant: enabled whatever the run is for.
DesiredEnabled == [enabled |-> TRUE, configuration |-> run.version, static |-> TRUE]

\* _condition_input.
Desired ==
  [enabled |-> run.action = "apply", configuration |-> run.version, static |-> TRUE]

\* Missing, and this run only disables; or as it should be.
Matches(name) == There(name) /\ Current(name) = Desired
Settled(name) == Matches(name) \/ (~There(name) /\ run.action = "disable")

Done(name) == [run EXCEPT !.todo = @ \ {name}, !.step = "condition"]

KeepCondition(name) ==
  /\ run.step = "condition"
  /\ Settled(name)
  /\ Continue(Done(name))

PutCondition(name, condition, next) ==
  /\ conditions' = [conditions EXCEPT ![PolicyName(run.version)][name] = condition]
  /\ Answered(next)
  /\ UNCHANGED <<profile, version, dashboards, policies, outcome, hands>>

CreateCondition(name) ==
  /\ run.step = "condition"
  /\ ~There(name)
  /\ run.action = "apply"
  /\ PutCondition(name, Desired, Done(name))

\* Mutant: the update leaves the condition enabled or not, as it was.
UpdateConditionKeepEnabled(name) ==
  /\ run.step = "condition"
  /\ profile = "technical"
  /\ There(name)
  /\ ~Matches(name)
  /\ PutCondition(name, [Current(name) EXCEPT !.configuration = run.version], Done(name))

\* New Relic may refuse to make a condition of another type a static one.
UpdateCondition(name) ==
  /\ run.step = "condition"
  /\ profile = "technical"
  /\ There(name)
  /\ ~Matches(name)
  /\ PutCondition(name, Desired, Done(name))

\* Mutant: both profiles replace what one of them updates.
DeleteConditionAlways(name) ==
  /\ run.step = "condition"
  /\ There(name)
  /\ ~Matches(name)
  /\ PutCondition(name, Absent, [run EXCEPT !.step = "recreate", !.gone = {name}])

\* The service-order profile replaces a condition instead, if it is static.
DeleteCondition(name) ==
  /\ run.step = "condition"
  /\ profile = "service-order"
  /\ There(name)
  /\ ~Matches(name)
  /\ Current(name).static
  /\ PutCondition(name, Absent, [run EXCEPT !.step = "recreate", !.gone = {name}])

\* A condition of another type, which never matches, ends the run.
RefuseCondition(name) ==
  /\ run.step = "condition"
  /\ There(name)
  /\ ~Current(name).static
  /\ Refuse

\* Also when the run disables: the replacement is a disabled condition.
RecreateCondition(name) ==
  /\ run.step = "recreate"
  /\ name \in run.gone
  /\ PutCondition(name, Desired, [Done(name) EXCEPT !.gone = {}])

\* Mutant: the run ends with what it has done so far.
FinishEarly ==
  /\ run.step \in {"condition", "recreate"}
  /\ Succeed

Finish ==
  /\ run.step = "condition"
  /\ run.todo = {}
  /\ Succeed

ConditionStep ==
  \/ \E name \in run.todo : \/ KeepCondition(name) \/ CreateCondition(name)
                            \/ UpdateCondition(name) \/ DeleteCondition(name)
                            \/ RefuseCondition(name) \/ RecreateCondition(name)
  \/ Finish

RunStep ==
  \/ FindDashboard \/ KeepDashboard \/ UpdateDashboard \/ CreateDashboard \/ TagDashboard
  \/ FindPolicy \/ CreatePolicy \/ UpdatePolicy \/ FindConditions
  \/ ConditionStep

-----------------------------------------------------------------------------
(***************************************************************************)
(* What others change.                                                     *)
(***************************************************************************)

\* By hand, in New Relic: whatever a run had established is in doubt.
ByHand ==
  /\ hands < MaxFaults
  /\ hands' = hands + 1
  /\ outcome' = Unknown
  /\ run' = IF run = Idle THEN run ELSE [run EXCEPT !.disturbed = TRUE]
  /\ UNCHANGED <<profile, version, faults>>

\* People add and remove between runs only.
BetweenRuns == run = Idle /\ ByHand

MakeDashboard(title) ==
  /\ BetweenRuns
  /\ Len(dashboards[title]) < MaxDashboards
  /\ dashboards' = [dashboards EXCEPT ![title] =
                      Append(@, [owners |-> {}, configuration |-> Foreign])]
  /\ UNCHANGED <<policies, conditions>>

\* The review a refused run asks for: tag the dashboard, or remove it.
AdoptDashboard(title, guid) ==
  /\ BetweenRuns
  /\ dashboards' = [dashboards EXCEPT ![title][guid].owners = @ \cup {Owner(version)}]
  /\ UNCHANGED <<policies, conditions>>

RemoveDashboard(title, guid) ==
  /\ BetweenRuns
  /\ dashboards' = [dashboards EXCEPT ![title] = RemoveAt(@, guid)]
  /\ UNCHANGED <<policies, conditions>>

MakePolicy(policy) ==
  /\ BetweenRuns
  /\ policies' = [policies EXCEPT ![policy] = @ + 1]
  /\ UNCHANGED <<dashboards, conditions>>

\* One of an owned name, of whatever type, or another in the place of one.
MakeCondition(policy, name) ==
  /\ BetweenRuns
  /\ policies[policy] > 0
  /\ \E enabled, static \in BOOLEAN :
       conditions' = [conditions EXCEPT ![policy][name] =
                        [enabled |-> enabled, configuration |-> Foreign, static |-> static]]
  /\ UNCHANGED <<dashboards, policies>>

RemoveCondition(policy, name) ==
  /\ BetweenRuns
  /\ Present(policy, name)
  /\ conditions' = [conditions EXCEPT ![policy][name] = Absent]
  /\ UNCHANGED <<dashboards, policies>>

EditDashboard(title, guid) ==
  /\ ByHand
  /\ dashboards' = [dashboards EXCEPT ![title][guid].configuration = Foreign]
  /\ UNCHANGED <<policies, conditions>>

\* Changed, switched on or off.
EditCondition(policy, name) ==
  /\ ByHand
  /\ Present(policy, name)
  /\ \E enabled \in BOOLEAN :
       conditions' = [conditions EXCEPT ![policy][name] =
                        [@ EXCEPT !.enabled = enabled, !.configuration = Foreign]]
  /\ UNCHANGED <<dashboards, policies>>

\* Their names too, in the technical profile.
ChangeDefinitions ==
  /\ version < MaxVersion
  /\ version' = version + 1
  /\ UNCHANGED <<profile, dashboards, policies, conditions, run, outcome, faults, hands>>

Others ==
  \/ ChangeDefinitions
  \/ \E title \in Range(Titles) :
       \/ MakeDashboard(title)
       \/ \E guid \in DOMAIN dashboards[title] :
            \/ AdoptDashboard(title, guid) \/ RemoveDashboard(title, guid)
            \/ EditDashboard(title, guid)
  \/ \E policy \in Range(PolicyNames) :
       \/ MakePolicy(policy)
       \/ \E name \in Names :
            \/ MakeCondition(policy, name) \/ RemoveCondition(policy, name)
            \/ EditCondition(policy, name)

Next ==
  \/ \E action \in Actions : Start(action)
  \/ RunStep
  \/ CallFails
  \/ Others

Spec == Init /\ [][Next]_vars

\* Operators ask for another apply as long as the last one did not hold, and
\* a started run goes on.
Fairness == SF_vars(Start("apply")) /\ WF_vars(RunStep)

FairSpec == Spec /\ Fairness

-----------------------------------------------------------------------------
(***************************************************************************)
(* Properties.                                                             *)
(***************************************************************************)

\* Every variable has its type.
TypeOK ==
  /\ profile \in {"technical", "service-order"}
  /\ version \in Versions
  /\ dashboards \in [Range(Titles) -> Seq(Dashboards)]
  /\ \A title \in Range(Titles) : Len(dashboards[title]) <= MaxDashboards
  /\ policies \in [Range(PolicyNames) -> Nat]
  /\ conditions \in [Range(PolicyNames) -> [Names -> Conditions]]
  /\ run \in Runs
  /\ outcome \in Outcomes
  /\ faults \in 0 .. MaxFaults
  /\ hands \in 0 .. MaxFaults

\* What an apply of a version is for, under the names it gives.
Guarded(v) ==
  /\ Len(dashboards[Title(v)]) = 1
  /\ Owner(v) \in dashboards[Title(v)][1].owners
  /\ dashboards[Title(v)][1].configuration = v
  /\ policies[PolicyName(v)] = 1
  /\ \A name \in Names :
       conditions[PolicyName(v)][name] =
         IF name \in Expected(v) THEN [enabled |-> TRUE, configuration |-> v, static |-> TRUE]
         ELSE Absent

\* When reconcile returns from an apply, whatever state earlier failed or
\* disabled runs, earlier definitions and people have left behind: under the
\* names of its definitions New Relic holds one owned dashboard and one policy
\* with exactly the defined alerts, all enabled and as defined, until somebody
\* changes them.  Of what has an earlier name it says nothing.
AppliedMeansGuarded ==
  outcome.action = "apply" => Guarded(outcome.version)

\* When reconcile returns from a disable no owned alert of the policy that has
\* the name can fire, those of earlier definitions included.
DisabledMeansSilent ==
  outcome.action = "disable" =>
    \A name \in Names : ~conditions[PolicyName(outcome.version)][name].enabled

\* A run that ended well did what it was asked to.
DoneAsAsked == AppliedMeansGuarded /\ DisabledMeansSilent

\* What has another name than the definitions of the run give stays as it is.
OtherNamesUntouched ==
  /\ \A title \in Range(Titles) :
       title # Title(run.version) => dashboards'[title] = dashboards[title]
  /\ \A policy \in Range(PolicyNames) : policy # PolicyName(run.version) =>
       policies'[policy] = policies[policy] /\ conditions'[policy] = conditions[policy]

\* A dashboard found under the name without the ownership tag stays as it is:
\* the one a run tags is the one it has created.
OthersUntouched ==
  \A guid \in Found :
    ~Owned(guid) /\ dashboards'[Title(run.version)][guid] # Here[guid] =>
      /\ run.step = "tag"
      /\ guid = run.guid
      /\ dashboards'[Title(run.version)][guid].configuration = Here[guid].configuration

\* A disable arms nothing, also where it has to create an alert anew.
NothingArmed ==
  /\ dashboards' = dashboards
  /\ policies' = policies
  /\ \A policy \in Range(PolicyNames), name \in Names :
       conditions'[policy][name].enabled => conditions[policy][name].enabled

\* What a run leaves in New Relic is as reviewed: made of valid definitions.
OnlyReviewed ==
  LET Reviewed == {0} \cup {v \in Versions : Valid(v)}
  IN /\ \A guid \in DOMAIN dashboards'[Title(run.version)] :
          dashboards'[Title(run.version)][guid].configuration \in
            Reviewed \cup {Here[old].configuration : old \in Found}
     /\ \A name \in Names :
          conditions'[PolicyName(run.version)][name].configuration
            \in Reviewed \cup {Current(name).configuration}

NothingDeleted ==
  /\ \A title \in Range(Titles) : Len(dashboards'[title]) >= Len(dashboards[title])
  /\ \A policy \in Range(PolicyNames), name \in Names :
       Present(policy, name) => conditions'[policy][name] # Absent

\* No call of any run, of those that fail too, goes beyond what the run is
\* for: it changes nothing that is not the repository's or has another name,
\* and writes nothing that was not reviewed; a disable only silences; and the
\* reconciler of the technical profile "never deletes resources"
\* (new-relic-technical-dashboard-alerts.md).
StaysWithinItsTask ==
  [][run # Idle /\ hands' = hands =>
       /\ OtherNamesUntouched /\ OthersUntouched /\ OnlyReviewed
       /\ run.action = "disable" => NothingArmed
       /\ profile = "technical" => NothingDeleted]_vars

\* What only a person can put right.
Blocked ==
  \/ ~Valid(version)
  \/ Len(dashboards[Title(version)]) > 1
  \/ \E guid \in DOMAIN dashboards[Title(version)] :
       Owner(version) \notin dashboards[Title(version)][guid].owners
  \/ policies[PolicyName(version)] > 1
  \/ \E name \in Names \ Expected(version) : Present(PolicyName(version), name)
  \/ \E name \in Names : ~conditions[PolicyName(version)][name].static

\* Whatever a run has left half done is made good by running apply again,
\* unless the run refuses what a person has to review: in the end the newest
\* definitions are applied.
RecoversOrAsks == []<>(Blocked \/ Guarded(version))
=============================================================================
