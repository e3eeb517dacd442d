---------------------------- MODULE ControlEstate ----------------------------
(***************************************************************************)
(* The control library with everything outside the risk register that      *)
(* rests on it: the effectiveness reviews, the compliance positions and    *)
(* the threat models.  What ComplianceCoverage and ThreatModelling assume  *)
(* of objectives and deployments is read off the library here, and the     *)
(* library's cascades reach them in the step that fires them.              *)
(*                                                                         *)
(* The composition implements both modules, and the library under reviews: *)
(* what is shown of each holds of the whole.  GovernedRisk does the same    *)
(* for the risk register.                                                  *)
(***************************************************************************)
EXTENDS EffectivenessReviews

CONSTANTS
  Framework, Requirement, Asset, FrameworkOf, AssetOf, Configured, Unassured,
  NamedLevels,                                           \* of ComplianceCoverage
  Model, Component, Scenario, Risk, ModelOf, Person, Nobody, SystemOwners,
  AppSecTeam, Admins, RiskOwners, RiskAnalysts, Severities,
  LinkTypes                                              \* of ThreatModelling

VARIABLES
  adopted, assessment, link, scope,        \* as in ComplianceCoverage
  model, component, scenario, register     \* as in ThreatModelling

complianceVars == <<adopted, assessment, link, scope>>

threatVars == <<model, component, scenario, register>>

evars == <<obj, act, dep, blocking, fired, today, review,
           adopted, assessment, link, scope, model, component, scenario, register>>

-----------------------------------------------------------------------------
(* What the dependants read of the library                                 *)

StateSeen(state) ==
  IF state \in {"Design", "Implementation", "Redesign"} THEN "Building" ELSE state

ServiceSeen(status) ==
  CASE status \in {"Active", "Degraded"} -> "In_Service"
    [] status = "Decommissioned" -> "Decommissioned"
    [] OTHER -> "Out_Of_Service"

ObjectiveSeen == [o \in Objective |-> StateSeen(obj[o].lifecycle_state)]

DeploymentSeen == [d \in Deployment |-> ServiceSeen(dep[d].deployment_status)]

Live == {d \in Deployment : InService(dep[d])}

ParentOf == [d \in Deployment |-> Parent(d)]

CC == INSTANCE ComplianceCoverage WITH
        ObjectiveOf <- ParentOf, objective <- ObjectiveSeen, live <- Live

TM == INSTANCE ThreatModelling WITH
        ObjectiveOf <- ParentOf, deployment <- DeploymentSeen

ASSUME EstateAssumption == CC!ComplianceAssumption /\ TM!ThreatAssumption

EstateInit == ReviewInit /\ CC!Init /\ TM!Init

-----------------------------------------------------------------------------
(* Steps of the library that reach the dependants                          *)

Under(o) == {d \in Deployment : Parent(d) = o}

\* Slip: the failure of an objective is news to the threat models only.
LossReachesModelsOnly(o) == UNCHANGED assessment /\ TM!ReopenScenarios(Under(o))

\* The cascade of control.failed, in both modules.
LossReaches(o) == CC!Revoke(o) /\ TM!ReopenScenarios(Under(o))

ObjectiveFails(o) == Fail(o) /\ LossReaches(o)

\* The cascade of control.deprecated is the requirements' alone.
ObjectiveRetires(o) == Deprecate(o) /\ CC!Revoke(o) /\ UNCHANGED <<model, scenario>>

\* The cascade of deployment.failed chains to control.failed, or opens the
\* scenarios of the one deployment.
DeploymentFails(d) ==
  /\ FailDeployment(d) \/ FailingTest(d)
  /\ IF obj[Parent(d)].lifecycle_state = "Operating" THEN LossReaches(Parent(d))
     ELSE UNCHANGED assessment /\ TM!ReopenScenarios({d})

\* The cascade of deployment.decommissioned leaves positions alone.
DeploymentRetires(d) ==
  Decommission(d) /\ UNCHANGED assessment /\ TM!ReopenScenarios({d})

Heard ==
  /\ \/ \E o \in Objective : ObjectiveFails(o) \/ ObjectiveRetires(o)
     \/ \E d \in Deployment : DeploymentFails(d) \/ DeploymentRetires(d)
  /\ UNCHANGED <<review, adopted, link, scope, component, register>>

-----------------------------------------------------------------------------
(* Steps that reach nobody                                                 *)

\* No dependant listens to these, not even to a degradation or a recovery.
UnheardLibrary ==
  \/ \E o \in Objective :
       \/ Implement(o) \/ Operate(o) \/ Recover(o) \/ Redesign(o) \/ Rebuild(o)
       \/ \E l \in AutomationLevels, plan \in BOOLEAN : UpdateObjective(o, l, plan)
  \/ \E a \in Activity : ActivityStep(a)
  \/ \E d \in Deployment :
       \/ CreateDeployment(d) \/ Activate(d) \/ Degrade(d)
       \/ \E rating \in AssessedRatings, evidence \in BOOLEAN :
            AssessCE(d, rating, evidence)
       \/ FailingTestElsewhere(d)
       \/ \E w \in Windows : UpdateDeployment(d, w)
  \/ Tick
  \/ Jobs
  \/ RisksMove

\* The completion of a review tells the owners of scenarios and positions,
\* and restores nothing for them (REV-3).
Unheard ==
  /\ \/ UnheardLibrary /\ UNCHANGED review
     \/ \E d \in Deployment : Repair(d) \/ PassTest(d)
     \/ \E v \in Review : Complete(v) \/ Cancel(v)
     \/ Escalate
  /\ UNCHANGED complianceVars
  /\ UNCHANGED threatVars

-----------------------------------------------------------------------------
(* Steps of the dependants                                                 *)

Idle == Quiet /\ UNCHANGED <<obj, act, dep, blocking, today, review>>

ComplianceStep ==
  /\ Idle
  /\ \/ \E q \in Requirement : CC!Position(q)
     \/ \E f \in Framework : CC!SetAdoption(f)
     \/ CC!Restart
     \/ \E a \in Asset, scopes \in SUBSET Framework : CC!SetAssetScopes(a, scopes)
  /\ UNCHANGED threatVars

ThreatStep ==
  /\ Idle
  /\ \/ \E m \in Model : TM!ModelStep(m)
     \/ \E c \in Component : TM!ComponentStep(c)
     \/ \E s \in Scenario : TM!ScenarioStep(s)
     \/ \E s \in Scenario, r \in Risk : TM!RegisterLink(s, r)
     \/ \E r \in Risk : TM!CreateRisk(r)
     \/ TM!PromotionJob
  /\ UNCHANGED complianceVars

-----------------------------------------------------------------------------
(* The specification                                                       *)

EstateNext == Heard \/ Unheard \/ ComplianceStep \/ ThreatStep

EstateSpec == EstateInit /\ [][EstateNext]_evars

-----------------------------------------------------------------------------
(* Properties                                                              *)

\* With the real library under them, positions and threat models take only
\* the steps their modules allow, each with the whole of its cascade.
ImplementsDependants == CC!Spec /\ TM!Spec

\* CINV-5, DL-1, AINV-5 and TINV-4 in one step.  However an operating
\* objective fails, by hand, by a deployment or by a test, the same step
\* freezes the risks, leaves no requirement covered by it alone, opens every
\* scenario one of its deployments mitigates and unsigns its model.
LossReachesDependants ==
  [][\A o \in Objective :
       obj[o].lifecycle_state = "Operating" /\ obj'[o].lifecycle_state = "Failure" =>
         /\ fired'[o] = "control.failed"
         /\ \A q \in Requirement :
              o \in CC!Satisfying(q) /\ assessment'[q].lifecycle_state = "Covered" =>
                \E p \in CC!Satisfying(q) : obj'[p].lifecycle_state = "Operating"
         /\ \A s \in Scenario : TM!LinkedTo(scenario[s]) \cap Under(o) # {} =>
              /\ scenario'[s].status # "Mitigated"
              /\ scenario[s].status = "Mitigated" =>
                   model'[ModelOf[scenario[s].component_id]].lifecycle_state # "Active"]_evars

\* TINV-4 against the library itself: a mitigated scenario rests on a
\* deployment in service, and an active model leaves no scenario open.
MitigationsRestOnService ==
  \A s \in Scenario :
    /\ scenario[s].status = "Mitigated" =>
         \E d \in TM!LinkedTo(scenario[s]) : InService(dep[d])
    /\ scenario[s].status # "Absent"
       /\ model[ModelOf[scenario[s].component_id]].lifecycle_state = "Active"
         => TM!Resolved(scenario[s])

=============================================================================
