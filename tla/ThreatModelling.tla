--------------------------- MODULE ThreatModelling ---------------------------
(***************************************************************************)
(* Threat models: a decomposition into components, the scenarios found     *)
(* against them, the controls that mitigate a scenario or the risks that   *)
(* carry it, and two signatures that make the model Active.                *)
(*                                                                         *)
(* One action is one request, one cascade of the control library, or one   *)
(* run of the promotion job.  Of the control library this module keeps     *)
(* which deployments are in service, of the register which risks there     *)
(* are and where they came from.  A day that matters is a step of the      *)
(* scenario it matters to: its window passes, its acceptance lapses.       *)
(***************************************************************************)
EXTENDS Naturals, FiniteSets

CONSTANTS
  Model, Component, Scenario, Risk, Deployment, Objective,
  ModelOf,         \* threat_components.threat_model_id
  ObjectiveOf,     \* the objective a deployment runs under
  Person, Nobody,
  SystemOwners,    \* holders of System_Owner or Admin
  AppSecTeam,      \* holders of an AppSec role or Admin
  Admins,
  RiskOwners,      \* holders of Risk_Owner or Admin
  RiskAnalysts,    \* holders of Risk_Analyst or Admin
  Severities,      \* the severities in use, among SeverityNames
  LinkTypes        \* the referencing risk link types in use

ASSUME ThreatAssumption ==
  /\ ModelOf \in [Component -> Model]
  /\ ObjectiveOf \in [Deployment -> Objective]
  /\ Nobody \notin Person \cup Risk
  /\ Admins \subseteq SystemOwners \cap AppSecTeam \cap RiskOwners \cap RiskAnalysts
  /\ SystemOwners \cup AppSecTeam \cup RiskOwners \cup RiskAnalysts \subseteq Person
  /\ Severities \subseteq {"Low", "Medium", "High", "Critical"}
  /\ LinkTypes \subseteq {"Represents", "Contributes_To"}
  /\ "Absent" \notin Scenario     \* the origin of a risk not yet listed

VARIABLES
  model,        \* the threat models
  component,    \* what each component declares
  scenario,     \* the scenarios with their links
  deployment,   \* whether a deployment is in service
  register      \* where each risk of the register came from

vars == <<model, component, scenario, deployment, register>>

Absent == "Absent"

ThreatModelStates ==
  {"Scope", "Decomposition", "Threat_Analysis", "Mitigation_Design", "Review",
   "Active", "Deprecated", "Abandoned"}

ModelRecord ==
  [lifecycle_state   : ThreatModelStates \cup {Absent},
   system_owner_id   : SystemOwners \cup {Nobody},
   appsec_partner_id : AppSecTeam \cup {Nobody},
   appsec_signoff_by : Person \cup {Nobody},
   owner_signoff_by  : Person \cup {Nobody}]

\* Unclassified handles data and does not say which; the sensitive ones
\* declare a trust zone (Zoned) or do not (Unzoned).
Declarations == {"Unclassified", "Plain", "Unzoned", "Zoned"}
Sensitive == {"Unzoned", "Zoned"}

ScenarioRecord ==
  [status            : {Absent, "Identified", "Mitigated", "Accepted", "Promoted_To_Risk"},
   component_id      : Component \cup {Nobody},
   inherent_severity : Severities \cup {Nobody},
   acceptance        : {"None", "Current", "Lapsed"},   \* acceptance_expiry and the day
   overdue           : BOOLEAN,     \* the window since it was raised or reopened is over
   promoted_risk_id  : Risk \cup {Nobody},
   mitigations       : [Deployment -> {"None", "Partial", "Full"}],
   risk_links        : [Risk -> LinkTypes \cup {"None"}]]

\* The scenario that minted a risk, or Intake for one raised elsewhere.
Origins == Scenario \cup {Absent, "Intake"}

NewModel ==
  [lifecycle_state |-> Absent, system_owner_id |-> Nobody, appsec_partner_id |-> Nobody,
   appsec_signoff_by |-> Nobody, owner_signoff_by |-> Nobody]

NewScenario ==
  [status |-> Absent, component_id |-> Nobody, inherent_severity |-> Nobody,
   acceptance |-> "None", overdue |-> FALSE, promoted_risk_id |-> Nobody,
   mitigations |-> [d \in Deployment |-> "None"],
   risk_links |-> [r \in Risk |-> "None"]]

\* The roles of TINV-12 and the lowest severity of TINV-3 are in the types.
ThreatTypeOK ==
  /\ model \in [Model -> ModelRecord]
  /\ component \in [Component -> Declarations \cup {Absent}]
  /\ scenario \in [Scenario -> ScenarioRecord]
  /\ deployment \in [Deployment -> {"Out_Of_Service", "In_Service", "Decommissioned"}]
  /\ register \in [Risk -> Origins]

Init ==
  /\ model = [m \in Model |-> NewModel]
  /\ component = [c \in Component |-> Absent]
  /\ scenario = [s \in Scenario |-> NewScenario]
  /\ deployment = [d \in Deployment |-> "Out_Of_Service"]
  /\ register = [r \in Risk |-> Absent]

-----------------------------------------------------------------------------
(* What the gates and rules read                                           *)

Exists(s) == scenario[s].status # Absent
ScenariosOf(m) == {s \in Scenario : Exists(s) /\ ModelOf[scenario[s].component_id] = m}
ComponentsOf(m) == {c \in Component : ModelOf[c] = m /\ component[c] # Absent}

Promotable(x) == x.inherent_severity # "Low"

LinkedTo(x) == {d \in Deployment : x.mitigations[d] # "None"}
FullyMitigated(x) == LinkedTo(x) # {} /\ \A d \in LinkedTo(x) : x.mitigations[d] = "Full"
BackedByLive(x) == \E d \in LinkedTo(x) : deployment[d] = "In_Service"

\* Promotion, or a link of the resolving type to a risk.
CarriedByRegister(x) ==
  \/ x.status = "Promoted_To_Risk"
  \/ x.promoted_risk_id # Nobody
  \/ \E r \in Risk : x.risk_links[r] = "Represents"

Resolved(x) == x.status \in {"Mitigated", "Accepted"} \/ CarriedByRegister(x)

Analysed(m) ==
  {c \in ComponentsOf(m) : component[c] \in Sensitive}
    \subseteq {scenario[s].component_id : s \in ScenariosOf(m)}

\* TINV-1, 3, 4, 5, 6, 7 and TM-PARTIAL, enforced on every write of a
\* scenario of model m.
ScenarioRules(m, x) ==
  /\ model[m].lifecycle_state = "Active" => Resolved(x)
  /\ x.status = "Accepted" => ~Promotable(x) /\ x.acceptance = "Current"
  /\ x.status = "Mitigated" => FullyMitigated(x) /\ BackedByLive(x)
  /\ x.status = "Promoted_To_Risk" => x.promoted_risk_id # Nobody

\* Slip: the roles of who is named are not looked at.
ModelRulesUnowned(m, x) ==
  x.lifecycle_state = "Active" =>
    /\ x.appsec_signoff_by # Nobody /\ x.owner_signoff_by # Nobody
    /\ Analysed(m)

\* TINV-12, TINV-2 and TINV-11, enforced on the writes of a model, and the
\* constraint on the AppSec signature.
ModelRules(m, x) ==
  /\ x.system_owner_id \in SystemOwners
  /\ x.appsec_partner_id \in AppSecTeam \cup {Nobody}
  /\ x.appsec_signoff_by # Nobody => x.appsec_signoff_by # x.system_owner_id
  /\ x.lifecycle_state = "Active" =>
       /\ x.appsec_signoff_by # Nobody /\ x.owner_signoff_by # Nobody
       /\ x.appsec_signoff_by # x.owner_signoff_by
       /\ Analysed(m)

-----------------------------------------------------------------------------
(* Models and components                                                   *)

StoreModel(m, x) ==
  /\ model' = [model EXCEPT ![m] = x]
  /\ ModelRules(m, x)
  /\ UNCHANGED <<component, scenario, deployment, register>>

CreateModel(m, owner, partner) ==
  /\ model[m].lifecycle_state = Absent
  /\ StoreModel(m, [NewModel EXCEPT !.lifecycle_state = "Scope",
                                    !.system_owner_id = owner,
                                    !.appsec_partner_id = partner])

UpdateModel(m, owner, partner) ==
  /\ model[m].lifecycle_state # Absent
  /\ StoreModel(m, [model[m] EXCEPT !.system_owner_id = owner,
                                    !.appsec_partner_id = partner])

StoreComponent(c, declared) ==
  /\ component' = [component EXCEPT ![c] = declared]
  /\ declared # "Unzoned"        \* TINV-9
  /\ UNCHANGED <<model, scenario, deployment, register>>

\* Components are edited in any state of their model.
AddComponent(c, declared) ==
  /\ model[ModelOf[c]].lifecycle_state # Absent
  /\ component[c] = Absent
  /\ StoreComponent(c, declared)

UpdateComponent(c, declared) ==
  /\ component[c] # Absent
  /\ StoreComponent(c, declared)

DeleteComponent(c) ==
  /\ component[c] # Absent
  /\ \A s \in ScenariosOf(ModelOf[c]) : scenario[s].component_id # c
  /\ StoreComponent(c, Absent)

-----------------------------------------------------------------------------
(* Signatures and transitions of a model                                   *)

\* The AppSec signature is a team's, and not the system owner's; nothing is
\* asked of the model's state.
SignOffAppSec(m, actor) ==
  /\ model[m].lifecycle_state # Absent
  /\ actor \in AppSecTeam
  /\ actor # model[m].system_owner_id
  /\ model' = [model EXCEPT ![m].appsec_signoff_by = actor]
  /\ UNCHANGED <<component, scenario, deployment, register>>

SignOffOwner(m, actor) ==
  /\ model[m].lifecycle_state # Absent
  /\ actor = model[m].system_owner_id \/ actor \in Admins
  /\ model' = [model EXCEPT ![m].owner_signoff_by = actor]
  /\ UNCHANGED <<component, scenario, deployment, register>>

Stripped(x) == [x EXCEPT !.appsec_signoff_by = Nobody, !.owner_signoff_by = Nobody]

ModelGate(m, source, target) ==
  /\ model[m].lifecycle_state = source
  /\ StoreModel(m, [model[m] EXCEPT !.lifecycle_state = target])

\* GATE_TM_DECOMPOSITION; the attack surface is a mandatory column.
Decompose(m) == ModelGate(m, "Scope", "Decomposition")

\* GATE_TM_ANALYSIS
Analyse(m) ==
  /\ ComponentsOf(m) # {}
  /\ \A c \in ComponentsOf(m) : component[c] # "Unclassified"
  /\ ModelGate(m, "Decomposition", "Threat_Analysis")

\* GATE_TM_MITIGATION
DesignMitigations(m) ==
  /\ ScenariosOf(m) # {}
  /\ ModelGate(m, "Threat_Analysis", "Mitigation_Design")

\* GATE_TM_REVIEW
SubmitForReview(m) ==
  /\ \A s \in ScenariosOf(m) :
       ~(scenario[s].status = "Identified" /\ scenario[s].inherent_severity \in {"High", "Critical"})
  /\ ModelGate(m, "Mitigation_Design", "Review")

\* GATE_TM_REWORK
Rework(m) == ModelGate(m, "Review", "Mitigation_Design")

\* GATE_TM_SIGNOFF; the signatures and TINV-11 are asked for by the gate
\* and by the rules of the write alike.
Activate(m) ==
  /\ \A s \in ScenariosOf(m) :
       /\ Resolved(scenario[s])
       /\ scenario[s].status = "Mitigated" => BackedByLive(scenario[s])
  /\ \A c \in ComponentsOf(m) : component[c] # "Unzoned"
  /\ ModelGate(m, "Review", "Active")

\* GATE_TM_REOPENED; its cascade strips the signatures.
Reopen(m) ==
  /\ model[m].lifecycle_state = "Active"
  /\ StoreModel(m, [Stripped(model[m]) EXCEPT !.lifecycle_state = "Review"])

\* GATE_TM_DEPRECATED
Deprecate(m) == ModelGate(m, "Active", "Deprecated")

\* GATE_TM_ABANDONED, from any state but Active, a retired one included.
Abandon(m) ==
  /\ model[m].lifecycle_state \notin {Absent, "Active"}
  /\ StoreModel(m, [model[m] EXCEPT !.lifecycle_state = "Abandoned"])

-----------------------------------------------------------------------------
(* Scenarios                                                               *)

StoreScenario(s, x) ==
  /\ scenario' = [scenario EXCEPT ![s] = x]
  /\ ScenarioRules(ModelOf[x.component_id], x)
  /\ UNCHANGED <<model, component, deployment>>

AddScenario(s, c, severity) ==
  /\ ~Exists(s) /\ component[c] # Absent
  /\ StoreScenario(s, [NewScenario EXCEPT !.status = "Identified", !.component_id = c,
                                          !.inherent_severity = severity, !.overdue = FALSE])
  /\ UNCHANGED register

\* The substance of a scenario is edited in any status.
UpdateScenario(s, c, severity) ==
  /\ Exists(s) /\ component[c] # Absent
  /\ ModelOf[c] = ModelOf[scenario[s].component_id]
  /\ StoreScenario(s, [scenario[s] EXCEPT !.component_id = c,
                                          !.inherent_severity = severity])
  /\ UNCHANGED register

\* The status follows from the whole set of links (TM-PARTIAL).
Settle(x) ==
  IF FullyMitigated(x) THEN [x EXCEPT !.status = "Mitigated"]
  ELSE IF x.status = "Mitigated" THEN [x EXCEPT !.status = "Identified", !.overdue = FALSE]
  ELSE x

\* A scenario that becomes Mitigated flags the risks that carry it, which
\* is a column of theirs no gate of this module reads (RiskLifecycle).
Mitigate(s, d, assurance) ==
  /\ Exists(s)
  /\ deployment[d] = "In_Service"
  /\ d \notin LinkedTo(scenario[s])
  /\ StoreScenario(s, Settle([scenario[s] EXCEPT !.mitigations[d] = assurance]))
  /\ UNCHANGED register

\* Slip: what is left of the links is not looked at again.
UnlinkMitigationUnchecked(s, d) ==
  /\ d \in LinkedTo(scenario[s])
  /\ LET x == [scenario[s] EXCEPT !.mitigations[d] = "None"] IN
     scenario' = [scenario EXCEPT ![s] =
       IF x.status = "Mitigated" /\ ~FullyMitigated(x)
       THEN [x EXCEPT !.status = "Identified", !.overdue = FALSE] ELSE x]
  /\ UNCHANGED <<model, component, deployment, register>>

UnlinkMitigation(s, d) ==
  LET x == [scenario[s] EXCEPT !.mitigations[d] = "None"] IN
  /\ d \in LinkedTo(scenario[s])
  /\ StoreScenario(s, IF x.status = "Mitigated" /\ ~FullyMitigated(x)
                      THEN [x EXCEPT !.status = "Identified", !.overdue = FALSE] ELSE x)
  /\ UNCHANGED register

\* A local acceptance with an expiry inside the window, from any status.
AcceptLocally(s) ==
  /\ Exists(s)
  /\ ~Promotable(scenario[s])
  /\ StoreScenario(s, [scenario[s] EXCEPT !.status = "Accepted",
                                          !.acceptance = "Current"])
  /\ UNCHANGED register

ReopenScenario(s) ==
  /\ scenario[s].status \in {"Mitigated", "Accepted"}
  /\ StoreScenario(s, [scenario[s] EXCEPT !.status = "Identified", !.overdue = FALSE])
  /\ UNCHANGED register

-----------------------------------------------------------------------------
(* The register                                                            *)

Listed(r) == register[r] # Absent

\* A reference to a risk the register has; a resolving one promotes.
LinkRisk(s, r, type) ==
  LET x == [scenario[s] EXCEPT !.risk_links[r] = type] IN
  /\ Exists(s) /\ Listed(r)
  /\ scenario[s].risk_links[r] = "None"
  /\ StoreScenario(s, IF type = "Represents" /\ x.status = "Identified"
                      THEN [x EXCEPT !.status = "Promoted_To_Risk", !.promoted_risk_id = r]
                      ELSE x)
  /\ UNCHANGED register

\* Removing a resolving link removes the promotion to the same risk, even
\* one the link did not make.
UnlinkRisk(s, r) ==
  LET type == scenario[s].risk_links[r]
      x    == [scenario[s] EXCEPT !.risk_links[r] = "None"]
      y    == [x EXCEPT !.promoted_risk_id = Nobody] IN
  /\ Exists(s) /\ type # "None"
  /\ StoreScenario(s, IF ~(type = "Represents" /\ x.promoted_risk_id = r) THEN x
                      ELSE IF y.status = "Promoted_To_Risk"
                      THEN [y EXCEPT !.status = "Identified", !.overdue = FALSE]
                      ELSE y)
  /\ UNCHANGED register

\* The record is created and committed first, then the scenario names it.
PromoteToRisk(s, r) ==
  /\ Exists(s)
  /\ scenario[s].promoted_risk_id = Nobody
  /\ ~Listed(r)
  /\ StoreScenario(s, [scenario[s] EXCEPT !.status = "Promoted_To_Risk",
                                          !.promoted_risk_id = r])
  /\ register' = [register EXCEPT ![r] = s]

\* The process stops between the two commits.
PromotionLost(s, r) ==
  /\ Exists(s)
  /\ scenario[s].promoted_risk_id = Nobody
  /\ ~Listed(r)
  /\ register' = [register EXCEPT ![r] = s]
  /\ UNCHANGED <<model, component, scenario, deployment>>

\* A risk raised elsewhere.
CreateRisk(r) ==
  /\ ~Listed(r)
  /\ register' = [register EXCEPT ![r] = "Intake"]
  /\ UNCHANGED <<model, component, scenario, deployment>>
-----------------------------------------------------------------------------
(* The control library                                                     *)

HitBy(D) == {s \in Scenario : scenario[s].status = "Mitigated" /\ LinkedTo(scenario[s]) \cap D # {}}

\* Slip: the scenario is opened and its model forgotten.
ReopenScenariosOnly(D) ==
  /\ scenario' = [s \in Scenario |->
       IF s \in HitBy(D) THEN [scenario[s] EXCEPT !.status = "Identified", !.overdue = FALSE]
       ELSE scenario[s]]
  /\ UNCHANGED model

\* TINV-4: every mitigated scenario linked to one of the deployments opens
\* again, other live links or not, and its model, if Active, is unsigned.
ReopenScenarios(D) ==
  /\ scenario' = [s \in Scenario |->
       IF s \in HitBy(D) THEN [scenario[s] EXCEPT !.status = "Identified", !.overdue = FALSE]
       ELSE scenario[s]]
  /\ model' = [m \in Model |->
       IF ScenariosOf(m) \cap HitBy(D) # {} /\ model[m].lifecycle_state = "Active"
       THEN [Stripped(model[m]) EXCEPT !.lifecycle_state = "Review"] ELSE model[m]]

Siblings(d) == {e \in Deployment : ObjectiveOf[e] = ObjectiveOf[d]}

\* control.failed reaches every deployment of the objective.
ObjectiveFails(o) ==
  /\ ReopenScenarios({d \in Deployment : ObjectiveOf[d] = o})
  /\ UNCHANGED <<component, deployment, register>>

\* deployment.failed takes an operating objective with it.
DeploymentFails(d) ==
  /\ deployment[d] = "In_Service"
  /\ deployment' = [deployment EXCEPT ![d] = "Out_Of_Service"]
  /\ ReopenScenarios({d}) \/ ReopenScenarios(Siblings(d))
  /\ UNCHANGED <<component, register>>

\* From every state: a decommissioned deployment again, too.
DeploymentDecommissioned(d) ==
  /\ deployment' = [deployment EXCEPT ![d] = "Decommissioned"]
  /\ ReopenScenarios({d})
  /\ UNCHANGED <<component, register>>

DeploymentRestored(d) ==
  /\ deployment[d] = "Out_Of_Service"
  /\ deployment' = [deployment EXCEPT ![d] = "In_Service"]
  /\ UNCHANGED <<model, component, scenario, register>>

-----------------------------------------------------------------------------
(* The calendar and the promotion job                                      *)

\* A scenario the job must not leave where it is.
Stale(s) ==
  /\ scenario[s].status = "Identified"
  /\ Promotable(scenario[s])
  /\ scenario[s].overdue
  /\ ~CarriedByRegister(scenario[s])

\* RINV-15: the job names the system owner and the AppSec partner as the
\* owner and the analyst of the new risk.
Acceptable(s) ==
  LET m == model[ModelOf[scenario[s].component_id]] IN
  /\ m.system_owner_id \in RiskOwners
  /\ m.appsec_partner_id \in RiskAnalysts \cup {Nobody}

\* Slip: only a critical scenario is due.
DueForPromotionCritical ==
  {s \in Scenario : Stale(s) /\ Acceptable(s) /\ scenario[s].inherent_severity = "Critical"}

DueForPromotion == {s \in Scenario : Stale(s) /\ Acceptable(s)}

Unlisted == {r \in Risk : ~Listed(r)}

\* One run: each accepted promotion commits, a refused one is rolled back
\* and skipped.
PromotionJob ==
  /\ DueForPromotion # {}
  /\ \E f \in [DueForPromotion -> Unlisted] :
       /\ \A s, t \in DueForPromotion : f[s] = f[t] => s = t
       /\ scenario' = [s \in Scenario |->
            IF s \in DueForPromotion
            THEN [scenario[s] EXCEPT !.status = "Promoted_To_Risk", !.promoted_risk_id = f[s]]
            ELSE scenario[s]]
       /\ register' = [r \in Risk |->
            IF \E s \in DueForPromotion : f[s] = r
            THEN CHOOSE s \in DueForPromotion : f[s] = r ELSE register[r]]
  /\ UNCHANGED <<model, component, deployment>>

\* threat.auto_promotion_days after it was raised or reopened.
WindowPasses(s) ==
  /\ scenario[s].status = "Identified"
  /\ scenario' = [scenario EXCEPT ![s].overdue = TRUE]
  /\ UNCHANGED <<model, component, deployment, register>>

\* Nothing runs on the day a local acceptance expires.
AcceptanceLapses(s) ==
  /\ scenario[s].status = "Accepted"
  /\ scenario' = [scenario EXCEPT ![s].acceptance = "Lapsed"]
  /\ UNCHANGED <<model, component, deployment, register>>

-----------------------------------------------------------------------------
(* The specification                                                       *)

ModelStep(m) ==
  \/ \E owner \in Person, partner \in Person \cup {Nobody} :
       CreateModel(m, owner, partner) \/ UpdateModel(m, owner, partner)
  \/ \E actor \in Person : SignOffAppSec(m, actor) \/ SignOffOwner(m, actor)
  \/ Decompose(m) \/ Analyse(m) \/ DesignMitigations(m) \/ SubmitForReview(m)
  \/ Rework(m) \/ Activate(m) \/ Reopen(m) \/ Deprecate(m) \/ Abandon(m)

ComponentStep(c) ==
  \/ \E declared \in Declarations : AddComponent(c, declared) \/ UpdateComponent(c, declared)
  \/ DeleteComponent(c)

ScenarioStep(s) ==
  \/ \E c \in Component, severity \in Severities :
       AddScenario(s, c, severity) \/ UpdateScenario(s, c, severity)
  \/ \E d \in Deployment :
       \/ \E assurance \in {"Partial", "Full"} : Mitigate(s, d, assurance)
       \/ UnlinkMitigation(s, d)
  \/ AcceptLocally(s)
  \/ ReopenScenario(s)
  \/ WindowPasses(s)
  \/ AcceptanceLapses(s)

RegisterLink(s, r) ==
  \/ \E type \in LinkTypes : LinkRisk(s, r, type)
  \/ UnlinkRisk(s, r)
  \/ PromoteToRisk(s, r)
  \/ PromotionLost(s, r)

DeploymentStep(d) ==
  DeploymentFails(d) \/ DeploymentDecommissioned(d) \/ DeploymentRestored(d)

Next ==
  \/ \E m \in Model : ModelStep(m)
  \/ \E c \in Component : ComponentStep(c)
  \/ \E s \in Scenario : ScenarioStep(s)
  \/ \E s \in Scenario, r \in Risk : RegisterLink(s, r)
  \/ \E r \in Risk : CreateRisk(r)
  \/ \E o \in Objective : ObjectiveFails(o)
  \/ \E d \in Deployment : DeploymentStep(d)
  \/ PromotionJob

Spec == Init /\ [][Next]_vars

\* The scheduler runs the job every day; nobody is obliged to make a request.
FairSpec == Spec /\ WF_vars(PromotionJob)

-----------------------------------------------------------------------------
(* Properties that hold                                                    *)

\* TINV-3, TINV-4, TM-PARTIAL and TINV-6 at rest.  Rules on a scenario are
\* checked when it is written; they still hold after controls fail, return
\* and leave service, after links come off and severities are edited.
EndStatesAreEarned ==
  \A s \in Scenario :
    /\ scenario[s].status = "Mitigated" =>
         FullyMitigated(scenario[s]) /\ BackedByLive(scenario[s])
    /\ scenario[s].status = "Accepted" =>
         ~Promotable(scenario[s]) /\ scenario[s].acceptance # "None"
    /\ scenario[s].promoted_risk_id # Nobody => Listed(scenario[s].promoted_risk_id)
    /\ scenario[s].status = "Promoted_To_Risk" => scenario[s].promoted_risk_id # Nobody

\* TINV-1 and the presence half of TINV-2 at rest.  An Active model bears
\* both signatures and has no scenario left open, although signatures,
\* links and controls are written without looking at the model.
ActiveIsSettled ==
  \A m \in Model : model[m].lifecycle_state = "Active" =>
    /\ model[m].appsec_signoff_by # Nobody /\ model[m].owner_signoff_by # Nobody
    /\ \A s \in ScenariosOf(m) : Resolved(scenario[s])

\* A model that falls back from Active, by request or by the failure of a
\* control, must be signed anew by both parties.
LeavingActiveUnsigns ==
  [][\A m \in Model :
       model[m].lifecycle_state = "Active" /\ model'[m].lifecycle_state = "Review" =>
         model'[m] = [Stripped(model[m]) EXCEPT !.lifecycle_state = "Review"]]_vars

\* codified-rules 20.1.  No promotable scenario stays open past its window
\* for ever while its model's people may hold the risk and the register has
\* room (a bound of the model).
StaleScenariosArePromoted ==
  \A s \in Scenario :
    []<>~(Stale(s) /\ Acceptable(s) /\ Cardinality(Unlisted) >= Cardinality(DueForPromotion))

\* The engine's contract.  Abandon applies to a deprecated model, so the one
\* state nothing leaves is Abandoned.
ModelEngine ==
  INSTANCE LifecycleEngine WITH
    Entity    <- Model,
    Initial   <- "Scope",
    States    <- ThreatModelStates,
    Terminal  <- {"Abandoned"},
    Edges     <- {<<"Scope", "Decomposition">>, <<"Decomposition", "Threat_Analysis">>,
                  <<"Threat_Analysis", "Mitigation_Design">>,
                  <<"Mitigation_Design", "Review">>, <<"Review", "Mitigation_Design">>,
                  <<"Review", "Active">>, <<"Active", "Review">>, <<"Active", "Deprecated">>},
    Wildcards <- {"Abandoned"},
    state     <- [m \in Model |-> model[m].lifecycle_state]

FollowsModelMachine == ModelEngine!Spec

-----------------------------------------------------------------------------
(* What the documents say and the code does not do                         *)

\* TINV-2: "A threat model cannot be Active without independent AppSec and
\* System Owner sign-off".
ActiveSignaturesIndependent ==
  \A m \in Model : model[m].lifecycle_state = "Active" =>
    model[m].appsec_signoff_by # model[m].owner_signoff_by

\* TINV-8: "the register never gains a duplicate exposure".
PromotedOnce ==
  \A r, q \in Risk :
    register[r] \in Scenario /\ register[r] = register[q] => r = q

\* codified-rules 20.2, as the job quotes it: "leaving it Identified
\* indefinitely is the one outcome the framework does not permit".
NothingStaysStale == \A s \in Scenario : []<>~Stale(s)

=============================================================================
