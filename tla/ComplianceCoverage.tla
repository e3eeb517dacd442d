------------------------- MODULE ComplianceCoverage -------------------------
(***************************************************************************)
(* Compliance: frameworks and their requirements, the organisation's       *)
(* position on each requirement, and the control objectives people assert  *)
(* to cover it.  A position is a claim about the estate as it runs, so the *)
(* control library revokes it when a control is lost.                      *)
(*                                                                         *)
(* Of the library this module keeps which objectives operate, which        *)
(* deployments are live, and which assets declare a framework's scope.     *)
(***************************************************************************)
CONSTANTS
  Framework, Requirement, Objective, Deployment, Asset,
  FrameworkOf,     \* compliance_requirements.framework_id
  ObjectiveOf,     \* the objective a deployment runs under
  AssetOf,         \* control_deployments.attack_surface_id
  Configured,      \* compliance.adopt of the configuration
  Unassured,       \* key controls assured below the floor of CINV-12
  NamedLevels      \* what a request may name as a coverage level

Levels == {"Full", "Partial", "Compensating"}
SatisfyingLevels == {"Full", "Compensating"}
TimeBoundLevels == {"Compensating"}

ASSUME ComplianceAssumption ==
  /\ FrameworkOf \in [Requirement -> Framework]
  /\ ObjectiveOf \in [Deployment -> Objective]
  /\ AssetOf \in [Deployment -> Asset]
  /\ Configured \subseteq Framework /\ Unassured \subseteq Objective
  /\ "None" \notin NamedLevels

VARIABLES
  adopted,      \* the frameworks the organisation is held to
  assessment,   \* the position on each requirement
  link,         \* coverage assertions, by requirement and objective
  scope,        \* the frameworks each asset declares itself inside
  objective,    \* the state of each control objective
  live          \* the deployments that are Active or Degraded

vars == <<adopted, assessment, link, scope, objective, live>>

AssessmentStates ==
  {"Not_Assessed", "Not_Applicable", "Applicable", "Covered", "Compensating", "Gap"}

Assessment ==
  [lifecycle_state     : AssessmentStates,
   rationale           : BOOLEAN,                        \* is one recorded
   compensating_expiry : {"None", "Current", "Lapsed"},  \* the date and the day
   gap_reason          : BOOLEAN]

ComplianceTypeOK ==
  /\ adopted \in SUBSET Framework
  /\ assessment \in [Requirement -> Assessment]
  /\ link \in [Requirement -> [Objective -> Levels \cup {"None"}]]
  /\ scope \in [Asset -> SUBSET Framework]
  /\ objective \in [Objective -> {"Building", "Operating", "Failure", "Deprecated"}]
  /\ live \in SUBSET Deployment

\* A position that nobody took is a missing row, which reads Not_Assessed.
Init ==
  /\ adopted = Configured
  /\ assessment = [q \in Requirement |->
       [lifecycle_state |-> "Not_Assessed", rationale |-> FALSE,
        compensating_expiry |-> "None", gap_reason |-> FALSE]]
  /\ link = [q \in Requirement |-> [o \in Objective |-> "None"]]
  /\ scope = [a \in Asset |-> {}]
  /\ objective = [o \in Objective |-> "Building"]
  /\ live = {}

-----------------------------------------------------------------------------
(* What the gates and rules read                                           *)

Satisfying(q) == {o \in Objective : link[q][o] \in SatisfyingLevels}

InScope(f) == {a \in Asset : f \in scope[a]}

\* AINV-2; with no scope declared a live deployment anywhere counts.
CoverageIsLive(q) ==
  \E d \in live :
    /\ ObjectiveOf[d] \in Satisfying(q)
    /\ objective[ObjectiveOf[d]] = "Operating"
    /\ InScope(FrameworkOf[q]) # {} => AssetOf[d] \in InScope(FrameworkOf[q])

\* AINV-1, 2, 3, 4, 8 and 9, enforced on every transition of a position.
Rules(q, x) ==
  /\ x.lifecycle_state = "Not_Applicable" => x.rationale
  /\ x.lifecycle_state = "Covered" =>
       CoverageIsLive(q) /\ InScope(FrameworkOf[q]) # {}
  /\ x.lifecycle_state = "Compensating" => x.compensating_expiry = "Current"
  /\ x.lifecycle_state # "Not_Assessed" => FrameworkOf[q] \in adopted

-----------------------------------------------------------------------------
(* Positions                                                               *)

Edges ==
  {<<"Not_Assessed", "Applicable">>, <<"Not_Assessed", "Not_Applicable">>,
   <<"Not_Applicable", "Applicable">>, <<"Applicable", "Covered">>,
   <<"Applicable", "Compensating">>, <<"Applicable", "Gap">>, <<"Covered", "Gap">>,
   <<"Compensating", "Gap">>, <<"Compensating", "Covered">>, <<"Gap", "Covered">>,
   <<"Gap", "Compensating">>, <<"Covered", "Applicable">>}

\* The gate of an edge, read on the record that carries the request already.
Gate(q, x, source, target) ==
  /\ target = "Not_Applicable" \/ source = "Not_Applicable" => x.rationale
  /\ target = "Covered" => CoverageIsLive(q)
  /\ target = "Compensating" =>
       /\ \E o \in Objective : link[q][o] \in TimeBoundLevels
       /\ x.compensating_expiry = "Current" /\ x.rationale

\* What assess writes before the gate: what the request gives, and no gap
\* reason unless the target is a gap; requirement.gap then sees to a reason.
Carried(q, target, rationale, expiry) ==
  [assessment[q] EXCEPT
     !.rationale = IF rationale = "Kept" THEN @ ELSE rationale = "Given",
     !.compensating_expiry = IF expiry = "None" THEN @ ELSE expiry,
     !.gap_reason = target = "Gap"]

\* Any failing check refuses the request with everything it carried.
Assess(q, target, rationale, expiry) ==
  LET source == assessment[q].lifecycle_state
      x      == [Carried(q, target, rationale, expiry) EXCEPT !.lifecycle_state = target]
  IN /\ <<source, target>> \in Edges
     /\ source = "Not_Assessed" /\ target = "Applicable" => FrameworkOf[q] \in adopted
     /\ Gate(q, x, source, target)
     /\ Rules(q, x)
     /\ assessment' = [assessment EXCEPT ![q] = x]
     /\ UNCHANGED <<adopted, link, scope, objective, live>>

-----------------------------------------------------------------------------
(* Coverage assertions                                                     *)

ToGap(x) == [x EXCEPT !.lifecycle_state = "Gap", !.gap_reason = TRUE]

\* Slip: a link edit leaves the position alone.
RevalidateNothing(q) == UNCHANGED assessment

\* A covered requirement without a satisfying link falls to Gap, by a
\* transition whose rules can refuse the edit.
Revalidate(q) ==
  IF /\ assessment[q].lifecycle_state = "Covered"
     /\ \A o \in Objective : link'[q][o] \notin SatisfyingLevels
  THEN /\ FrameworkOf[q] \in adopted
       /\ assessment' = [assessment EXCEPT ![q] = ToGap(@)]
  ELSE UNCHANGED assessment

\* Slip: the level is taken as it is named.
SetLinkAnyLevel(q, o, level) ==
  /\ link' = [link EXCEPT ![q][o] = level]
  /\ Revalidate(q)
  /\ UNCHANGED <<adopted, scope, objective, live>>

\* AINV-10 and CINV-12 on every assertion.
SetLink(q, o, level) ==
  /\ level \in Levels
  /\ o \notin Unassured
  /\ link' = [link EXCEPT ![q][o] = level]
  /\ Revalidate(q)
  /\ UNCHANGED <<adopted, scope, objective, live>>

LinkControl(q, o, level) == link[q][o] = "None" /\ SetLink(q, o, level)

SetCoverageLevel(q, o, level) == link[q][o] # "None" /\ SetLink(q, o, level)

UnlinkControl(q, o) ==
  /\ link[q][o] # "None"
  /\ link' = [link EXCEPT ![q][o] = "None"]
  /\ Revalidate(q)
  /\ UNCHANGED <<adopted, scope, objective, live>>

-----------------------------------------------------------------------------
(* Frameworks, scope and time: nothing here looks at a position            *)

SetAdoption(f) ==
  /\ adopted' \in {adopted \cup {f}, adopted \ {f}}
  /\ UNCHANGED <<assessment, link, scope, objective, live>>

\* A restart loads the catalogues and adopts what the configuration says.
Restart ==
  /\ adopted' = Configured
  /\ UNCHANGED <<assessment, link, scope, objective, live>>

SetAssetScopes(a, scopes) ==
  /\ scope' = [scope EXCEPT ![a] = scopes]
  /\ UNCHANGED <<adopted, assessment, link, objective, live>>

\* No job runs when a compensating position expires.
ExpiryPasses(q) ==
  /\ assessment[q].compensating_expiry = "Current"
  /\ assessment' = [assessment EXCEPT ![q].compensating_expiry = "Lapsed"]
  /\ UNCHANGED <<adopted, link, scope, objective, live>>

-----------------------------------------------------------------------------
(* The control library                                                     *)

\* Slip: any other link is taken to carry the requirement.
RevokeUnlessLinked(o) ==
  assessment' = [q \in Requirement |->
    IF assessment[q].lifecycle_state = "Covered" /\ Satisfying(q) = {o}
    THEN ToGap(assessment[q]) ELSE assessment[q]]

\* AINV-5, written to the column directly: what rested on this objective
\* and on no other operating one is a gap.
Revoke(o) ==
  assessment' = [q \in Requirement |->
    IF /\ assessment[q].lifecycle_state = "Covered"
       /\ o \in Satisfying(q)
       /\ \A p \in Satisfying(q) \ {o} : objective[p] # "Operating"
    THEN ToGap(assessment[q]) ELSE assessment[q]]

ObjectiveOperates(o) ==
  /\ objective[o] \in {"Building", "Failure"}
  /\ \E d \in live : ObjectiveOf[d] = o
  /\ objective' = [objective EXCEPT ![o] = "Operating"]
  /\ UNCHANGED <<adopted, assessment, link, scope, live>>

\* control.failed
ObjectiveFails(o) ==
  /\ objective[o] = "Operating"
  /\ objective' = [objective EXCEPT ![o] = "Failure"]
  /\ Revoke(o)
  /\ UNCHANGED <<adopted, link, scope, live>>

\* No cascade: what rested on the objective was revoked when it failed.
ObjectiveRedesigned(o) ==
  /\ objective[o] = "Failure"
  /\ objective' = [objective EXCEPT ![o] = "Building"]
  /\ UNCHANGED <<adopted, assessment, link, scope, live>>

\* control.deprecated, from every state; CINV-8 only makes it wait for risks.
ObjectiveDeprecated(o) ==
  /\ objective' = [objective EXCEPT ![o] = "Deprecated"]
  /\ Revoke(o)
  /\ UNCHANGED <<adopted, link, scope, live>>

\* deployment.failed takes an operating objective with it (DL-1).
DeploymentFails(d) ==
  /\ d \in live
  /\ live' = live \ {d}
  /\ \/ /\ objective[ObjectiveOf[d]] = "Operating"
        /\ objective' = [objective EXCEPT ![ObjectiveOf[d]] = "Failure"]
        /\ Revoke(ObjectiveOf[d])
     \/ /\ objective[ObjectiveOf[d]] # "Operating"
        /\ UNCHANGED <<objective, assessment>>
  /\ UNCHANGED <<adopted, link, scope>>

\* A decommissioned deployment leaves its objective and the positions alone.
DeploymentDecommissioned(d) ==
  /\ d \in live
  /\ live' = live \ {d}
  /\ UNCHANGED <<adopted, assessment, link, scope, objective>>

DeploymentGoesLive(d) ==
  /\ d \notin live
  /\ live' = live \cup {d}
  /\ UNCHANGED <<adopted, assessment, link, scope, objective>>

-----------------------------------------------------------------------------
(* The specification                                                       *)

Position(q) ==
  \/ \E target \in AssessmentStates, rationale \in {"Kept", "Given", "Blank"},
        expiry \in {"None", "Current", "Lapsed"} : Assess(q, target, rationale, expiry)
  \/ \E o \in Objective :
       \/ \E level \in NamedLevels : LinkControl(q, o, level) \/ SetCoverageLevel(q, o, level)
       \/ UnlinkControl(q, o)
  \/ ExpiryPasses(q)

Estate ==
  \/ \E o \in Objective :
       \/ ObjectiveOperates(o) \/ ObjectiveFails(o)
       \/ ObjectiveRedesigned(o) \/ ObjectiveDeprecated(o)
  \/ \E d \in Deployment :
       DeploymentFails(d) \/ DeploymentDecommissioned(d) \/ DeploymentGoesLive(d)
  \/ \E a \in Asset, scopes \in SUBSET Framework : SetAssetScopes(a, scopes)

Next ==
  \/ \E q \in Requirement : Position(q)
  \/ \E f \in Framework : SetAdoption(f)
  \/ Restart
  \/ Estate

Spec == Init /\ [][Next]_vars

-----------------------------------------------------------------------------
(* Properties that hold                                                    *)

\* AINV-3 at rest.  Links are edited in any position and controls come and
\* go; a covered requirement still has an assertion that can satisfy it.
CoveredIsAsserted ==
  \A q \in Requirement :
    assessment[q].lifecycle_state = "Covered" => Satisfying(q) # {}

\* AINV-1, AINV-4 and the register of gaps at rest.  An exclusion has its
\* justification, a compensating position its date, and a requirement names
\* a reason for its gap exactly while it is one, whoever moved it.
PositionsExplained ==
  \A q \in Requirement :
    /\ assessment[q].lifecycle_state = "Not_Applicable" => assessment[q].rationale
    /\ assessment[q].lifecycle_state = "Compensating" =>
         assessment[q].compensating_expiry # "None"
    /\ assessment[q].gap_reason <=> assessment[q].lifecycle_state = "Gap"

\* What a position claims is on record beside it, after any interleaving of
\* assessments, link edits, lost controls, expiries and adoptions.
PositionsAreGrounded == CoveredIsAsserted /\ PositionsExplained

\* AINV-5.  In the step that takes an objective out of operation, no
\* requirement it satisfied stays covered without another operating one.
LossRevokes ==
  [][\A o \in Objective, q \in Requirement :
       /\ objective[o] = "Operating" /\ objective'[o] # "Operating"
       /\ o \in Satisfying(q)
       /\ assessment'[q].lifecycle_state = "Covered"
       => \E p \in Satisfying(q) : objective'[p] = "Operating"]_vars

\* The engine's contract, kept by the cascades that write the column.
AssessmentEngine ==
  INSTANCE LifecycleEngine WITH
    Entity    <- Requirement,
    Absent    <- "Not_Assessed",
    Initial   <- "Not_Assessed",
    States    <- AssessmentStates,
    Terminal  <- {},
    Wildcards <- {},
    state     <- [q \in Requirement |-> assessment[q].lifecycle_state]

FollowsAssessmentMachine == AssessmentEngine!Spec

-----------------------------------------------------------------------------
(* What the documents say and the code does not do                         *)

\* AINV-2: "Re-checked on every write, so coverage cannot outlive the
\* control that carried it".
CoverageOutlivesNothing ==
  \A q \in Requirement : assessment[q].lifecycle_state = "Covered" => CoverageIsLive(q)

=============================================================================
