-------------------------- MODULE ControlLifecycle --------------------------
(***************************************************************************)
(* The control library: objectives (what a control must achieve),          *)
(* activities (how) and deployments (where it runs), with their three      *)
(* state machines, the assessment of control effectiveness (CE), control   *)
(* tests, the failure of a deployment taking its objective with it and the *)
(* nightly expiry of evidence.                                             *)
(*                                                                         *)
(* One action is one request or one job run, that is one transaction.      *)
(* What a step announces to the linked risks is in fired; what the risks   *)
(* do with it is in the module RiskLifecycle.                              *)
(***************************************************************************)
EXTENDS Scoring

CONSTANTS
  Objective,         \* control objectives
  Activity,          \* control activities
  Deployment,        \* control deployments
  ObjectiveOf,       \* control_activities.objective_id
  ActivityOf,        \* control_deployments.activity_id
  AssessedRatings,   \* the ratings assessors give
  Windows,           \* evidence windows of the test frequencies, in days
  AutomationLevels,  \* automation levels of an objective
  CEAllowed,         \* automation_ce_ceiling: the highest rating of a level
  MaxDay             \* BOUND: the last day of the calendar

ASSUME ControlAssumption ==
  /\ ObjectiveOf \in [Activity -> Objective]
  /\ ActivityOf \in [Deployment -> Activity]
  /\ AssessedRatings \subseteq CERatings
  /\ Windows \subseteq Nat
  /\ CEAllowed \in [AutomationLevels -> CERatings]
  /\ MaxDay \in Nat

VARIABLES
  obj,       \* the control objectives
  act,       \* the lifecycle state of each activity
  dep,       \* the control deployments
  blocking,  \* objectives an unresolved risk above appetite is linked to
  fired,     \* the risk-facing cascade the last step emitted, by objective
  today      \* date.today()

vars == <<obj, act, dep, blocking, fired, today>>

-----------------------------------------------------------------------------
(* Types                                                                   *)

ObjectiveStates ==
  {"Design", "Implementation", "Operating", "Failure", "Redesign", "Deprecated"}

\* "Absent": the record does not exist yet.
ActivityStates == {"Absent", "Draft", "Active", "Suspended", "Retired"}

DeploymentStates ==
  {"Absent", "Planned", "Active", "Degraded", "Failed", "Decommissioned"}

NoDate == -1

Events ==
  {"none", "control.operating", "control.failed", "control.recovered",
   "control.deprecated", "deployment.degraded", "deployment.restored",
   "deployment.decommissioned"}

ObjectiveRecord ==
  [lifecycle_state     : ObjectiveStates,
   failure_declared_at : 0..MaxDay \cup {NoDate},
   remediation_plan    : BOOLEAN,
   automation_level    : AutomationLevels]

\* "evidence": an evidence reference is stored.  "contradicted": a failing
\* test was recorded after the last audited assessment.
DeploymentRecord ==
  [deployment_status : DeploymentStates,
   ce_rating         : CERatings,
   evidence          : BOOLEAN,
   ce_assessed_at    : 0..MaxDay \cup {NoDate},
   window            : Windows,
   contradicted      : BOOLEAN]

TypeOK ==
  /\ obj \in [Objective -> ObjectiveRecord]
  /\ act \in [Activity -> ActivityStates]
  /\ dep \in [Deployment -> DeploymentRecord]
  /\ blocking \subseteq Objective
  /\ fired \in [Objective -> Events]
  /\ today \in 0..MaxDay

Silent == [o \in Objective |-> "none"]

Init ==
  /\ obj \in [Objective ->
       [lifecycle_state : {"Design"}, failure_declared_at : {NoDate},
        remediation_plan : {FALSE}, automation_level : AutomationLevels]]
  /\ act = [a \in Activity |-> "Absent"]
  /\ dep \in [Deployment ->
       [deployment_status : {"Absent"}, ce_rating : {"CE-Unvalidated"},
        evidence : {FALSE}, ce_assessed_at : {NoDate}, window : Windows,
        contradicted : {FALSE}]]
  /\ blocking = {}
  /\ fired = Silent
  /\ today = 0

-----------------------------------------------------------------------------
(* What the records say                                                    *)

Parent(d) == ObjectiveOf[ActivityOf[d]]

ActivitiesOf(o) == {a \in Activity : ObjectiveOf[a] = o /\ act[a] # "Absent"}

DeploymentsOf(o) ==
  {d \in Deployment : Parent(d) = o /\ dep[d].deployment_status # "Absent"}

Rank(rating) ==
  CASE rating = "CE-Unvalidated" -> 0
    [] rating = "CE-Low" -> 1
    [] rating = "CE-Medium" -> 2
    [] OTHER -> 3

Rated(x) == x.ce_rating # "CE-Unvalidated"

InService(x) == x.deployment_status \in {"Active", "Degraded"}

\* CE-6.  No assessment date means expired by definition.
Expired(x) == x.ce_assessed_at = NoDate \/ x.ce_assessed_at + x.window < today

\* What resolve_ce counts once the objective operates, and for how much.
Counted(x) == InService(x) /\ x.evidence /\ ~Expired(x)

Strength(x) == CEMaxLikelihoodReduction(x.ce_rating)

Contribution(x) == IF Counted(x) THEN Strength(x) ELSE 0

CountedOf(o) == {d \in DeploymentsOf(o) : Counted(dep[d])}

\* CE-4 / CE-5: the weakest counted deployment of an operating objective.
ResolvedCE(o) ==
  IF obj[o].lifecycle_state = "Operating"
  THEN WorstCase({Strength(dep[d]) : d \in CountedOf(o)})
  ELSE 0

\* CINV-1, CINV-10 and CINV-11, enforced on every write of a deployment by
\* its service: the record x as it would be stored.
CINV1(x) == Rated(x) => x.evidence

CINV10(x) == Rated(x) => ~Expired(x)

CINV11(x, o) == Rank(x.ce_rating) <= Rank(CEAllowed[obj[o].automation_level])

Enforced(x, o) == CINV1(x) /\ CINV10(x) /\ CINV11(x, o)

\* DL-2 and CINV-4
Assessable(x) == x.deployment_status \in {"Active", "Degraded", "Failed"}

Emit(o, event) == fired' = [Silent EXCEPT ![o] = event]

Quiet == fired' = Silent

\* The risks' own state, which a cascade may move in the same step
RisksFollow == blocking' \in SUBSET Objective

-----------------------------------------------------------------------------
(* Objectives.  A rationale or plan a gate asks for may be given as the    *)
(* reason of the request, so those conditions are taken as met.            *)

Operational(o) == \E d \in DeploymentsOf(o) : dep[d].deployment_status = "Active"

Evidenced(o, statuses) ==
  \E d \in DeploymentsOf(o) :
    dep[d].deployment_status \in statuses /\ Rated(dep[d]) /\ dep[d].evidence

MoveObjective(o, source, target) ==
  /\ obj[o].lifecycle_state = source
  /\ obj' = [obj EXCEPT ![o].lifecycle_state = target]
  /\ UNCHANGED <<act, dep, today>>
  /\ RisksFollow

\* GATE_CONTROL_IMPLEMENTATION
Implement(o) ==
  /\ ActivitiesOf(o) # {}
  /\ DeploymentsOf(o) # {}
  /\ MoveObjective(o, "Design", "Implementation")
  /\ Quiet

\* GATE_CONTROL_OPERATING
Operate(o) ==
  /\ Operational(o)
  /\ Evidenced(o, {"Active"})
  /\ MoveObjective(o, "Implementation", "Operating")
  /\ Emit(o, "control.operating")

\* Entering Failure; the date of an earlier declaration is kept.
Declared(x) ==
  [x EXCEPT !.lifecycle_state = "Failure",
            !.failure_declared_at = IF @ = NoDate THEN today ELSE @]

\* GATE_CONTROL_FAILURE
Fail(o) ==
  /\ obj[o].lifecycle_state = "Operating"
  /\ obj' = [obj EXCEPT ![o] = Declared(@)]
  /\ UNCHANGED <<act, dep, today>>
  /\ RisksFollow
  /\ Emit(o, "control.failed")

\* GATE_CONTROL_RECOVERED.  The reason fills an empty plan and the cascade
\* clears the date.
Recover(o) ==
  /\ obj[o].lifecycle_state = "Failure"
  /\ Evidenced(o, {"Active", "Degraded"})
  /\ Operational(o)
  /\ obj' = [obj EXCEPT ![o].lifecycle_state = "Operating",
                        ![o].remediation_plan = TRUE,
                        ![o].failure_declared_at = NoDate]
  /\ UNCHANGED <<act, dep, today>>
  /\ RisksFollow
  /\ Emit(o, "control.recovered")

\* GATE_CONTROL_REDESIGN: no cascade
Redesign(o) ==
  /\ obj[o].lifecycle_state = "Failure"
  /\ obj' = [obj EXCEPT ![o].lifecycle_state = "Redesign", ![o].remediation_plan = TRUE]
  /\ UNCHANGED <<act, dep, today>>
  /\ RisksFollow
  /\ Quiet

\* GATE_CONTROL_REBUILD
Rebuild(o) ==
  /\ ActivitiesOf(o) # {}
  /\ MoveObjective(o, "Redesign", "Implementation")
  /\ Quiet

\* GATE_CONTROL_RETIREMENT, from every state (a retired one again, too)
Deprecate(o) ==
  /\ o \notin blocking
  /\ MoveObjective(o, obj[o].lifecycle_state, "Deprecated")
  /\ Emit(o, "control.deprecated")

\* An edit of the objective; CINV-8 binds a deprecated one, and nothing
\* looks at the ratings below.
UpdateObjective(o, level, plan) ==
  /\ obj[o].lifecycle_state = "Deprecated" => o \notin blocking
  /\ obj' = [obj EXCEPT ![o].automation_level = level, ![o].remediation_plan = plan]
  /\ UNCHANGED <<act, dep, today>>
  /\ RisksFollow
  /\ Quiet

-----------------------------------------------------------------------------
(* Activities                                                              *)

MoveActivity(a, sources, target) ==
  /\ act[a] \in sources
  /\ act' = [act EXCEPT ![a] = target]
  /\ UNCHANGED <<obj, dep, today>>
  /\ RisksFollow
  /\ Quiet

CreateActivity(a) == MoveActivity(a, {"Absent"}, "Draft")

ActivateActivity(a) == MoveActivity(a, {"Draft", "Suspended"}, "Active")

SuspendActivity(a) == MoveActivity(a, {"Active"}, "Suspended")

\* GATE_ACTIVITY_RETIRE with AL-1
RetireActivity(a) ==
  /\ \A d \in Deployment : ActivityOf[d] = a =>
       dep[d].deployment_status \in {"Absent", "Decommissioned"}
  /\ MoveActivity(a, {"Active", "Suspended"}, "Retired")

-----------------------------------------------------------------------------
(* Deployments                                                             *)

\* A write of one deployment by its service.
StoreDeployment(d, x) ==
  /\ Enforced(x, Parent(d))
  /\ dep' = [dep EXCEPT ![d] = x]
  /\ UNCHANGED <<act, today>>
  /\ RisksFollow

MoveDeployment(d, sources, target) ==
  /\ dep[d].deployment_status \in sources
  /\ StoreDeployment(d, [dep[d] EXCEPT !.deployment_status = target])

\* deployment.failed (DL-1): an operating objective fails with it.
FailurePropagates(d) ==
  LET o == Parent(d)
  IN  \/ /\ obj[o].lifecycle_state = "Operating"
         /\ obj' = [obj EXCEPT ![o] = Declared(@)]
         /\ Emit(o, "control.failed")
      \/ /\ obj[o].lifecycle_state # "Operating"
         /\ UNCHANGED obj
         /\ Quiet

\* A deployment is planned under an activity, whatever the activity's state.
CreateDeployment(d) ==
  /\ dep[d].deployment_status = "Absent"
  /\ act[ActivityOf[d]] # "Absent"
  /\ StoreDeployment(d, [dep[d] EXCEPT !.deployment_status = "Planned"])
  /\ UNCHANGED obj
  /\ Quiet

\* GATE_DEPLOYMENT_ACTIVE
Activate(d) ==
  /\ MoveDeployment(d, {"Planned"}, "Active")
  /\ UNCHANGED obj
  /\ Quiet

\* GATE_DEPLOYMENT_DEGRADED, fired by a person or by a partial test
Degrade(d) ==
  /\ MoveDeployment(d, {"Active"}, "Degraded")
  /\ UNCHANGED obj
  /\ Emit(Parent(d), "deployment.degraded")

\* GATE_DEPLOYMENT_FAILED, fired by a person
FailDeployment(d) ==
  /\ MoveDeployment(d, {"Active", "Degraded"}, "Failed")
  /\ FailurePropagates(d)

\* GATE_DEPLOYMENT_RESTORED
Restore(d) ==
  /\ Rated(dep[d]) /\ dep[d].evidence
  /\ MoveDeployment(d, {"Degraded"}, "Active")
  /\ UNCHANGED obj
  /\ Emit(Parent(d), "deployment.restored")

\* Slip: the evidence held when the test failed is good enough.
RemediateOnOldEvidence(d) ==
  /\ Rated(dep[d]) /\ dep[d].evidence
  /\ MoveDeployment(d, {"Failed"}, "Active")
  /\ UNCHANGED obj
  /\ Emit(Parent(d), "deployment.restored")

\* GATE_DEPLOYMENT_REMEDIATED with DL-4
Remediate(d) ==
  /\ Rated(dep[d]) /\ dep[d].evidence /\ ~dep[d].contradicted
  /\ MoveDeployment(d, {"Failed"}, "Active")
  /\ UNCHANGED obj
  /\ Emit(Parent(d), "deployment.restored")

\* GATE_DEPLOYMENT_DECOMMISSION, from every state
Decommission(d) ==
  /\ MoveDeployment(d, DeploymentStates \ {"Absent"}, "Decommissioned")
  /\ UNCHANGED obj
  /\ Emit(Parent(d), "deployment.decommissioned")

\* Slip: every change of strength is announced as an improvement.
AnnounceAssessedAsRestored(d, rating) ==
  IF CEMaxLikelihoodReduction(rating) = Strength(dep[d]) THEN Quiet
  ELSE Emit(Parent(d), "deployment.restored")

\* A rating that moves the likelihood reduction is announced; one that does
\* not (Unvalidated to Low) is not.
AnnounceAssessed(d, rating) ==
  CASE CEMaxLikelihoodReduction(rating) < Strength(dep[d]) ->
         Emit(Parent(d), "deployment.degraded")
    [] CEMaxLikelihoodReduction(rating) > Strength(dep[d]) ->
         Emit(Parent(d), "deployment.restored")
    [] OTHER -> Quiet

\* Slip: the assessment is dated with the end of its window.
AssessCEDatedAhead(d, rating, evidence) ==
  /\ Assessable(dep[d])
  /\ StoreDeployment(d, [dep[d] EXCEPT !.ce_rating      = rating,
                                       !.evidence       = evidence,
                                       !.ce_assessed_at = today + dep[d].window,
                                       !.contradicted   = FALSE])
  /\ UNCHANGED obj
  /\ AnnounceAssessed(d, rating)

\* An assessment.  One that repeats the last in every field is not audited
\* and changes nothing.
AssessCE(d, rating, evidence) ==
  /\ Assessable(dep[d])
  /\ StoreDeployment(d, [dep[d] EXCEPT !.ce_rating      = rating,
                                       !.evidence       = evidence,
                                       !.ce_assessed_at = today,
                                       !.contradicted   = FALSE])
  /\ UNCHANGED obj
  /\ AnnounceAssessed(d, rating)

\* A failing test moves a deployment in service to Failed ...
FailingTest(d) ==
  /\ InService(dep[d])
  /\ StoreDeployment(d, [dep[d] EXCEPT !.contradicted      = TRUE,
                                       !.deployment_status = "Failed"])
  /\ FailurePropagates(d)

\* ... and is only recorded on one that is not.  Passing tests, and partial
\* ones outside Active, change nothing kept here.
FailingTestElsewhere(d) ==
  /\ dep[d].deployment_status \in {"Planned", "Failed"}
  /\ dep' = [dep EXCEPT ![d].contradicted = TRUE]
  /\ UNCHANGED <<obj, act, today>>
  /\ RisksFollow
  /\ Quiet

\* An edit of the test frequency, in any state
UpdateDeployment(d, window) ==
  /\ dep[d].deployment_status # "Absent"
  /\ StoreDeployment(d, [dep[d] EXCEPT !.window = window])
  /\ UNCHANGED obj
  /\ Quiet

-----------------------------------------------------------------------------
(* Time, the expiry job and the risks                                      *)

Tick ==
  /\ today < MaxDay
  /\ today' = today + 1
  /\ UNCHANGED <<obj, act, dep>>
  /\ RisksFollow
  /\ Quiet

\* Slip: only active deployments are looked at.
DueActiveOnly ==
  {d \in Deployment :
     Rated(dep[d]) /\ dep[d].deployment_status = "Active" /\ Expired(dep[d])}

Due == {d \in Deployment : Rated(dep[d]) /\ InService(dep[d]) /\ Expired(dep[d])}

\* CINV-10: the nightly downgrade
Jobs ==
  /\ dep' = [d \in Deployment |->
       IF d \in Due THEN [dep[d] EXCEPT !.ce_rating = "CE-Unvalidated"] ELSE dep[d]]
  /\ fired' = [o \in Objective |->
       IF \E d \in Due : Parent(d) = o THEN "deployment.degraded" ELSE "none"]
  /\ UNCHANGED <<obj, act, today>>
  /\ RisksFollow

\* Linked risks are scored, decided, closed: what CINV-8 reads of them moves.
RisksMove ==
  /\ RisksFollow
  /\ UNCHANGED <<obj, act, dep, today>>
  /\ Quiet

-----------------------------------------------------------------------------
(* The specification                                                       *)

ObjectiveStep(o) ==
  \/ Implement(o)
  \/ Operate(o)
  \/ Fail(o)
  \/ Recover(o)
  \/ Redesign(o)
  \/ Rebuild(o)
  \/ Deprecate(o)
  \/ \E l \in AutomationLevels, plan \in BOOLEAN : UpdateObjective(o, l, plan)

ActivityStep(a) ==
  \/ CreateActivity(a)
  \/ ActivateActivity(a)
  \/ SuspendActivity(a)
  \/ RetireActivity(a)

DeploymentStep(d) ==
  \/ CreateDeployment(d)
  \/ Activate(d)
  \/ Degrade(d)
  \/ FailDeployment(d)
  \/ Restore(d)
  \/ Remediate(d)
  \/ Decommission(d)
  \/ \E rating \in AssessedRatings, evidence \in BOOLEAN : AssessCE(d, rating, evidence)
  \/ FailingTest(d)
  \/ FailingTestElsewhere(d)
  \/ \E w \in Windows : UpdateDeployment(d, w)

Next ==
  \/ \E o \in Objective : ObjectiveStep(o)
  \/ \E a \in Activity : ActivityStep(a)
  \/ \E d \in Deployment : DeploymentStep(d)
  \/ Tick
  \/ Jobs
  \/ RisksMove

Spec == Init /\ [][Next]_vars

-----------------------------------------------------------------------------
(* Properties that hold                                                    *)

\* DL-4, beyond its gate.  No deployment in service carries a rating that a
\* later failing test contradicts, whatever mix of tests, manual moves,
\* assessments and expiries led there: what buys a likelihood reduction was
\* assessed after the last failure.
RatingsPostdateFailures ==
  \A d \in Deployment :
    InService(dep[d]) /\ Rated(dep[d]) => ~dep[d].contradicted

\* CINV-5.  An objective in Failure has a declaration date, also when a
\* deployment took it there; the escalation job skips one without a date.
FailureIsDated ==
  \A o \in Objective :
    obj[o].lifecycle_state = "Failure" =>
      obj[o].failure_declared_at \in 0..today

\* What a failure leaves behind for as long as it matters: on the objective
\* the date the escalation counts from, on the deployment no rating earned
\* before it.
FailureLeavesItsMark == FailureIsDated /\ RatingsPostdateFailures

\* The cascades that lock the residual of every linked risk
Locking == {"control.failed", "deployment.degraded", "deployment.decommissioned"}

\* RCR-2, for what counts in a score.  While an objective operates, none of
\* its deployments comes to count for less without the linked risks being
\* locked in the same step, whether by a test, a manual move, an assessment
\* or an edit; only the calendar weakens silently, until the job runs.
WeakeningAnnounced ==
  [][\A d \in Deployment :
       /\ obj[Parent(d)].lifecycle_state = "Operating"
       /\ today' = today
       /\ Contribution(dep'[d]) < Contribution(dep[d])
       => fired'[Parent(d)] \in Locking]_vars

\* DL-3, AL-1 and OL-3.  Retirement is final: no propagated failure, test,
\* job or edit brings a record back from an end state.
EndStatesFinal ==
  [][/\ \A o \in Objective : obj[o].lifecycle_state = "Deprecated" =>
          obj'[o].lifecycle_state = "Deprecated"
     /\ \A a \in Activity : act[a] = "Retired" => act'[a] = "Retired"
     /\ \A d \in Deployment : dep[d].deployment_status = "Decommissioned" =>
          dep'[d].deployment_status = "Decommissioned"]_vars

\* The engine's contract for the three machines of the library, kept by the
\* propagated failures and by the tests, which write the columns themselves.
\* An objective exists from the start, in Design.
ObjectiveEngine ==
  INSTANCE LifecycleEngine WITH
    Entity    <- Objective,
    Absent    <- "Design",
    Initial   <- "Design",
    States    <- ObjectiveStates,
    Terminal  <- {"Deprecated"},
    Edges     <- {<<"Design", "Implementation">>, <<"Implementation", "Operating">>,
                  <<"Operating", "Failure">>, <<"Failure", "Operating">>,
                  <<"Failure", "Redesign">>, <<"Redesign", "Implementation">>},
    Wildcards <- {"Deprecated"},
    state     <- [o \in Objective |-> obj[o].lifecycle_state]

ActivityEngine ==
  INSTANCE LifecycleEngine WITH
    Entity    <- Activity,
    Absent    <- "Absent",
    Initial   <- "Draft",
    States    <- ActivityStates \ {"Absent"},
    Terminal  <- {"Retired"},
    Edges     <- {<<"Draft", "Active">>, <<"Active", "Suspended">>,
                  <<"Suspended", "Active">>, <<"Active", "Retired">>,
                  <<"Suspended", "Retired">>},
    Wildcards <- {},
    state     <- act

DeploymentEngine ==
  INSTANCE LifecycleEngine WITH
    Entity    <- Deployment,
    Absent    <- "Absent",
    Initial   <- "Planned",
    States    <- DeploymentStates \ {"Absent"},
    Terminal  <- {"Decommissioned"},
    Edges     <- {<<"Planned", "Active">>, <<"Active", "Degraded">>,
                  <<"Active", "Failed">>, <<"Degraded", "Active">>,
                  <<"Degraded", "Failed">>, <<"Failed", "Active">>},
    Wildcards <- {"Decommissioned"},
    state     <- [d \in Deployment |-> dep[d].deployment_status]

FollowsLibraryMachines ==
  /\ ObjectiveEngine!Spec
  /\ ActivityEngine!Spec
  /\ DeploymentEngine!Spec

-----------------------------------------------------------------------------
(* What the documents say and the code does not do: each is refuted        *)

\* A failing test on a deployment in service moves it to Failed: nothing
\* that is true of the deployment stands in the way.
FailingTestsMoveTheDeployment ==
  \A d \in Deployment : InService(dep[d]) =>
    Enforced([dep[d] EXCEPT !.deployment_status = "Failed"], Parent(d))

\* Section 9.1: Failure to Operating is for a control re-assessed since.
RecoveryFollowsReassessment ==
  [][\A o \in Objective :
       obj[o].lifecycle_state = "Failure" /\ obj'[o].lifecycle_state = "Operating" =>
         \E d \in DeploymentsOf(o) :
           dep[d].ce_assessed_at >= obj[o].failure_declared_at]_vars

\* CE-4 with CE-6: evidence that runs out counts as no reduction, so the
\* passing of a day never strengthens a control.
ExpiryNeverStrengthens ==
  [][\A o \in Objective :
       today' # today => ResolvedCE(o)' <= ResolvedCE(o)]_vars

=============================================================================
