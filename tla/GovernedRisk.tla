---------------------------- MODULE GovernedRisk ----------------------------
(***************************************************************************)
(* The risk register and the control library together.  What               *)
(* RiskLifecycle assumes of an objective (its view ctl) is computed here    *)
(* from the deployments, and the cascades reach the risks through the event *)
(* the control step emits.  The composition implements RiskLifecycle: every *)
(* control step, edit, day and job run of ControlLifecycle is one that      *)
(* RiskLifecycle allows.                                                   *)
(***************************************************************************)
EXTENDS Scoring

CONSTANTS
  Risk, Objective, Treatment, Impacts, Likelihoods, Strategies, GateFlags,
  Staffing, AcceptDays, MaxRenewals,
  Activity, Deployment, ObjectiveOf, ActivityOf, AssessedRatings, Windows,
  AutomationLevels, CEAllowed,
  Family,          \* the control family of each objective
  EscalationDays,  \* escalation.control_failure_escalation_days
  QuarterDays,     \* days a failure counts towards a systemic weakness
  SystemicFailureThreshold,
  MaxDay           \* BOUND: the last day of the calendar

VARIABLES
  risk, clinks, tlinks, trt,  \* as in RiskLifecycle
  obj, act, dep, fired,       \* as in ControlLifecycle
  blocking,                   \* objectives a risk keeps from retiring
  today

controlVars == <<obj, act, dep>>

vars == <<risk, clinks, tlinks, trt, obj, act, dep, fired, blocking, today>>

CL == INSTANCE ControlLifecycle

-----------------------------------------------------------------------------
(* What the risk module reads of a control                                 *)

StateSeen(state) ==
  IF state \in {"Design", "Implementation", "Redesign"} THEN "Building" ELSE state

CeilingSeen(o) ==
  IF CL!CountedOf(o) = {} THEN NoCE
  ELSE WorstCase({CL!Strength(dep[d]) : d \in CL!CountedOf(o)})

\* The gate of scoring takes a rating with evidence on any deployment.
AssessedSeen(o) ==
  \E d \in CL!DeploymentsOf(o) : CL!Rated(dep[d]) /\ dep[d].evidence

View ==
  [o \in Objective |-> [lifecycle_state |-> StateSeen(obj[o].lifecycle_state),
                        ceiling         |-> CeilingSeen(o),
                        assessed        |-> AssessedSeen(o)]]

RL == INSTANCE RiskLifecycle WITH ctl <- View, Ceilings <- CEReductions

ASSUME GovernedAssumption ==
  /\ RL!RiskAssumption
  /\ CL!ControlAssumption
  /\ DOMAIN Family = Objective
  /\ {EscalationDays, QuarterDays, SystemicFailureThreshold} \subseteq Nat

\* OL-3 and CINV-8: the objectives a linked risk above appetite, with no
\* other treatment than mitigation, keeps from retiring.
Blocked ==
  {o \in Objective : \E r \in Risk :
     /\ RL!Reached(r, {o})
     /\ AboveAppetite(RL!ReportedRating(risk[r]))
     /\ risk[r].treatment_strategy \notin {"Accept", "Transfer", "Avoid"}}

Init == CL!Init /\ RL!Init

-----------------------------------------------------------------------------
(* Steps of the control library and the cascades they fire                 *)

\* Slip: a decommissioned deployment only leaves its flag.
RespondFlaggingDecommissions(event, x) ==
  CASE event = "control.failed" -> RL!Frozen(x)
    [] event = "control.recovered" -> RL!Recovering(x)
    [] event \in {"control.operating", "deployment.restored"} -> RL!Improved(x)
    [] event = "deployment.degraded" -> RL!Degraded(x)
    [] event \in {"control.deprecated", "deployment.decommissioned"} ->
         RL!Flagged("Control_Changed", x)
    [] OTHER -> x

\* What one cascade does to a linked risk that is not Closed
Respond(event, x) ==
  CASE event = "control.failed" -> RL!Frozen(x)
    [] event = "control.recovered" -> RL!Recovering(x)
    [] event \in {"control.operating", "deployment.restored"} -> RL!Improved(x)
    [] event \in {"deployment.degraded", "deployment.decommissioned"} -> RL!Degraded(x)
    [] event = "control.deprecated" -> RL!Flagged("Control_Changed", x)
    [] OTHER -> x

\* One request emits for one objective, so the order of events is no matter.
Responses(r) ==
  LET sources == {o \in clinks[r] : fired'[o] # "none"}
  IN  IF sources = {} \/ risk[r].lifecycle_state = "Closed" THEN risk[r]
      ELSE Respond(fired'[CHOOSE o \in sources : TRUE], risk[r])

ControlStep ==
  /\ \/ \E o \in Objective : CL!ObjectiveStep(o)
     \/ \E a \in Activity : CL!ActivityStep(a)
     \/ \E d \in Deployment : CL!DeploymentStep(d)
  /\ risk' = [r \in Risk |-> Responses(r)]
  /\ UNCHANGED <<clinks, tlinks, trt>>
  /\ blocking' = Blocked'

-----------------------------------------------------------------------------
(* Steps of the risk register, the treatments and the calendar             *)

RiskStep ==
  /\ UNCHANGED <<controlVars, today>>
  /\ \/ \E r \in Risk : RL!Transition(r) \/ RL!Operation(r)
     \/ \E t \in Treatment : RL!TreatmentStep(t)
  /\ fired' = CL!Silent
  /\ blocking' = Blocked'

Tick ==
  /\ CL!Tick
  /\ UNCHANGED <<risk, clinks, tlinks, trt>>
  /\ blocking' = Blocked'

-----------------------------------------------------------------------------
(* One run of the jobs                                                     *)

Declared(o) == obj[o].failure_declared_at

\* CINV-5: too long in Failure without a plan
Overdue(o) ==
  /\ obj[o].lifecycle_state = "Failure"
  /\ Declared(o) # CL!NoDate /\ Declared(o) + EscalationDays <= today
  /\ ~obj[o].remediation_plan

\* OL-5: failures of one family within a quarter; an undated one counts.
RecentFailures(f) ==
  {o \in Objective :
     /\ Family[o] = f
     /\ obj[o].lifecycle_state = "Failure"
     /\ Declared(o) = CL!NoDate \/ Declared(o) + QuarterDays >= today}

Systemic(o) ==
  /\ o \in RecentFailures(Family[o])
  /\ Cardinality(RecentFailures(Family[o])) >= SystemicFailureThreshold

\* Both escalations reach every linked risk, closed ones too.
Escalate(r, x) ==
  [x EXCEPT !.escalation_flag = @ \/ \E o \in clinks[r] : Overdue(o) \/ Systemic(o)]

\* What the expiry of evidence leaves of a risk
AfterExpiry(r) ==
  IF RL!Reached(r, {CL!Parent(d) : d \in CL!Due}) THEN RL!Degraded(risk[r]) ELSE risk[r]

Jobs ==
  /\ CL!Jobs
  /\ risk' = [r \in Risk |-> Escalate(r, RL!EscalateAcceptance(AfterExpiry(r)))]
  /\ UNCHANGED <<clinks, tlinks, trt>>
  /\ blocking' = Blocked'

-----------------------------------------------------------------------------
(* The specification                                                       *)

Next == ControlStep \/ RiskStep \/ Tick \/ Jobs

Spec == Init /\ [][Next]_vars

-----------------------------------------------------------------------------
(* Properties                                                              *)

\* The register with real controls implements the register of RiskLifecycle:
\* whatever deployments, tests, edits, days and jobs do, the risks see a step
\* that module allows, with the whole of its cascade.
ImplementsRiskLifecycle == RL!Spec

\* RINV-9 with DL-4 and CINV-10.  A residual below the inherent likelihood is
\* recorded only on the strength of a linked operating control with a
\* deployment in service, rated on unexpired evidence gathered after its last
\* failing test.
ReductionRestsOnFreshEvidence ==
  [][\A r \in Risk :
       /\ risk'[r].residual # NoScore /\ risk'[r].residual # risk[r].residual
       /\ risk'[r].residual.likelihood < risk[r].inherent.likelihood
       => \E o \in clinks[r] :
            /\ obj[o].lifecycle_state = "Operating"
            /\ \E d \in CL!CountedOf(o) : CL!Rated(dep[d]) /\ ~dep[d].contradicted]_vars

\* DL-1 with CINV-5.  The failure of a deployment in service, by a test or by
\* hand, leaves no open risk of its operating objective on a residual score:
\* in the same step each reports its inherent score again.
DeploymentFailureDiscardsResidual ==
  [][\A d \in Deployment, r \in Risk :
       /\ CL!InService(dep[d]) /\ dep'[d].deployment_status = "Failed"
       /\ obj[CL!Parent(d)].lifecycle_state = "Operating"
       /\ CL!Parent(d) \in clinks[r] /\ risk[r].lifecycle_state # "Closed"
       => RL!Reported(risk'[r]) = risk[r].inherent]_vars

=============================================================================
