--------------------------- MODULE RiskLifecycle ---------------------------
(***************************************************************************)
(* The risk register: the seven-phase lifecycle of a risk record, the      *)
(* service operations that write it, the invariants enforced on those      *)
(* writes, the cascades other modules fire into it and the nightly jobs.   *)
(*                                                                         *)
(* One action is one request, that is one database transaction: the gate,  *)
(* the assignments, the enforced invariants and the cascades either all    *)
(* happen or none does.                                                    *)
(*                                                                         *)
(* The control and treatment modules are seen through the columns the risk *)
(* module reads of them (ctl, trt).  Their steps are the last two action   *)
(* groups below, with the whole of the cascade each one fires into risks.  *)
(***************************************************************************)
EXTENDS Scoring

CONSTANTS
  Risk,            \* risk records
  Objective,       \* control objectives
  Treatment,       \* treatment records
  Impacts,         \* impact values an analyst records, within 1..5
  Likelihoods,     \* likelihood values an analyst records, within 1..5
  Strategies,      \* the treatment decisions taken
  GateFlags,       \* stored conditions of the residual validation gate
  Staffing,        \* the situations of a risk's named people considered
  Ceilings,        \* likelihood reductions deployments are rated for
  MaxDay,          \* BOUND: the last day of the calendar
  AcceptDays,      \* longest acceptance window, by rating (days)
  MaxRenewals      \* acceptance.max_renewals, by rating

AllStrategies == {"Accept", "Mitigate", "Transfer", "Avoid"}

\* acceptance.<rating>.acceptable
Acceptable == Ratings \ {"Critical"}

\* "assigned": an owner and a stakeholder are named.  "offending": somebody
\* named does not hold the role (RINV-15), owns a linked control (RINV-3) or
\* is both owner and stakeholder (SEP-1).
People == [assigned : BOOLEAN, offending : BOOLEAN]

ASSUME RiskAssumption ==
  /\ Impacts \subseteq Axis
  /\ Likelihoods \subseteq Axis
  /\ Strategies \subseteq AllStrategies
  /\ Staffing \subseteq People
  /\ Ceilings \subseteq CEReductions
  /\ MaxDay \in Nat
  /\ AcceptDays \in [Ratings -> Nat]
  /\ MaxRenewals \in [Ratings -> Nat]

VARIABLES
  risk,     \* the risk records
  clinks,   \* risk_control_links: the objectives linked to each risk
  tlinks,   \* risk_treatment_links: the treatments linked to each risk
  ctl,      \* what the risk module reads of each control objective
  trt,      \* what the risk module reads of each treatment
  today     \* date.today()

vars == <<risk, clinks, tlinks, ctl, trt, today>>

-----------------------------------------------------------------------------
(* Types                                                                   *)

RiskStates ==
  {"Intake", "Preconditions", "Scoring", "Treatment", "Readout",
   "Evidence_Residual", "Monitoring", "Closed"}

NoStrategy == "Undecided"

NoDate == -1

ChangeFlags == {"None", "Control_Failure", "Control_Changed", "Control_Improved"}

RecordedScores == [impact : Impacts, likelihood : Likelihoods]

RiskRecord ==
  [lifecycle_state               : RiskStates,
   inherent                      : RecordedScores \cup {NoScore},
   inherent_locked               : BOOLEAN,
   residual                      : RecordedScores \cup {NoScore},
   residual_score_locked         : BOOLEAN,
   treatment_strategy            : Strategies \cup {NoStrategy},
   acceptance_expiry_date        : 0..MaxDay \cup {NoDate},
   acceptance_reassessment_count : Nat,
   readout_confirmed             : BOOLEAN,
   gates                         : SUBSET GateFlags,
   escalation_flag               : BOOLEAN,
   control_change_flag           : ChangeFlags,
   reassessed                    : BOOLEAN,
   people                        : Staffing]

ObjectiveStates == {"Building", "Operating", "Failure", "Deprecated"}

\* "Building" is Design, Implementation or Redesign.  "ceiling" is the
\* worst case over the deployments resolve_ce would count if the objective
\* were Operating; "assessed" says some deployment, of any status, is rated
\* above CE-Unvalidated with evidence.
ControlView ==
  {v \in [lifecycle_state : ObjectiveStates,
          ceiling : Ceilings \cup {NoCE},
          assessed : BOOLEAN] : v.ceiling > 0 => v.assessed}

TreatmentView ==
  [lifecycle_state : {"Open", "Complete", "Cancelled"},
   grc_eng_validated : BOOLEAN,
   owner_committed : BOOLEAN]

TypeOK ==
  /\ risk \in [Risk -> RiskRecord]
  /\ clinks \in [Risk -> SUBSET Objective]
  /\ tlinks \in [Risk -> SUBSET Treatment]
  /\ ctl \in [Objective -> ControlView]
  /\ trt \in [Treatment -> TreatmentView]
  /\ today \in 0..MaxDay

\* A record as it is created: some people may be named, none of them against
\* a rule.
NewRecord ==
  [lifecycle_state               : {"Intake"},
   inherent                      : {NoScore},
   inherent_locked               : {FALSE},
   residual                      : {NoScore},
   residual_score_locked         : {TRUE},
   treatment_strategy            : {NoStrategy},
   acceptance_expiry_date        : {NoDate},
   acceptance_reassessment_count : {0},
   readout_confirmed             : {FALSE},
   gates                         : {{}},
   escalation_flag               : {FALSE},
   control_change_flag           : {"None"},
   reassessed                    : {FALSE},
   people                        : {p \in Staffing : ~p.offending}]

Init ==
  /\ risk \in [Risk -> NewRecord]
  /\ clinks = [r \in Risk |-> {}]
  /\ tlinks = [r \in Risk |-> {}]
  /\ ctl = [o \in Objective |->
       [lifecycle_state |-> "Building", ceiling |-> NoCE, assessed |-> FALSE]]
  /\ trt = [t \in Treatment |->
       [lifecycle_state |-> "Open", grc_eng_validated |-> FALSE,
        owner_committed |-> FALSE]]
  /\ today = 0

-----------------------------------------------------------------------------
(* What a record says of itself                                            *)

PhaseNumber(state) ==
  CASE state = "Intake" -> 1
    [] state = "Preconditions" -> 2
    [] state = "Scoring" -> 3
    [] state = "Treatment" -> 4
    [] state = "Readout" -> 5
    [] state = "Evidence_Residual" -> 6
    [] OTHER -> 7

Phase(x) == PhaseNumber(x.lifecycle_state)

\* OUT-2: only an unlocked residual replaces the inherent score.
Reported(x) ==
  IF x.residual_score_locked \/ x.residual = NoScore THEN x.inherent ELSE x.residual

ReportedRating(x) == RatingOf(Reported(x))

Accepted(x) == x.treatment_strategy = "Accept"

Lapsed(x) ==
  Accepted(x) /\ x.acceptance_expiry_date # NoDate /\ x.acceptance_expiry_date < today

\* Slip: the flag is flipped and the score left in place.
LockKeepingScore(x) == [x EXCEPT !.residual_score_locked = TRUE]

\* Locking an unlocked residual discards it; every path that locks goes
\* through this validator.
LockResidual(x) ==
  [x EXCEPT !.residual_score_locked = TRUE,
            !.residual = IF x.residual_score_locked THEN @ ELSE NoScore]

\* The likelihood reduction the linked controls justify.
Contributing(cl) ==
  {o \in cl : ctl[o].lifecycle_state = "Operating" /\ ctl[o].ceiling # NoCE}

Ceiling(cl) == WorstCase({ctl[o].ceiling : o \in Contributing(cl)})

Validated(tl) == \A t \in tl : trt[t].grc_eng_validated

\* Slip: the commitment check reads the validation flag.
CommittedReadsValidated(tl) == \A t \in tl : trt[t].grc_eng_validated

Committed(tl) == \A t \in tl : trt[t].owner_committed

Complete(tl) == \A t \in tl : trt[t].lifecycle_state = "Complete"

NoOpenFailure(cl) == \A o \in cl : ctl[o].lifecycle_state # "Failure"

-----------------------------------------------------------------------------
(* The invariants the service enforces on a write: the record x as it      *)
(* would be stored, with the control links cl and treatment links tl the   *)
(* session has loaded.  Not here: RINV-2, which is always true, RINV-7 and *)
(* RINV-13 on text and confirmations an editor fills in, and RINV-14, which *)
(* evaluates what RINV-9 does.                                             *)

RINV1(x) ==
  x.residual_score_locked /\ x.residual # NoScore =>
    Magnitude(x.residual) = Magnitude(x.inherent)

\* Slip: dated, but the window is not held against the rating.
RINV4DatedOnly(x) == Accepted(x) => x.acceptance_expiry_date # NoDate

RINV4(x) ==
  Accepted(x) =>
    /\ x.acceptance_expiry_date # NoDate
    /\ RatingOf(x.inherent) \in Ratings =>
         x.acceptance_expiry_date - today <= AcceptDays[RatingOf(x.inherent)]

RINV5(x) ==
  Accepted(x) => "Critical" \notin {RatingOf(x.inherent), RatingOf(x.residual)}

\* Slip: the rule binds one phase too late.
RINV6FromMonitoring(x) ==
  Phase(x) > 6 /\ RatingOf(x.inherent) \in {"Moderate", "High", "Critical"} =>
    x.readout_confirmed

RINV6(x) ==
  Phase(x) >= 6 /\ RatingOf(x.inherent) \in {"Moderate", "High", "Critical"} =>
    x.readout_confirmed

\* Slip: a later cycle is held to the rule for the first.
RINV8EveryCycle(x) == Phase(x) < 3 => x.inherent = NoScore

RINV8(x) ==
  Phase(x) < 3 /\ ~x.reassessed => x.inherent = NoScore

RINV9(x, cl) ==
  x.residual # NoScore /\ x.inherent # NoScore =>
    ValidResidualLikelihood(x.inherent.likelihood, x.residual.likelihood, Ceiling(cl))

RINV10(x) == Phase(x) >= 3 => x.people.assigned

RINV11(x) == Lapsed(x) => x.escalation_flag

RINV12(x, tl) ==
  Phase(x) >= 5 /\ x.treatment_strategy = "Mitigate" =>
    tl # {} /\ Validated(tl) /\ Committed(tl)

\* RINV-3, RINV-15 and SEP-1
NobodyOffends(x) == ~x.people.offending

Enforced(x, cl, tl) ==
  /\ RINV1(x)
  /\ RINV4(x)
  /\ RINV5(x)
  /\ RINV6(x)
  /\ RINV8(x)
  /\ RINV9(x, cl)
  /\ RINV10(x)
  /\ RINV11(x)
  /\ RINV12(x, tl)
  /\ NobodyOffends(x)

\* A write of one record by the risk service: assigned, then enforced, and
\* rolled back if refused.
Store(r, x) ==
  /\ risk' = [risk EXCEPT ![r] = x]
  /\ Enforced(x, clinks[r], tlinks[r])
  /\ UNCHANGED <<clinks, tlinks, ctl, trt, today>>

-----------------------------------------------------------------------------
(* Transitions of the risk lifecycle.  Preconditions on text fields,       *)
(* owners and attestations (statement, tier, stakeholders, justification,  *)
(* reason) are taken as met: an editor fills them at any time and nothing  *)
(* below reads them.                                                       *)

\* GATE_INTAKE_COMPLETE
Admit(r) ==
  /\ risk[r].lifecycle_state = "Intake"
  /\ Store(r, [risk[r] EXCEPT !.lifecycle_state = "Preconditions"])

\* GATE_PRECONDITIONS_MET
StartScoring(r) ==
  /\ risk[r].lifecycle_state = "Preconditions"
  /\ \E o \in clinks[r] : ctl[o].lifecycle_state = "Operating" /\ ctl[o].assessed
  /\ Store(r, [risk[r] EXCEPT !.lifecycle_state = "Scoring"])

\* GATE_SCORING_COMPLETE, with the cascade that freezes the inherent score
FreezeScore(r) ==
  /\ risk[r].lifecycle_state = "Scoring"
  /\ risk[r].inherent # NoScore
  /\ Store(r, [risk[r] EXCEPT !.lifecycle_state = "Treatment",
                              !.inherent_locked = TRUE])

\* GATE_TREATMENT_ALIGNED.  The framework mapping is a text field or a
\* linked control, so that condition is taken as met.
QueueForReadout(r) ==
  /\ risk[r].lifecycle_state = "Treatment"
  /\ risk[r].treatment_strategy # NoStrategy
  /\ risk[r].treatment_strategy = "Mitigate" =>
       tlinks[r] # {} /\ Validated(tlinks[r]) /\ Committed(tlinks[r])
  /\ Store(r, [risk[r] EXCEPT !.lifecycle_state = "Readout"])

\* GATE_READOUT_COMPLETE
CompleteReadout(r) ==
  /\ risk[r].lifecycle_state = "Readout"
  /\ risk[r].readout_confirmed
  /\ Store(r, [risk[r] EXCEPT !.lifecycle_state = "Evidence_Residual"])

\* The conditions of GATE_RESIDUAL_VALIDATED other than a recorded residual.
ResidualGate(r) ==
  /\ risk[r].treatment_strategy = "Mitigate" => tlinks[r] # {} /\ Complete(tlinks[r])
  /\ risk[r].gates = GateFlags
  /\ NoOpenFailure(clinks[r])

\* Slip: the gate opens the lock itself and forgets the recorded residual.
StartMonitoringUnscored(r) ==
  /\ risk[r].lifecycle_state = "Evidence_Residual"
  /\ ResidualGate(r)
  /\ Store(r, [risk[r] EXCEPT !.lifecycle_state = "Monitoring",
                              !.residual_score_locked = FALSE,
                              !.control_change_flag = "None"])

\* GATE_RESIDUAL_VALIDATED, with the cascade that starts monitoring
StartMonitoring(r) ==
  /\ risk[r].lifecycle_state = "Evidence_Residual"
  /\ ResidualGate(r)
  /\ risk[r].residual # NoScore
  /\ ~risk[r].residual_score_locked
  /\ Store(r, [risk[r] EXCEPT !.lifecycle_state = "Monitoring",
                              !.residual_score_locked = FALSE,
                              !.control_change_flag = "None"])

\* Re-assessment and reopening open a new cycle: the decision, the locks,
\* the gate flags and the readout start over; the inherent score stays.
OpenNewCycle(x) ==
  [LockResidual(x) EXCEPT
     !.lifecycle_state        = "Preconditions",
     !.reassessed             = TRUE,
     !.treatment_strategy     = NoStrategy,
     !.acceptance_expiry_date = NoDate,
     !.inherent_locked        = FALSE,
     !.gates                  = {},
     !.readout_confirmed      = FALSE]

\* GATE_REASSESSMENT
Reassess(r) ==
  /\ risk[r].lifecycle_state = "Monitoring"
  /\ Store(r, OpenNewCycle(risk[r]))

\* GATE_CLOSURE.  The invariants see the record before the cascade clears
\* the escalation flag.
Close(r) ==
  /\ risk[r].lifecycle_state = "Monitoring"
  /\ risk[r].treatment_strategy # NoStrategy
  /\ risk[r].treatment_strategy = "Avoid" \/ ~AboveAppetite(ReportedRating(risk[r]))
  /\ Enforced([risk[r] EXCEPT !.lifecycle_state = "Closed"], clinks[r], tlinks[r])
  /\ risk' = [risk EXCEPT ![r].lifecycle_state = "Closed", ![r].escalation_flag = FALSE]
  /\ UNCHANGED <<clinks, tlinks, ctl, trt, today>>

\* GATE_REOPEN
Reopen(r) ==
  /\ risk[r].lifecycle_state = "Closed"
  /\ Store(r, OpenNewCycle(risk[r]))

-----------------------------------------------------------------------------
(* Operations of the risk service                                          *)

ScoreInherent(r, sc) ==
  /\ Phase(risk[r]) >= 3
  /\ ~risk[r].inherent_locked
  /\ Store(r, [risk[r] EXCEPT
       !.inherent = sc,
       !.residual = IF risk[r].residual_score_locked THEN NoScore ELSE @])

ScoreResidual(r, sc) ==
  /\ ~risk[r].residual_score_locked
  /\ risk[r].inherent # NoScore
  /\ ValidResidualLikelihood(risk[r].inherent.likelihood, sc.likelihood, Ceiling(clinks[r]))
  /\ Store(r, [risk[r] EXCEPT !.residual = sc])

\* The explicit unlock evaluates the gate but enforces no invariant.
ReleaseResidualLock(r) ==
  /\ risk[r].lifecycle_state = "Evidence_Residual"
  /\ ResidualGate(r)
  /\ risk' = [risk EXCEPT ![r].residual_score_locked = FALSE]
  /\ UNCHANGED <<clinks, tlinks, ctl, trt, today>>

\* A decision other than Accept, taken in any lifecycle state.
DecideTreatment(r, strategy) ==
  /\ strategy # "Accept"
  /\ Store(r, [risk[r] EXCEPT !.treatment_strategy = strategy])

\* An acceptance, recorded by an approver of the required seniority.
AcceptRisk(r, expiry) ==
  LET rating == RatingOf(risk[r].inherent)
  IN  /\ rating \in Acceptable
      /\ expiry <= today + AcceptDays[rating]
      /\ risk[r].acceptance_reassessment_count <= MaxRenewals[rating]
      /\ Store(r, [risk[r] EXCEPT !.treatment_strategy = "Accept",
                                  !.acceptance_expiry_date = expiry])

\* An edit of the record: the gate flags, the owner's readout confirmation,
\* the escalation flag and who is named, in one request.
UpdateRisk(r, gates, readout, escalated, people) ==
  Store(r, [risk[r] EXCEPT !.gates = gates,
                           !.readout_confirmed = readout,
                           !.escalation_flag = escalated,
                           !.people = people])

\* Outside the register a role is revoked or granted, or a linked control
\* gets another owner, and no rule of a risk is looked at.
StandingChanges(r) ==
  /\ risk' = [risk EXCEPT ![r].people.offending = ~@]
  /\ risk'[r].people \in Staffing
  /\ UNCHANGED <<clinks, tlinks, ctl, trt, today>>

\* Links are added by identifier to a record whose collections are already
\* loaded, so the enforcement does not see the new link.
LinkControl(r, o) ==
  /\ o \notin clinks[r]
  /\ Enforced(risk[r], clinks[r], tlinks[r])
  /\ clinks' = [clinks EXCEPT ![r] = @ \cup {o}]
  /\ UNCHANGED <<risk, tlinks, ctl, trt, today>>

LinkTreatment(r, t) ==
  /\ t \notin tlinks[r]
  /\ Enforced(risk[r], clinks[r], tlinks[r])
  /\ tlinks' = [tlinks EXCEPT ![r] = @ \cup {t}]
  /\ UNCHANGED <<risk, clinks, ctl, trt, today>>

\* Removing a link enforces nothing.
UnlinkControl(r, o) ==
  /\ o \in clinks[r]
  /\ clinks' = [clinks EXCEPT ![r] = @ \ {o}]
  /\ UNCHANGED <<risk, tlinks, ctl, trt, today>>

-----------------------------------------------------------------------------
(* Time and the scheduled jobs                                             *)

\* A day passes; evidence may run out with it and stop counting.
Tick ==
  /\ today < MaxDay
  /\ today' = today + 1
  /\ \E c \in [Objective -> Ceilings \cup {NoCE}] :
       /\ \A o \in Objective : c[o] > 0 => ctl[o].assessed
       /\ ctl' = [o \in Objective |-> [ctl[o] EXCEPT !.ceiling = c[o]]]
  /\ UNCHANGED <<risk, clinks, tlinks, trt>>

\* Linked risks a control cascade reaches: Closed ones are filtered out.
Reached(r, objectives) ==
  risk[r].lifecycle_state # "Closed" /\ clinks[r] \cap objectives # {}

Degraded(x) == [LockResidual(x) EXCEPT !.control_change_flag = "Control_Changed"]

\* Slip: the job escalates only risks under monitoring.
EscalateMonitoredOnly(x) ==
  IF Lapsed(x) /\ x.lifecycle_state = "Monitoring" /\ ~x.escalation_flag
  THEN [LockResidual(x) EXCEPT !.escalation_flag = TRUE,
                               !.acceptance_reassessment_count = @ + 1]
  ELSE x

\* Slip: every run counts the same lapse again.
EscalateEveryRun(x) ==
  IF Lapsed(x) /\ x.lifecycle_state # "Closed"
  THEN [LockResidual(x) EXCEPT !.escalation_flag = TRUE,
                               !.acceptance_reassessment_count = @ + 1]
  ELSE x

\* RINV-11: a lapsed acceptance nobody escalated yet.
EscalateAcceptance(x) ==
  IF Lapsed(x) /\ x.lifecycle_state # "Closed" /\ ~x.escalation_flag
  THEN [LockResidual(x) EXCEPT !.escalation_flag = TRUE,
                               !.acceptance_reassessment_count = @ + 1]
  ELSE x

\* One run of the jobs, a single transaction in run_all's order.  "expired"
\* are the objectives with a rated deployment whose evidence ran out (it no
\* longer counted, so no ceiling moves, but "unassessed" ones lose their
\* last rating); "escalated" are objectives in Failure, too long without a
\* plan or as part of a systemic weakness.
RunJobs(expired, unassessed, escalated) ==
  /\ \A o \in expired : ctl[o].assessed
  /\ \A o \in unassessed : ctl[o].ceiling <= 0
  /\ \A o \in escalated : ctl[o].lifecycle_state = "Failure"
  /\ ctl' = [o \in Objective |-> IF o \in unassessed
                                 THEN [ctl[o] EXCEPT !.assessed = FALSE] ELSE ctl[o]]
  /\ risk' = [r \in Risk |->
       LET x == EscalateAcceptance(IF Reached(r, expired) THEN Degraded(risk[r])
                                                          ELSE risk[r])
       IN  [x EXCEPT !.escalation_flag = @ \/ clinks[r] \cap escalated # {}]]
  /\ UNCHANGED <<clinks, tlinks, trt, today>>

Jobs ==
  \E expired, escalated \in SUBSET Objective : \E unassessed \in SUBSET expired :
    RunJobs(expired, unassessed, escalated)

-----------------------------------------------------------------------------
(* Steps of the control module, as the risks see them                      *)

\* A cascade applies Change to every linked risk that is not Closed.
Cascade(o, Change(_)) ==
  risk' = [r \in Risk |-> IF Reached(r, {o}) THEN Change(risk[r]) ELSE risk[r]]

\* Slip: effectiveness counts without evidence behind it.
ObjectiveMovesUnevidenced(o, state, ceiling, assessed) ==
  /\ ctl' = [ctl EXCEPT ![o] = [lifecycle_state |-> state, ceiling |-> ceiling,
                                assessed |-> assessed]]
  /\ UNCHANGED <<clinks, tlinks, trt, today>>

\* The objective moves to state with other values for its deployments.
ObjectiveMoves(o, state, ceiling, assessed) ==
  /\ ceiling > 0 => assessed
  /\ ctl' = [ctl EXCEPT ![o] = [lifecycle_state |-> state, ceiling |-> ceiling,
                                assessed |-> assessed]]
  /\ UNCHANGED <<clinks, tlinks, trt, today>>

Flagged(flag, x) == [x EXCEPT !.control_change_flag = flag]

Improved(x) == Flagged("Control_Improved", x)

\* Slip: the failure warns and does not lock.
FlaggedNotFrozen(x) == Flagged("Control_Failure", x)

Frozen(x) == [LockResidual(x) EXCEPT !.control_change_flag = "Control_Failure"]

Recovering(x) == IF x.control_change_flag = "Control_Failure" THEN Improved(x) ELSE x

\* GATE_CONTROL_OPERATING
ControlOperating(o, ceiling) ==
  /\ ctl[o].lifecycle_state = "Building"
  /\ ObjectiveMoves(o, "Operating", ceiling, TRUE)
  /\ Cascade(o, Improved)

\* GATE_CONTROL_FAILURE, or a failed deployment taking its objective with it
ControlFailed(o, ceiling, assessed) ==
  /\ ctl[o].lifecycle_state = "Operating"
  /\ ObjectiveMoves(o, "Failure", ceiling, assessed)
  /\ Cascade(o, Frozen)

\* GATE_CONTROL_RECOVERED
ControlRecovered(o, ceiling) ==
  /\ ctl[o].lifecycle_state = "Failure"
  /\ ObjectiveMoves(o, "Operating", ceiling, TRUE)
  /\ Cascade(o, Recovering)

\* Failure to Redesign: no cascade
ControlRedesigned(o) ==
  /\ ctl[o].lifecycle_state = "Failure"
  /\ ObjectiveMoves(o, "Building", ctl[o].ceiling, ctl[o].assessed)
  /\ UNCHANGED risk

\* Retirement is refused while a linked risk above appetite is unresolved.
ControlDeprecated(o) ==
  /\ \A r \in Risk : Reached(r, {o}) /\ AboveAppetite(ReportedRating(risk[r])) =>
       risk[r].treatment_strategy \in {"Accept", "Transfer", "Avoid"}
  /\ ObjectiveMoves(o, "Deprecated", ctl[o].ceiling, ctl[o].assessed)
  /\ Cascade(o, LAMBDA x : Flagged("Control_Changed", x))

\* A deployment degrades, is rated down, or is decommissioned.
DeploymentDegraded(o, ceiling, assessed) ==
  /\ ObjectiveMoves(o, ctl[o].lifecycle_state, ceiling, assessed)
  /\ Cascade(o, Degraded)

\* A deployment is restored or rated up.
DeploymentRestored(o, ceiling) ==
  /\ ObjectiveMoves(o, ctl[o].lifecycle_state, ceiling, TRUE)
  /\ Cascade(o, Improved)

\* Deployments change with no cascade into risks: evidence expires, a
\* deployment goes live, or is re-rated without a change of strength.
ControlDrifts(o, ceiling, assessed) ==
  /\ ObjectiveMoves(o, ctl[o].lifecycle_state, ceiling, assessed)
  /\ UNCHANGED risk

\* A retested control or a mitigated threat flags a risk for re-assessment.
ElsewhereFlagged(r) ==
  /\ risk[r].lifecycle_state # "Closed"
  /\ risk' = [risk EXCEPT ![r] = Improved(@)]
  /\ UNCHANGED <<clinks, tlinks, ctl, trt, today>>

-----------------------------------------------------------------------------
(* Steps of the treatment module, as the risks see them                    *)

ValidateTreatment(t) ==
  /\ trt' = [trt EXCEPT ![t].grc_eng_validated = TRUE]
  /\ UNCHANGED <<risk, clinks, tlinks, ctl, today>>

CommitTreatment(t) ==
  /\ trt' = [trt EXCEPT ![t].owner_committed = TRUE]
  /\ UNCHANGED <<risk, clinks, tlinks, ctl, today>>

\* Every step from Proposed to Complete; the gates on the way ask for both.
CompleteTreatment(t) ==
  /\ trt[t] = [lifecycle_state |-> "Open", grc_eng_validated |-> TRUE,
               owner_committed |-> TRUE]
  /\ trt' = [trt EXCEPT ![t].lifecycle_state = "Complete"]
  /\ UNCHANGED <<risk, clinks, tlinks, ctl, today>>

\* Cancelling locks every linked risk, whatever its state.
CancelTreatment(t) ==
  /\ trt[t].lifecycle_state # "Complete"
  /\ trt' = [trt EXCEPT ![t].lifecycle_state = "Cancelled"]
  /\ risk' = [r \in Risk |-> IF t \in tlinks[r] THEN LockResidual(risk[r]) ELSE risk[r]]
  /\ UNCHANGED <<clinks, tlinks, ctl, today>>

-----------------------------------------------------------------------------
(* The specification                                                       *)

Transition(r) ==
  \/ Admit(r)
  \/ StartScoring(r)
  \/ FreezeScore(r)
  \/ QueueForReadout(r)
  \/ CompleteReadout(r)
  \/ StartMonitoring(r)
  \/ Reassess(r)
  \/ Close(r)
  \/ Reopen(r)

\* The dates an acceptance can be given, where accepting is considered.
AcceptanceDates == {d \in 0..MaxDay : "Accept" \in Strategies}

Operation(r) ==
  \/ \E sc \in RecordedScores : ScoreInherent(r, sc)
  \/ \E sc \in RecordedScores : ScoreResidual(r, sc)
  \/ ReleaseResidualLock(r)
  \/ \E s \in Strategies : DecideTreatment(r, s)
  \/ \E d \in AcceptanceDates : AcceptRisk(r, d)
  \/ \E g \in SUBSET GateFlags, readout, escalated \in BOOLEAN :
       \E p \in Staffing : UpdateRisk(r, g, readout, escalated, p)
  \/ StandingChanges(r)
  \/ \E o \in Objective : LinkControl(r, o)
  \/ \E o \in Objective : UnlinkControl(r, o)
  \/ \E t \in Treatment : LinkTreatment(r, t)
  \/ ElsewhereFlagged(r)

ControlStep(o) ==
  \/ \E c \in Ceilings \cup {NoCE}, a \in BOOLEAN :
       \/ ControlFailed(o, c, a)
       \/ DeploymentDegraded(o, c, a)
       \/ ControlDrifts(o, c, a)
  \/ \E c \in Ceilings \cup {NoCE} :
       \/ ControlOperating(o, c)
       \/ ControlRecovered(o, c)
       \/ DeploymentRestored(o, c)
  \/ ControlRedesigned(o)
  \/ ControlDeprecated(o)

TreatmentStep(t) ==
  \/ ValidateTreatment(t)
  \/ CommitTreatment(t)
  \/ CompleteTreatment(t)
  \/ CancelTreatment(t)

Next ==
  \/ \E r \in Risk : Transition(r) \/ Operation(r)
  \/ \E o \in Objective : ControlStep(o)
  \/ \E t \in Treatment : TreatmentStep(t)
  \/ Tick
  \/ Jobs

Spec == Init /\ [][Next]_vars

-----------------------------------------------------------------------------
(* Properties that hold                                                    *)

PastScoring ==
  {"Treatment", "Readout", "Evidence_Residual", "Monitoring", "Closed"}

\* RINV-1 and RES-6 at rest.  A locked record carries no residual score,
\* also after a cascade, a job or a new cycle locked it behind the back of
\* the enforced invariants; otherwise every later write to it is refused.
LockedMeansNoResidual ==
  \A r \in Risk : risk[r].residual_score_locked => risk[r].residual = NoScore

\* OUT-1.  The lock is off only where the residual gate has been passed in
\* this cycle: no path through re-assessment, reopening, closure or a
\* cascade leaves it off in an earlier phase.
UnlockedOnlyAfterGate ==
  \A r \in Risk : ~risk[r].residual_score_locked =>
    risk[r].lifecycle_state \in {"Evidence_Residual", "Monitoring", "Closed"}

\* A monitored risk reports a validated residual or is locked; it is never
\* open for scoring with no score, which would pass for a validated one.
MonitoredIsScoredOrLocked ==
  \A r \in Risk : risk[r].lifecycle_state \in {"Monitoring", "Closed"} =>
    risk[r].residual_score_locked \/ risk[r].residual # NoScore

\* OUT-5.  The freeze and the phase agree: exactly the risks past
\* Scoring are frozen, and a frozen risk has an inherent score.
FrozenPastScoring ==
  \A r \in Risk :
    /\ risk[r].inherent_locked <=> risk[r].lifecycle_state \in PastScoring
    /\ risk[r].inherent_locked => risk[r].inherent # NoScore

\* The residual and its gate, whatever interleaves with the phases: the score
\* is there only behind the gate of this cycle, and the lock, the freeze and
\* the phase never tell different stories.
ResidualIsGated ==
  /\ LockedMeansNoResidual
  /\ UnlockedOnlyAfterGate
  /\ MonitoredIsScoredOrLocked
  /\ FrozenPastScoring

\* RINV-5 at rest.  No sequence of scoring, re-scoring, deciding and
\* re-assessing leaves an accepted risk with a Critical score.
CriticalNeverAccepted ==
  \A r \in Risk : Accepted(risk[r]) =>
    /\ RatingOf(risk[r].inherent) # "Critical"
    /\ RatingOf(risk[r].residual) # "Critical"

\* RINV-4 at rest.  An acceptance is dated, and its window is that of the
\* rating the risk has now, not the one it had when it was accepted.
AcceptanceTimeBound ==
  \A r \in Risk : Accepted(risk[r]) =>
    /\ risk[r].acceptance_expiry_date # NoDate
    /\ risk[r].acceptance_expiry_date <= today + AcceptDays[RatingOf(risk[r].inherent)]

\* What an acceptance standing now may be, whatever was scored, re-scored,
\* decided or renewed since: never of a Critical risk, never beyond its window.
AcceptanceBounded == CriticalNeverAccepted /\ AcceptanceTimeBound

\* A lapse is counted once, however often the jobs run and the record is
\* edited, closed or accepted again in between: the count that caps renewals
\* never outruns the calendar.
LapseCountedOnce ==
  \A r \in Risk : risk[r].acceptance_reassessment_count <= today

\* RINV-6 at rest.  A risk rated Moderate or above is past its readout only
\* with the owner's confirmation of this cycle standing.
ReadoutNotSkipped ==
  \A r \in Risk :
    /\ risk[r].lifecycle_state \in {"Evidence_Residual", "Monitoring", "Closed"}
    /\ RatingOf(risk[r].inherent) \in {"Moderate", "High", "Critical"}
    => risk[r].readout_confirmed

\* RINV-12, the part that survives late linking: a mitigated risk at or past
\* its readout rests on some validated treatment with a committed owner.
MitigationBacked ==
  \A r \in Risk :
    Phase(risk[r]) >= 5 /\ risk[r].treatment_strategy = "Mitigate" =>
      \E t \in tlinks[r] : trt[t].grc_eng_validated /\ trt[t].owner_committed

\* Only the people named can stand in the way of a new cycle.  Whatever
\* lapsed, failed, was linked or was left out of the record since, the new
\* cycle clears all the other enforced invariants could refuse; it does not
\* clear an owner who lost the role or came to own a linked control.
NewCycleRefusedOnlyForPeople ==
  \A r \in Risk :
    risk[r].lifecycle_state \in {"Monitoring", "Closed"} /\ ~risk[r].people.offending =>
      Enforced(OpenNewCycle(risk[r]), clinks[r], tlinks[r])

\* OUT-5, CYC-4 and CYC-5.  An inherent score is written only in Scoring,
\* whatever cascades, jobs and new cycles do in between.
InherentWrittenOnlyInScoring ==
  [][\A r \in Risk : risk'[r].inherent # risk[r].inherent =>
       risk[r].lifecycle_state = "Scoring"]_vars

\* CINV-5.  In the step in which an objective enters Failure every linked
\* risk that is not Closed is locked and flagged, and reports its inherent
\* score again.
FailureFreezes ==
  [][\A o \in Objective, r \in Risk :
       /\ ctl[o].lifecycle_state # "Failure" /\ ctl'[o].lifecycle_state = "Failure"
       /\ o \in clinks[r] /\ risk[r].lifecycle_state # "Closed"
       => /\ risk'[r].residual_score_locked
          /\ risk'[r].control_change_flag = "Control_Failure"
          /\ Reported(risk'[r]) = risk[r].inherent]_vars

\* RES-2.  A risk looks better in a step only because its inherent score was
\* taken in Scoring, a residual was recorded that the linked controls justify
\* at that moment, or a lock discarded a residual (which may lie above the
\* inherent score): no unlock, cascade, job or closure brings back a figure
\* recorded before.
ReportedFallsOnlyWhenScored ==
  [][\A r \in Risk :
       Magnitude(Reported(risk'[r])) < Magnitude(Reported(risk[r])) =>
         \/ risk[r].lifecycle_state = "Scoring"
         \/ /\ ~risk[r].residual_score_locked
            /\ risk'[r].residual \notin {risk[r].residual, NoScore}
            /\ RINV9(risk'[r], clinks[r])
         \/ ~risk[r].residual_score_locked /\ risk'[r].residual_score_locked
            /\ Reported(risk'[r]) = risk[r].inherent]_vars

\* The engine's contract.  The machine declares Closed an end state and an
\* edge out of it; the edge is what fire looks at, so nothing is final here.
\* A risk exists from the start, in Intake.
RiskEngine ==
  INSTANCE LifecycleEngine WITH
    Entity    <- Risk,
    Absent    <- "Intake",
    Initial   <- "Intake",
    States    <- RiskStates,
    Terminal  <- {},
    Edges     <- {<<"Intake", "Preconditions">>, <<"Preconditions", "Scoring">>,
                  <<"Scoring", "Treatment">>, <<"Treatment", "Readout">>,
                  <<"Readout", "Evidence_Residual">>, <<"Evidence_Residual", "Monitoring">>,
                  <<"Monitoring", "Preconditions">>, <<"Monitoring", "Closed">>,
                  <<"Closed", "Preconditions">>},
    Wildcards <- {},
    state     <- [r \in Risk |-> risk[r].lifecycle_state]

FollowsRiskMachine == RiskEngine!Spec

-----------------------------------------------------------------------------
(* What the documents say and the code does not do: each is refuted        *)

\* RINV-9: controls that do not qualify never reduce the residual, checked
\* on every write to a risk.  Read on the steps that change a risk's control
\* links: the reduction is justified by the links that are left.
LinkEditsKeepReductionEarned ==
  [][\A r \in Risk : clinks'[r] # clinks[r] => RINV9(risk'[r], clinks'[r])]_vars

=============================================================================
