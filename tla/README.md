# A TLA+ model of the governance platform

The repository implements a governance, risk and compliance register: risks, controls,
treatments, threats, policies and compliance requirements, each with a gated lifecycle.
Its value lies in rules that must hold over months and across modules: a residual score
may not stand on a control that failed, an acceptance may not outlive its window, a
mitigated threat may not rest on a dead control. This directory models these modules in
TLA+, checks them and their compositions with TLC on small instances, and proves with
TLAPS, for every instance, that the compositions implement the register and that the
modules keep their rules.

Source paths below are relative to `src/platform/backend/app/` unless they begin with
`src/`.

## 1. The system

| Component | State it keeps | Operations | Who it calls |
|---|---|---|---|
| risk (`modules/risk`) | risk records, links to controls, treatments, assets, policies; phase history | create, edit, score, decide, link, unlock, transition | scoring engine, cascades |
| control (`modules/control`) | objectives, activities, deployments with an effectiveness rating and its evidence, tests | create, edit, assess, test, transition | cascades into risks, threats, compliance, reviews |
| treatment (`modules/treatment`) | treatments, approvals, check-ins | validate, commit, request and decide approvals, check in, edit, transition | cascades into risks |
| threat (`modules/threat`) | threat models, components, scenarios, mitigation and risk links | decompose, analyse, mitigate, accept, promote into a risk, sign off | the risk service |
| compliance (`modules/compliance`) | frameworks, requirements, positions, coverage links | adopt, assess, link, set a level, unlink; reload at start-up | cascades |
| policy (`modules/policy`) | policies with versions, approvals and links; exceptions with a stored count | edit, approve, link, confirm alignment, transition; request, approve and expire exceptions | cascades |
| review (`modules/review`) | effectiveness reviews of repaired deployments | open, complete on a retest, cancel, escalate | cascades into risks |
| scoring (`engine/scoring.py`) | none | rating, ceiling of linked controls, residual check, acceptance window | - |
| lifecycle engine (`engine/state_machine.py`, `core/service.py`) | none | look up and fire a transition, apply a change, enforce invariants, emit cascades | all of the above |
| jobs (`modules/jobs.py`) | none | nightly expiry, escalation and promotion, in one session | cascades, risks, threats |
| identity, configuration, dashboard, front end | users; the YAML file; - | authorise, validate, display | - |

A transition is one database transaction in a fixed order: evaluate the gate, set the
state, run the service's `on_transition`, enforce the entity's invariants, run the
cascades, write the audit record, commit. An edit is: assign, enforce, audit, commit.
Three facts follow that make the code hard to test. Cascades run *after* the invariants
and write *other* entities, whose invariants nobody evaluates in that transaction. They
assign the lifecycle column directly, past the machine and its gates. And the invariants
see the relationship collections the session has loaded, which need not be what the
transaction has just written.

What is hard, by component, and what makes it correct:

* risk: seven phases, re-entered any number of times; a lock whose setting must discard a
  score, set from eight places; rules enforced on write that must still hold when the
  calendar or another module moves; links added and removed in any phase.
* control: three machines that pull on each other; a failed deployment takes its objective
  with it and the objective its risks; evidence that expires by the calendar; a rating
  that must never count beyond its evidence or against a later failing test.
* treatment: decisions of people whose roles, assignments and ownership change between the
  request, the decision and its use; a cancellation that must lock what rested on it.
* threat: a live control goes away under settled scenarios, by four cascades; each scenario
  must reopen and an active model lose both signatures; nobody's scenario must still reach
  the register.
* compliance: a position claims something about controls, assets and dates, all of which
  move by themselves; five paths must re-examine it.
* policy: what the gates ask once (a control, a senior approval, confirmed alignment) has
  to survive edits in any state; the body in force must never be overwritten uncaptured.
* review: every repair opens one review and no repair opens two; what completes one must
  be newer than what broke the control.
* jobs: the same lapse met on every run, filtered by flags that others also write; a
  refused promotion rolls the night back.
* engine: concurrent requests under READ COMMITTED.

`PROJECT.json` lists every component with its status, and the hazards at their lines.

## 2. The modules

| Module | Models |
|---|---|
| `LifecycleEngine` | the generic state machine: the abstract specification of any lifecycle column |
| `Scoring` | the scoring engine's pure functions with the bands and ceilings of `src/platform/config/governance.yml` |
| `RiskLifecycle` | the risk register with everything that reaches into it; controls and treatments are views |
| `RiskNights` | the register under a scheduler whose nights may be rolled back |
| `ControlLifecycle` | objectives, activities and deployments, with tests, assessments and expiry; the risks are a set of blocked objectives |
| `ControlNights` | the library under the same scheduler |
| `GovernedRisk` | register and library: the view computed from deployments, the cascades driven by events, the jobs in full |
| `TreatmentLifecycle` | treatments and approvals, with people, roles and ownership |
| `MitigatedRisk` | register and treatments: the view computed from records, the cascade of a cancellation |
| `ThreatModelling` | models, components, scenarios, links and promotion; which deployments are in service, which risks there are |
| `ComplianceCoverage` | positions, links, adoption, asset scope, reload; which objectives operate, which deployments are live |
| `PolicyLifecycle` | policies with the versions of their body, approvals, links and alignment |
| `PolicyExceptions` | exceptions, their windows and the stored count |
| `NightlyRun` | the nightly session: expiry, promotion, and the roll-back between them |
| `EffectivenessReviews` | the reviews, over the control library |
| `ControlEstate` | library and reviews with the compliance positions and threat models that rest on them |
| `MC*` | windows, caps, topologies and views for TLC |
| `*_proofs` | theorems about the module of that name; `PolicyGovernance_proofs` about the three of policies and exceptions, `ControlEstate_proofs` about reviews as well |

Two kinds of refinement tie them together.

* `RiskLifecycle` is the abstract specification of what the register may expect of its
  controls and treatments. `GovernedRisk` and `MitigatedRisk` are the detailed ones:
  `RL == INSTANCE RiskLifecycle WITH ctl <- View` (`trt <- TreatmentView`) is the
  refinement mapping, `ImplementsRiskLifecycle` and `ImplementsRegister` are the claims.
  In the same way `ComplianceCoverage` and `ThreatModelling` state what positions and
  threat models may expect of the controls under them, and `ControlEstate` puts the real
  library there (`ImplementsDependants`).
* `LifecycleEngine` is the abstract specification of a lifecycle column: only declared
  edges, nothing out of an end state. Each module with a machine instantiates it with that
  machine and with the column of its records (`RiskEngine`, `ObjectiveEngine`, ...). As
  cascades and jobs assign the column directly, that they keep to it is a claim about each
  machine of the code; nine are proved (section 4). The policy machine has no instance: no
cascade or job assigns its column, so there would be nothing to show. Where a machine declares an end
  state and an edge out of it, the end state is left out of the instance.

Definitions marked "Slip" in the modules are the mutants: plausible mistakes beside the
definition they would replace. Definitions under "What the documents say and the code does
not do" are statements the model refutes; section 3 describes the traces.

In every module one action is one request, cascade included, one job run, or one day that
matters, as one serial transaction. Text, wording, attestations and audit rows are left
out; a gate on a text that an editor may fill at any time is taken as met.

### RiskLifecycle

`risk` holds one record per risk with the columns the rules read: the lifecycle state, the
inherent and the residual score (a pair of impact and likelihood, `NoScore` when absent),
the two locks, the treatment decision with its acceptance window and renewal count, the
readout confirmation, the stored gate flags, the escalation and control-change flags, and
in `people` what the rules read of the persons named: whether owner and stakeholder are
there, and whether somebody offends a rule about persons. `clinks` and `tlinks` are the
link tables. `ctl` and `trt` are what the risk module reads of an objective and of a
treatment: for an objective its state, the likelihood reduction its weakest counted
deployment permits, and whether any deployment is assessed. `today` is the calendar.

Actions, in the order of the module: the nine transitions of `modules/risk/machine.py`,
each with its gate, its service hook and its cascade; the operations of
`modules/risk/service.py`; the clock, with which evidence may run out, and one run of the
jobs; the steps of the control module, each with the cascade it fires into every linked
risk (`modules/cascades.py`); the steps of the treatment module with theirs. `Enforced` is
the conjunction of RINV-1, 4, 5, 6, 8 to 12 and, in `NobodyOffends`, RINV-3, RINV-15 and
SEP-1, as registered in `modules/risk/invariants.py`. `Store` is the write path `apply`:
assigned, then enforced, and rolled back if refused. What does not go through it in the
code does not in the model: the unlock, the removal of a link, the cascades and the jobs
enforce nothing, nor does the administration of users or the edit of a control's owner
(`StandingChanges`, by which a person named on a risk comes to offend or ceases to);
`Close` enforces the record before its cascade clears the flag.

Abstractions, each chosen so that the properties cannot tell the difference:

* Who is named is not in the state, only whether that offends a rule. A role revoked from
  somebody named on several risks moves them one at a time; no rule reads two.
* Of the registered invariants four are left out. RINV-2 is always true. RINV-14 evaluates
  what RINV-9 does, on the same scope. RINV-7 and RINV-13 speak of a triage confirmation and
  a rationale; the first is enforced from Preconditions on and nothing but an edit of the
  record writes it, the second binds only a decision to mitigate, so neither refuses a new
  cycle that would have passed otherwise.
* Asset scope, policy links, review dates, SLA status and audit records are not in the state.
* `gate_mitigations_implemented` is written by a cascade and never read by a gate.
* The values of `control_change_flag` are reduced to none, failure, changed, improved.
  `reassessment_count` is reduced to whether it is positive, which is what RINV-8 reads.
  The readout's confirmation and date are one flag.
* `ControlDrifts` covers whatever the control module does without a cascade into risks: a
  deployment that goes live, a re-rating that leaves the reduction as it was, an edit.

`MaxDay` is the only bound: it ends the calendar. `Staffing` are the situations of the
people that a run considers. `acceptance_reassessment_count` needs no
bound, since a lapse needs a day.

### RiskNights and ControlNights

The jobs of a night share one session that is committed at its end, and a promotion the
register refuses rolls it back (section 3). The register and the library as such have jobs
that land; a night that is rolled back is a step that leaves them as they are. What these
two modules add is therefore one variable, whether a refused scenario is waiting
(`refused`), moved by anything, and the fairness of the nights that find none
(`NightLands`). Their liveness properties end in "or some night found one", the escape
of `LapseSettlesUnlessRefused`.

### ControlLifecycle

`obj`, `act` and `dep` are the three tables of `modules/control/models.py`, reduced to the
columns that rules read. A record that does not exist yet is "Absent". `blocking` is what
CINV-8 reads of the risks, moved by anything (`RisksFollow`); `fired` is the event the last
step emitted towards the risks, by objective; `today` is the calendar.

Actions: the seven transitions of an objective, the creation and three transitions of an
activity, the creation and six transitions of a deployment (`modules/control/machine.py`);
`AssessCE`, `FailingTest` and the two edits the rules read (`modules/control/service.py`);
the expiry job. A deployment that fails in service takes an operating objective into
Failure in the same step and fires the failure cascade (`FailurePropagates`, from the
handlers of `deployment.failed` in `modules/cascades.py`). `StoreDeployment` is the write
path: CINV-1, CINV-10 and CINV-11, then the assignment.

`contradicted` is true when a failing test was recorded after the last audited assessment:
the code compares two timestamps, the model keeps their order. Owners and roles, asset
surfaces, key controls and custom fields are left out. Passing tests, and partial tests
outside Active, change nothing kept here.

### GovernedRisk

All the variables of both modules, with `ctl` gone: `View` computes it from the deployments
as `resolve_ce` (`engine/scoring.py`) and `control_effectiveness_assessed`
(`modules/risk/models.py`) do. A `ControlStep` is a step of `ControlLifecycle`; `Responses`
then applies to each open linked risk the cascade that its event selects. `blocking`
follows the risks (`Blocked`). `Jobs` is the run of `modules/jobs.py` on real records:
expiry degrades the linked risks, lapsed acceptances are escalated, and a failure that is
overdue or part of a systemic weakness flags its risks.

### TreatmentLifecycle and MitigatedRisk

`treatment` and `approval` are the tables of `modules/treatment/models.py`; who holds which
role is a constant. Operations of `modules/treatment/service.py` and of the router's edit
are one action each, the five transitions of the machine another each. `MayDecide` is the
rule on who decides a request: never its requester nor the treatment's owner; the assignee
or a senior person if one is assigned, a senior person or a risk owner otherwise. An edit
may change the owner in any state, under RINV-16.
Dates are one flag each (`dated`, `evidenced`, `checked_in`): no guard compares them.

`MitigatedRisk` has the register's variables but `trt`, which `TreatmentView` computes.
`RegisterStep` takes a step of the register that moves no treatment; `TreatmentStep` a
request on a treatment, with `CancelledResponse` as `treatment_cancelled` of
`modules/cascades.py`.

### ThreatModelling

`model`, `component` and `scenario` are the tables, with links inside the scenario's record
as functions of deployment and risk; `deployment` is whether one is in service; `register`
is where each risk came from. `ScenarioRules` (TINV-1, 3 to 7 and TM-PARTIAL) and
`ModelRules` (TINV-2, 11 and 12) are what is registered, `StoreScenario` and `StoreModel`
the write paths that enforce them. The
four cascades that walk from a deployment to scenarios (`ObjectiveFails`,
`DeploymentFails`, `DeploymentDecommissioned`, and the siblings a failed deployment takes
with it) go through `ReopenScenarios`, which moves and strips an active model without
enforcing anything, as the code does. `PromoteToRisk` is the whole request, and
`PromotionLost` its first commit alone: `create_risk` commits before the scenario is
written. A day matters to a scenario when its promotion window passes or its acceptance
lapses. Severities in use and link types are constants; the catalogue, exposure figures and
text are left out.

### ComplianceCoverage

A position (`assessment`) claims something about `link`, `scope`, `objective` and `live`.
`Gate` and `Rules` are the preconditions of the machine and AINV-1 to 4, 8 and 9;
`CoverageIsLive` is `_coverage_is_live`, which looks for a live deployment on every asset
in scope. `Revoke` is the cascade from an objective out of operation, `Revalidate` what the
link operations run afterwards. `Restart` is the reload of the catalogues at start-up
(`modules/compliance/loader.py`), which adopts again whatever the configuration names.

### PolicyLifecycle, PolicyExceptions, NightlyRun

A policy keeps its owner, its approver, its text, the captured versions, its links with
those that owe a confirmation (`realigning`) and the stored count of them
(`realignment_pending`). Bodies are members of a set; of the scope only whether it is
filled in, which is all a gate asks of it. A version holds the body (`Capture`), as the
table does, and an edit captures only when the body changes (`Edited`). The actions are the eight transitions,
the edit, the approval, the links and the confirmation. `Save` is the write that enforces
PINV-1, 5, 8 and 10; link edits and confirmations use `Store`, which enforces nothing.

An exception keeps the window its expiry falls into, and a day moves it to the next. The
count is written by the cascades of single exceptions (`Recount`). `NightlyRun` adds what
`run_all` adds: one session, `risk_service.create_risk` that commits it in the middle, and
`session.rollback()` on a refusal. Which scenario the query returns first is open.

### EffectivenessReviews

Every step of `ControlLifecycle` is a step here. `Repair` is one of its two repairs with
`OpenFor`, which is `open_for`: a repair opens a review unless one is open. `passed` is
`_passing_test`: whether some pass was recorded since the review opened, and whether the
deployment was repaired again after it, which the code does not ask.

### ControlEstate

All the variables of the library, the reviews, `ComplianceCoverage` and `ThreatModelling`,
but those in which the last two assume something of controls: `ObjectiveSeen`, `Live` and
`DeploymentSeen` compute them from the library's records. `Heard` are the library's steps
the dependants listen to: the failure and the retirement of an objective, the failure of a
deployment, by hand or by a test, which reaches them through its objective if that was
operating and directly otherwise, and a decommission. `Unheard` are all its other steps
and those of reviews: neither a degradation, a recovery nor a completed review writes a
position or a threat model. `ComplianceStep` and `ThreatStep` are the requests and jobs of
the dependants, which write nothing of the library. The risks of `register` are those of
threat modelling; that the register proper moves as it should over the library is the
claim of `GovernedRisk`, and that the nightly session may be rolled back that of
`NightlyRun`.

## 3. What is checked

| Run | Instance | States | Shows |
|---|---|---|---|
| `risk_residual` | one control, one treatment, two days, decision Mitigate, ratings Moderate-Low and High, people named or missing and in order or not | 477,320 | the life of a residual score: discarded by every lock, unlocked only past the gate, present or locked under monitoring, falling only when earned, backed by a treatment; failures lock and flag; a new cycle is refused only on account of people |
| `risk_acceptance` | Accept and Avoid, Moderate-Low, Moderate and Critical, three days, no reduction on offer, fair nights unless a refused scenario waits | 873,680 | never Critical, bounded by the present rating, each lapse counted once, readout not skipped; a lapsed acceptance is eventually escalated or decided anew, or a night met a refusal |
| `control` | one deployment, every rating, both automation levels, windows of 0 and 1 day, three days, fair nights unless a refused scenario waits | 644,480 | failures leave their mark on state, date and rating; weakening is announced; expired ratings are downgraded, or a night met a refusal |
| `governed` | one risk, one control, one deployment, two likelihoods, two days | 359,232 | the composition implements `RiskLifecycle`; reductions rest on fresh evidence, a failed deployment discards them |
| `treatment` | one risk, one treatment, one approval, an engineer and a deliverer, Mitigate and Transfer | 558,372 | the composition implements `RiskLifecycle`; deliveries were agreed by somebody else; residuals are released only on delivery |
| `threat` | one model, one component, one scenario of two severities, two deployments of one control, one risk, two people, fair promotion job | 1,357,530 | end states stay earned, active models settled and signed, stale scenarios reach the register |
| `compliance` | one requirement, two controls with a deployment on an asset each | 182,016 | positions keep what they claim, a lost control revokes them |
| `policy` | one policy, three controls, three people, two bodies, scope filled in or not | 692,354 | policies in force are backed and approved, alignment is never understated, bodies in force are kept |
| `nightly` | two exceptions of one policy, two stale scenarios of which one is refused, fair nights | 14,884 | the stored count is exact; a lapse settles unless some night meets a refusal |
| `reviews` | two deployments of one control, two reviews, two days, fair escalation | 859,340 | one open review after each repair, none completed on a contradicted rating; late reviews are escalated or closed |
| `estate` | one control with one deployment, one requirement it covers, one scenario it mitigates, two people | 49,560 | positions and threat models over the real library take only the steps of their own modules |
| `nightly_rollback` | that of `nightly` | violation | a refusal each night keeps a lapsed exception approved |

Why these bounds. No operation or rule of the register reads two risks, and the cascades
treat linked risks one by one, so one risk meets every case; the same holds of treatments,
models, requirements and policies. Where a rule speaks of several records, there are
several: the two deployments a control may be live on (`threat`, `compliance`), the full
and the partial mitigation of a scenario (`threat`), the last satisfying control
(`compliance`), the last link and two confirmations owed besides it (`policy`), two
repairs and two open reviews (`reviews`). The worst case over several deployments is
reached in no run: with two, the ratings, evidence windows and days that `control` needs
together are out of TLC's reach, and `reviews`, which has two, leaves the objective in
design. It is covered by the proofs of section 4, `NoSilentWeakening` and `Refinement`
among them, whose library has any number. One approval is enough as every approval is
decided by itself and a treatment needs some approved one. Values are chosen so that each
rating class a rule tells apart is reached (4x2 Moderate-Low, 4x3 Moderate, 4x4 High, 4x5
Critical) and so that a window can end, an acceptance lapse and the job run after it. In
`threat` the owner of a system may be somebody who cannot hold a risk, so that refused
promotions happen. In `risk_acceptance` no control offers a reduction (`Ceilings` is
empty): residual scores are those the inherent likelihood permits, and what reductions do
is the question of `risk_residual`. The other register runs keep the people in order,
which `risk_residual` varies. The systemic threshold of three failures of a family is not
reached with one objective; its effect on a risk has the shape of the prolonged failure,
which is. In `treatment` controls come into service and stay (`MCNext`): no treatment
reads them, and their other steps are those of the register's own runs. In `reviews` the
constraint keeps the objective in design and risks out of the way: the reviews read
neither, and as a step of the library never is a condition of the escalation, a behaviour
the constraint cuts off cannot owe one. In `estate` it keeps from the dependants what the
runs `compliance` and `threat` explore without the library (sign-offs out of order,
partial mitigations, overdue scenarios, deferred adoption), and the reviews are left out,
as nothing listens to them, so that no repair leads back from a failure there: what
follows a repair is left to the theorem `EstateRefines`; covered requirements and
mitigated scenarios of active models under an operating control are reached, and so is
their loss by each cascade. The views (`MCView`) hide columns after the last place that
reads them, as their comments list. The constants are free in the proofs below, so what is
proved does not depend on any of these choices. Deadlock is checked in every run.

Fairness. Nothing is assumed of users; what is assumed is that the jobs run, "In production
these run on a scheduler" (`modules/dashboard/router.py:251`). How much of a night lands is
not assumed: expiry of ratings, escalation of acceptances and expiry of exceptions are
written before the promotion job, whose `session.rollback()` (`modules/jobs.py:366`) undoes
them before the commit (`:455`). `RiskNights` and `ControlNights` therefore ask for nothing
of a night while a refused scenario waits, and their properties hold unless one does;
`NightlyRun` models the night itself and states the same escape. The promotion job and
the escalation of reviews need none: each promotion commits itself, and reviews are
escalated after the promotion job, by the commit at the end. Each action is enabled
whenever it has work, so weak fairness is enough.

### The disagreement

`nightly_rollback`: `promote_stale_threat_scenarios` answers a refused promotion with
`session.rollback()` (`modules/jobs.py:366`), and `run_all` commits after its last job. The
rollback discards what the earlier jobs of the night wrote: expired exceptions, but also
downgraded ratings and escalated acceptances. A scenario whose model names an owner without
the Risk_Owner role is refused every night. A promotable scenario returned first commits
the session in the middle and saves them, so the order of an unordered query decides.

### Divergences without a run of their own

Kept in the model as the code has them. Those with a name in parentheses are stated in the
module and refuted there by TLC when they are checked.

Register and controls:

* RINV-9 "on every write" does not hold when a control is unlinked: removal enforces
  nothing (`LinkEditsKeepReductionEarned`). Adding a link is enforced over the collections
  loaded before it: a weaker control (`modules/risk/service.py:381`) or an unvalidated
  treatment past readout (`:432`) is accepted, and a control already in Failure does not
  lock the risk (`:378`).
* The job that handles a lapsed acceptance skips a risk already escalated for another
  reason, which then keeps its residual (`LapsedFallsBackToInherent` of `RiskNights`).
* A failing test on a deployment whose rating has expired is refused by CINV-10, and the
  test is rolled back with it (`FailingTestsMoveTheDeployment`).
* An objective returns from Failure on an assessment older than the failure
  (`RecoveryFollowsReassessment`).
* Expired deployments leave the minimum, so the expiry of the weakest raises what the
  objective buys (`ExpiryNeverStrengthens`; it takes two deployments of different ratings
  and windows).
* A closed risk can be decided again (`modules/risk/service.py:239`) or lose its residual
  to a cancelled treatment (`modules/cascades.py:659`), and then stands above appetite.
* An operating objective may lose its last active deployment (OL-4,
  `modules/cascades.py:222`); a deployment may be planned under a retired activity
  (`modules/control/service.py:208`) and edited after its decommission
  (`modules/control/router.py:312`).
* The failure date and plan are kept through a rebuild (`modules/cascades.py:95`), and a
  plan of the last failure suppresses the escalation of the next
  (`modules/control/machine.py:202`, `modules/jobs.py:186`).
* Lowering the automation level leaves ratings above its ceiling
  (`modules/control/invariants.py:124`) until the next write is refused.
* From CE-Unvalidated to CE-Low the worst case may fall and nothing is announced
  (`modules/control/service.py:253`).
* `control_effectiveness_assessed` (`modules/risk/models.py:302`) counts deployments of any
  status and with expired evidence, although its comment says it filters as the engine does.
* A deployment failed by hand, with no failing test, returns on its old evidence
  (`modules/control/machine.py:357`).
* A residual above the inherent score is permitted (`engine/scoring.py:297`), so a lock can
  lower the reported score. `ReportedFallsOnlyWhenScored` states exactly when.
* A passed retest, like a restored deployment, overwrites the change flag another control's
  failure set on the same risk (`modules/review/cascades.py:101`).

Treatments:

* SEP-5 (`src/specification/state-transitions.md:395`) is a check of the moment: the owner
  may later be changed to the person who validated. The commitment survives the change of
  owner, and the evidence of a complete treatment may be cleared.
* A risk whose residual was released by a transfer may be decided Mitigate again; it is
  then unlocked with an undelivered treatment. `ReleaseRestsOnDelivery` is about the step
  that releases, and does not claim more.

Threat modelling:

* `sign_off` (`modules/threat/service.py:639`) enforces no rule: the administrator who signed
  for AppSec can sign again for the owner of a model that is Active already
  (`ActiveSignaturesIndependent`, TINV-2).
* `promote_to_risk` commits twice. A crash between the commits leaves a risk no scenario
  points at, and the next promotion makes another (`PromotedOnce`, TINV-8).
* A scenario whose promotion is refused stays Identified for ever (`NothingStaysStale`);
  `StaleScenariosArePromoted` holds of those the register accepts.
* Signatures given in Review survive a rework and a failing control, as only an active
  model is stripped. Adding or editing a component of an active model is not checked
  against TINV-11 until the model is next written. No job runs when an acceptance expires.
  A deprecated model may still be abandoned.

Compliance:

* "Coverage cannot outlive the control that carried it" (AINV-2) is kept by the failure and
  the retirement of objectives, but not by a decommissioned deployment, a change of an
  asset's scope or a framework given up (`CoverageOutlivesNothing`).
* No job runs when a compensating position expires (AINV-4), and a restart adopts again
  what was given up (`modules/compliance/loader.py:138`). `control.deprecated` may be fired
  again for an objective that is deprecated already.

Policies and exceptions:

* "So the prior text is always recoverable" (`modules/policy/service.py:39`) is not so of a
  deprecated policy, whose edits capture nothing (`PriorTextRecoverable`).
* An edit that leaves the body alone captures nothing in any state, and a version has no
  scope: a policy in force can have its scope or purpose replaced, or emptied, with no trace
  of the old one (`modules/policy/service.py:41`, `modules/policy/models.py:134`), although
  the gate of the review asks for a scope (`modules/policy/machine.py:109`).
* An approval survives the return to draft and edits of the body. Activation discharges
  confirmations nobody gave. The pending count overstates after an unlinked control. A
  version is a text the caller sends, or does not (`:147`), which leaves PL-4 to the
  caller. The machine declares Deprecated an end state and an edge out of it.
* Two unlink requests at once may both count two links and remove both.
* PE-1, "max 1yr; CISO approval for 2yr", is asked at approval only; an edit moves the
  date anywhere (`ExceptionsStayBounded`).

Reviews:

* A review that stays open over a second failure and repair can be completed on a pass
  that preceded the second failure, although "A test from before the repair does not
  count" (`modules/review/machine.py:86`): the test is compared with the opening
  (`CompletionFollowsRetest`). What does hold is `CompletionRestsOnFreshRating`.

Machines: Deprecated is declared an end state of policies and Closed of risks, and each has
an edge out of it (`modules/policy/machine.py:240`, `modules/risk/machine.py:410`), which the
engine takes.

## 4. What is proved

All proofs hold for any number of records and people, any score values on the 5 by 5 grid,
any windows, caps, thresholds and topologies. They rest on the assumption each module
states about its constants, which TLC evaluates on its runs.

| Module | Theorems |
|---|---|
| `RiskLifecycle_proofs` | `Typing`, `Inductive`, `ResidualsAreGated`, `AcceptancesAreBounded`, `ReadoutsAreConfirmed`, `MitigationsAreBacked`, `NewCycleNeedsPeopleInOrder`, `InherentIsFrozen`, `LapsesAreCountedOnce`, `FailuresFreeze`, `ReportedFallsAreEarned`, `RiskMachineFollowed`, and those of locks and acceptances they rest on |
| `ControlLifecycle_proofs` | `Typing`, `Inductive`, `FailuresLeaveTheirMark`, `NoSilentWeakening`, `RetirementIsFinal`, `LibraryMachinesFollowed` |
| `GovernedRisk_proofs` | `Refinement`, `GovernedInvariant`, `ReductionsRestOnEvidence`, `DeploymentFailuresFreeze` |
| `MitigatedRisk_proofs` | `Inductive`, `Typing`, `DeliveriesAreAgreed`, `Refinement`, `ReleasesRestOnDelivery`, `AbandonedTreatmentsFreeze`, `MachineFollowed` |
| `ThreatModelling_proofs` | `Inductive`, `Typing`, `EndStatesStayEarned`, `ActiveStaysSettled`, `FallingBackUnsigns`, `MachineFollowed` |
| `ComplianceCoverage_proofs` | `Inductive`, `Typing`, `PositionsStayGrounded`, `LossesRevoke`, `MachineFollowed` |
| `PolicyGovernance_proofs` | `Inductive`, `Typing`, `EnforcedPoliciesAreBacked`, `AlignmentIsNeverUnderstated`, `BodiesInForceAreKept`, `NightlyInductive`, `NightlyTyping`, `CountsMatchTheRegister`, `ExceptionMachineFollowed` |
| `ControlEstate_proofs` | `LibraryUnderReviews`, `ReviewsInductive`, `ReviewTyping`, `RepairsOpenOneReview`, `CompletionsAreFresh`, `ReviewMachineFollowed`, `EstateInductive`, `ReviewsInTheEstate`, `EstateRefines`, `MitigationsRest`, `LossesReachDependants` |

**States of the register.** `IInv` is `TypeOK` and `Sound` of every record. `Sound` is the
strengthening: the lock discards the score, the lock is off only behind the gate, a
monitored risk has a score or is locked, the freeze follows the phase, an accepted risk is
scored. None of these is inductive alone: that a monitored risk is scored or locked needs
that locking discards and that only the gate unlocks; that a new cycle passes RINV-1 needs
that a locked record has no residual. `Induction` goes through every action; cascades are
handled by lemmas about one record. On top of it `RulesAtRest` shows that rules which the
service enforces on writes also hold between writes, though cascades, jobs, days and other
modules move in between. `EveryStep` is its core: a step either keeps a record's decision,
and keeps or discards its residual, or writes the record through the enforced rules while
nothing else moves. Days only widen an acceptance's window, treatment flags are never
withdrawn and treatment links never removed, so the kept rules survive. `ReleasesPassGate`
classifies the steps that take a lock off or start monitoring: they pass the residual gate.

**Steps of the register.** `LapsesAreCountedOnce` strengthens the bound on the count: a
lapse not yet counted leaves a day to spare, since it lapsed after its window opened.
`FailuresFreeze` shows that only the failure steps enter Failure, and
`ReportedFallsAreEarned` classifies every step by what it does to the reported score.

**The library.** The invariant is `TypeOK`, `Dated` (a failure has a date that is not ahead
of the day) and `Honest`: a planned or absent deployment is unrated, a rating has evidence,
and one in service is not contradicted. The last part needs the first, or activation would
put an old contradicted rating into service. From it follow the dates, the finality of end
states, that ratings postdate failures and that no request weakens what counts without
locking the risks: a stored record in service has unexpired evidence, so it can only count
for less by an announced change.

**Register and library.** `Refinement` is the main theorem. `OneViewMoves` shows that a
request moves the view of one objective; `Effect` reduces the eleven deployment operations
to the four things they can do to the register; `JobsMoveNoCeiling` shows that the expiry
job withdraws only ratings that no longer counted; `CeilingsAreEvidenced` that a positive
ceiling has evidence, which an announced improvement needs. Since the library's steps then
are steps of `RiskLifecycle`, its proved invariant holds of the composition
(`GovernedInvariant`), and `ReductionsRestOnEvidence` combines it with the library's: a
recorded reduction leads back through the worst case to a deployment in service that no
later test contradicts. `DeploymentFailuresFreeze` follows a failed deployment to the risks.

**Register and treatments.** The treatments' invariant `TInv` joins to their types what each
state has behind it: past Proposed a validation, past Validated a commitment and some
approved request, when complete a check-in, and of an approved request that its decider is
not who asked. Requests are
never withdrawn and no edit clears a validation, so it is inductive although owners,
assignees and dates move. `Refinement` shows that the view changes only as the register's
own model allows, where edits and approvals are stutters and only validation, commitment,
completion and cancellation show. `RLP == INSTANCE RiskLifecycle_proofs` under the same
substitution then gives the register's invariant for the composition, and
`ReleasesRestOnDelivery` follows a released residual through `ReleasesPassGate` and the view
to the real treatment and its approval.

**Threat modelling.** `IInv` joins to the types that end states are earned (`Earned`) and
that active models are signed (`Signed`) and settled (`Settled`). Each needs the others: a
cascade that reopens a scenario keeps an active model settled only because it takes the
model out of Active, which it does for exactly the models with such a scenario; an edit of
a scenario keeps it because TINV-1 is enforced with the scenario, on the model's state.
`FallingBackUnsigns` and `MachineFollowed` classify the steps that move a model.

**Compliance and policies.** Grounded positions are inductive with their types: link edits
revalidate, and cascades only write gaps with a reason. `LossesRevoke` goes through the
three ways an objective leaves operation. Every policy operation writes
one record, so the invariant is `Sound` of each: typed, with the links that owe a
confirmation among its links, `Backed` (a link while in force, past approval an approver
who is senior and not the owner) and `Owed` (the pending count covers the links that owe,
and an active policy counts none). `Kept`, shown of every write beside it, gives
`BodiesInForceAreKept`.

**Exceptions and the night.** The stored count is written by three cascades, each for one
exception of one policy, and the nightly job expires any number of them at once: it matches
the register only because every such step leaves the count it did not touch as exact as it
was, which is the invariant `NightlyInductive`. A night that is rolled back restores both
sides together, so the count survives it; that the expiry does not is the violation above.

**Machines.** Each `...MachineFollowed` is an implementation of `LifecycleEngine` by one
machine (`LibraryMachinesFollowed`: by the three of the library). Requests fire a declared
edge by construction; the content is in the cascades and jobs that assign the column: a
propagated failure moves only an operating objective, a revocation only a covered position,
a reopening only an active model, an expiry only an approved exception.

**Reviews.** The library under reviews implements the library (`LibraryUnderReviews`), so
its invariant holds there. That a repair leaves exactly one open review needs that there
never were two: `Unrivalled` joins it to the types, and `RepairOpensOne` follows both
branches of `open_for`. `CompletionsAreFresh` combines the gate of a completion, which
compares no dates, with `Honest` of the library: a rating in service is uncontradicted.

**The estate.** `EstateRefines` is the refinement of the two dependants' modules by the
composition. `CCP` and `TMP` are instances of their proof modules under the substitution
that computes their view of controls from the library, so what is proved there carries over
once every step of the composition is one of theirs or a stutter (`DependantsSound`). Lemmas follow each
cascade through the view: an objective that fails looks the same from both sides, a failed
deployment either fails an operating objective and with it every sibling's scenarios, or
leaves it as it was, and no unheard step takes a deployment out of service or an objective
out of operation. The steps are read in states that satisfy the invariant of the library
and the reviews (`EstateInductive`). From the invariants together follow facts no module
states alone:
`MitigationsRest` (a mitigated scenario rests on a deployment of the library in service) and
`LossesReachDependants` (one step from a failed control to risks, positions, scenarios and
signatures).

Only model-checked: the liveness properties (`LapsedAcceptanceEscalated`,
`ExpiredEventuallyDowngraded`, `StaleScenariosArePromoted`, `LapseSettlesUnlessRefused`,
`LateReviewsEscalate`), which are out of the prover's reach, as is ENABLED. Every other
property of the passing runs is a theorem.

## 5. Not modelled, and what is left

* Interleavings inside requests under READ COMMITTED: the unlock against the failure
  cascade, two unlinks of a policy, reference allocation. Each action here is one serial
  transaction; `PromotionLost` is the one place where a commit inside a request is split.
* The whole platform as one specification. Register and library (`GovernedRisk`), register
  and treatments (`MitigatedRisk`), library and dependants (`ControlEstate`) and the night
  (`NightlyRun`) are composed separately, around the same modules.
* Who owns a control (CINV-3), asset scope of risks, key-control assurance and custom
  fields. What RINV-3, RINV-10, RINV-15 and SEP-1 read of a risk's people is in the state as
  two flags; roles are constants everywhere else, so that RINV-16 and PINV-10 hold at rest
  shows that no request of these modules breaks them, not that no administrator can.
* The configuration validator, log-in, views, seed data, schema set-up, migrations, the
  front end and repository tooling: no behaviour over time. Audit rows and notifications
  are written and, but for the one date that `contradicted` stands for, never read by a
  gate.
