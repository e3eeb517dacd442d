------------------------ MODULE RiskLifecycle_proofs ------------------------
(***************************************************************************)
(* Proofs about the risk register, for any number of risks, objectives and *)
(* treatments and any acceptance windows.                                  *)
(***************************************************************************)
EXTENDS RiskLifecycle, TLAPS

(* The part of the inductive invariant that speaks of one record.          *)
Sound(x) ==
  /\ x.residual_score_locked => x.residual = NoScore
  /\ ~x.residual_score_locked =>
       x.lifecycle_state \in {"Evidence_Residual", "Monitoring", "Closed"}
  /\ x.lifecycle_state \in {"Monitoring", "Closed"} =>
       x.residual_score_locked \/ x.residual # NoScore
  /\ x.inherent_locked <=> x.lifecycle_state \in PastScoring
  /\ x.inherent_locked => x.inherent # NoScore
  /\ x.treatment_strategy = "Accept" => x.inherent # NoScore

IInv == TypeOK /\ \A r \in Risk : Sound(risk[r])

LEMMA RecordedScoreIsAScore ==
  ASSUME NEW sc \in RecordedScores
  PROVE  sc # NoScore
  BY RiskAssumption DEF RecordedScores, NoScore, Axis

LEMMA LockingIsSound ==
  ASSUME NEW x \in RiskRecord, Sound(x)
  PROVE  /\ LockResidual(x) \in RiskRecord
         /\ Sound(LockResidual(x))
         /\ LockResidual(x).residual_score_locked
         /\ LockResidual(x).residual = NoScore
  BY DEF LockResidual, RiskRecord, Sound

LEMMA FlaggingIsSound ==
  ASSUME NEW x \in RiskRecord, Sound(x), NEW f \in ChangeFlags
  PROVE  /\ [x EXCEPT !.control_change_flag = f] \in RiskRecord
         /\ Sound([x EXCEPT !.control_change_flag = f])
  BY DEF RiskRecord, Sound

LEMMA NewCycleIsSound ==
  ASSUME NEW x \in RiskRecord, Sound(x)
  PROVE  /\ OpenNewCycle(x) \in RiskRecord
         /\ Sound(OpenNewCycle(x))
<1>1. ASSUME NEW y \in RiskRecord, y.residual_score_locked, y.residual = NoScore,
             NEW z,
             z = [y EXCEPT
                    !.lifecycle_state = "Preconditions", !.reassessed = TRUE,
                    !.treatment_strategy = NoStrategy, !.acceptance_expiry_date = NoDate,
                    !.inherent_locked = FALSE, !.gates = {}, !.readout_confirmed = FALSE]
      PROVE  z \in RiskRecord /\ Sound(z)
  <2>1. z \in RiskRecord
    BY <1>1 DEF RiskRecord, RiskStates
  <2>2. Sound(z)
    BY <1>1 DEF RiskRecord, RiskStates, Sound, PastScoring, NoStrategy
  <2> QED
    BY <2>1, <2>2
<1> QED
  BY <1>1, LockingIsSound DEF OpenNewCycle

-----------------------------------------------------------------------------
(* The invariant holds initially and is kept by every action               *)

\* What the rest reads of a record just created.
LEMMA NewRecordsAreBlank ==
  ASSUME NEW x \in NewRecord
  PROVE  /\ x \in RiskRecord
         /\ x.lifecycle_state = "Intake"
         /\ x.inherent = NoScore /\ x.residual = NoScore
         /\ x.residual_score_locked /\ ~x.inherent_locked
         /\ x.treatment_strategy = NoStrategy
         /\ x.acceptance_reassessment_count = 0
<1>1. /\ x.lifecycle_state = "Intake"
      /\ x.inherent = NoScore /\ x.residual = NoScore
      /\ x.residual_score_locked = TRUE /\ x.inherent_locked = FALSE
      /\ x.treatment_strategy = NoStrategy
      /\ x.acceptance_reassessment_count = 0
  BY DEF NewRecord
<1>2. PICK p \in Staffing :
        x = [lifecycle_state               |-> "Intake",
             inherent                      |-> NoScore,
             inherent_locked               |-> FALSE,
             residual                      |-> NoScore,
             residual_score_locked         |-> TRUE,
             treatment_strategy            |-> NoStrategy,
             acceptance_expiry_date        |-> NoDate,
             acceptance_reassessment_count |-> 0,
             readout_confirmed             |-> FALSE,
             gates                         |-> {},
             escalation_flag               |-> FALSE,
             control_change_flag           |-> "None",
             reassessed                    |-> FALSE,
             people                        |-> p]
  BY DEF NewRecord
<1>3. x \in RiskRecord
  BY <1>2 DEF RiskRecord, RiskStates, ChangeFlags
<1> QED
  BY <1>1, <1>3

LEMMA InitIsSound == Init => IInv
<1> SUFFICES ASSUME Init PROVE IInv
  OBVIOUS
<1>1. risk \in [Risk -> RiskRecord]
  BY NewRecordsAreBlank DEF Init
<1>2. /\ clinks \in [Risk -> SUBSET Objective]
      /\ tlinks \in [Risk -> SUBSET Treatment]
      /\ ctl \in [Objective -> ControlView]
      /\ trt \in [Treatment -> TreatmentView]
      /\ today \in 0..MaxDay
  BY RiskAssumption DEF Init, ControlView, ObjectiveStates, NoCE, TreatmentView
<1>3. \A r \in Risk : Sound(risk[r])
  BY NewRecordsAreBlank DEF Init, Sound, PastScoring, NoStrategy
<1> QED
  BY <1>1, <1>2, <1>3 DEF IInv, TypeOK

\* A step that leaves every variable but risk alone keeps the invariant if
\* the records it writes are sound.
LEMMA RecordWrite ==
  ASSUME IInv, UNCHANGED <<clinks, tlinks, ctl, trt, today>>,
         risk' \in [Risk -> RiskRecord], \A r \in Risk : Sound(risk'[r])
  PROVE  IInv'
  BY DEF IInv, TypeOK

LEMMA StoreIsSound ==
  ASSUME IInv, NEW r \in Risk, NEW x \in RiskRecord, Sound(x), Store(r, x)
  PROVE  IInv'
<1>1. risk' = [risk EXCEPT ![r] = x] /\ UNCHANGED <<clinks, tlinks, ctl, trt, today>>
  BY DEF Store
<1>2. risk' \in [Risk -> RiskRecord] /\ \A q \in Risk : Sound(risk'[q])
  BY <1>1 DEF IInv, TypeOK
<1> QED
  BY <1>1, <1>2, RecordWrite

\* A change of standing is a write of one field.
LEMMA StandingWrites ==
  ASSUME risk \in [Risk -> RiskRecord], NEW r \in Risk, StandingChanges(r)
  PROVE  \E p \in Staffing :
           /\ risk' = [risk EXCEPT ![r] = [risk[r] EXCEPT !.people = p]]
           /\ UNCHANGED <<clinks, tlinks, ctl, trt, today>>
<1> DEFINE p == [risk[r].people EXCEPT !.offending = ~@]
<1>1. risk' = [risk EXCEPT ![r] = [risk[r] EXCEPT !.people = p]]
  BY DEF StandingChanges, RiskRecord
<1>2. p \in Staffing
  BY <1>1 DEF StandingChanges, RiskRecord
<1> QED
  BY <1>1, <1>2 DEF StandingChanges

LEMMA TransitionIsSound ==
  ASSUME IInv, NEW r \in Risk, Transition(r)
  PROVE  IInv'
<1> DEFINE x == risk[r]
<1>0. x \in RiskRecord /\ Sound(x)
  BY DEF IInv, TypeOK
<1>1. CASE Admit(r)
  <2>1. /\ [x EXCEPT !.lifecycle_state = "Preconditions"] \in RiskRecord
        /\ Sound([x EXCEPT !.lifecycle_state = "Preconditions"])
    BY <1>0, <1>1 DEF Admit, RiskRecord, RiskStates, Sound, PastScoring
  <2> QED
    BY <1>1, <2>1, StoreIsSound DEF Admit
<1>2. CASE StartScoring(r)
  <2>1. /\ [x EXCEPT !.lifecycle_state = "Scoring"] \in RiskRecord
        /\ Sound([x EXCEPT !.lifecycle_state = "Scoring"])
    BY <1>0, <1>2 DEF StartScoring, RiskRecord, RiskStates, Sound, PastScoring
  <2> QED
    BY <1>2, <2>1, StoreIsSound DEF StartScoring
<1>3. CASE FreezeScore(r)
  <2>1. /\ [x EXCEPT !.lifecycle_state = "Treatment", !.inherent_locked = TRUE] \in RiskRecord
        /\ Sound([x EXCEPT !.lifecycle_state = "Treatment", !.inherent_locked = TRUE])
    BY <1>0, <1>3 DEF FreezeScore, RiskRecord, RiskStates, Sound, PastScoring
  <2> QED
    BY <1>3, <2>1, StoreIsSound DEF FreezeScore
<1>4. CASE QueueForReadout(r)
  <2>1. /\ [x EXCEPT !.lifecycle_state = "Readout"] \in RiskRecord
        /\ Sound([x EXCEPT !.lifecycle_state = "Readout"])
    BY <1>0, <1>4 DEF QueueForReadout, RiskRecord, RiskStates, Sound, PastScoring
  <2> QED
    BY <1>4, <2>1, StoreIsSound DEF QueueForReadout
<1>5. CASE CompleteReadout(r)
  <2>1. /\ [x EXCEPT !.lifecycle_state = "Evidence_Residual"] \in RiskRecord
        /\ Sound([x EXCEPT !.lifecycle_state = "Evidence_Residual"])
    BY <1>0, <1>5 DEF CompleteReadout, RiskRecord, RiskStates, Sound, PastScoring
  <2> QED
    BY <1>5, <2>1, StoreIsSound DEF CompleteReadout
<1>6. CASE StartMonitoring(r)
  <2> DEFINE y == [x EXCEPT !.lifecycle_state = "Monitoring",
                            !.residual_score_locked = FALSE,
                            !.control_change_flag = "None"]
  <2>1. y \in RiskRecord
    BY <1>0 DEF RiskRecord, RiskStates, ChangeFlags
  <2>2. Sound(y)
    BY <1>0, <1>6 DEF StartMonitoring, RiskRecord, Sound, PastScoring
  <2> QED
    BY <1>6, <2>1, <2>2, StoreIsSound DEF StartMonitoring
<1>7. CASE Reassess(r)
  BY <1>0, <1>7, NewCycleIsSound, StoreIsSound DEF Reassess
<1>8. CASE Close(r)
  <2>1. /\ risk' = [risk EXCEPT ![r] = [x EXCEPT !.lifecycle_state = "Closed",
                                                 !.escalation_flag = FALSE]]
        /\ UNCHANGED <<clinks, tlinks, ctl, trt, today>>
        /\ x.lifecycle_state = "Monitoring"
    BY <1>8 DEF Close
  <2>2. /\ [x EXCEPT !.lifecycle_state = "Closed", !.escalation_flag = FALSE] \in RiskRecord
        /\ Sound([x EXCEPT !.lifecycle_state = "Closed", !.escalation_flag = FALSE])
    BY <1>0, <2>1 DEF RiskRecord, RiskStates, Sound, PastScoring
  <2>3. risk' \in [Risk -> RiskRecord] /\ \A q \in Risk : Sound(risk'[q])
    BY <2>1, <2>2 DEF IInv, TypeOK
  <2> QED
    BY <2>1, <2>3, RecordWrite
<1>9. CASE Reopen(r)
  BY <1>0, <1>9, NewCycleIsSound, StoreIsSound DEF Reopen
<1> QED
  BY <1>1, <1>2, <1>3, <1>4, <1>5, <1>6, <1>7, <1>8, <1>9 DEF Transition

LEMMA OperationIsSound ==
  ASSUME IInv, NEW r \in Risk, Operation(r)
  PROVE  IInv'
<1> DEFINE x == risk[r]
<1>0. x \in RiskRecord /\ Sound(x)
  BY DEF IInv, TypeOK
<1>1. ASSUME NEW sc \in RecordedScores, ScoreInherent(r, sc)
      PROVE  IInv'
  <2> DEFINE y == [x EXCEPT !.inherent = sc,
                            !.residual = IF x.residual_score_locked THEN NoScore ELSE @]
  <2>1. y \in RiskRecord
    BY <1>0 DEF RiskRecord
  <2>2. Sound(y)
    BY <1>0, <1>1, RecordedScoreIsAScore DEF ScoreInherent, RiskRecord, Sound, PastScoring
  <2> QED
    BY <1>1, <2>1, <2>2, StoreIsSound DEF ScoreInherent
<1>2. ASSUME NEW sc \in RecordedScores, ScoreResidual(r, sc)
      PROVE  IInv'
  <2>1. [x EXCEPT !.residual = sc] \in RiskRecord
    BY <1>0 DEF RiskRecord
  <2>2. Sound([x EXCEPT !.residual = sc])
    BY <1>0, <1>2, RecordedScoreIsAScore DEF ScoreResidual, RiskRecord, Sound
  <2> QED
    BY <1>2, <2>1, <2>2, StoreIsSound DEF ScoreResidual
<1>3. CASE ReleaseResidualLock(r)
  <2>1. /\ risk' = [risk EXCEPT ![r] = [x EXCEPT !.residual_score_locked = FALSE]]
        /\ UNCHANGED <<clinks, tlinks, ctl, trt, today>>
        /\ x.lifecycle_state = "Evidence_Residual"
    BY <1>3 DEF ReleaseResidualLock
  <2>2. /\ [x EXCEPT !.residual_score_locked = FALSE] \in RiskRecord
        /\ Sound([x EXCEPT !.residual_score_locked = FALSE])
    BY <1>0, <2>1 DEF RiskRecord, Sound
  <2>3. risk' \in [Risk -> RiskRecord] /\ \A q \in Risk : Sound(risk'[q])
    BY <2>1, <2>2 DEF IInv, TypeOK
  <2> QED
    BY <2>1, <2>3, RecordWrite
<1>4. ASSUME NEW s \in Strategies, DecideTreatment(r, s)
      PROVE  IInv'
  <2>1. /\ [x EXCEPT !.treatment_strategy = s] \in RiskRecord
        /\ Sound([x EXCEPT !.treatment_strategy = s])
    BY <1>0, <1>4 DEF DecideTreatment, RiskRecord, Sound
  <2> QED
    BY <1>4, <2>1, StoreIsSound DEF DecideTreatment
<1>5. ASSUME "Accept" \in Strategies, NEW d \in 0..MaxDay, AcceptRisk(r, d)
      PROVE  IInv'
  <2> DEFINE y == [x EXCEPT !.treatment_strategy = "Accept",
                            !.acceptance_expiry_date = d]
  <2>1. x.inherent # NoScore
    BY <1>5 DEF AcceptRisk, RatingOf, Acceptable, Ratings
  <2>2. y \in RiskRecord
    BY <1>0, <1>5 DEF RiskRecord
  <2>3. Sound(y)
    BY <1>0, <2>1 DEF RiskRecord, Sound
  <2>4. Store(r, y)
    BY <1>5 DEF AcceptRisk
  <2> QED
    BY <2>2, <2>3, <2>4, StoreIsSound
<1>6. ASSUME NEW g \in SUBSET GateFlags, NEW c \in BOOLEAN, NEW e \in BOOLEAN,
             NEW p \in Staffing, UpdateRisk(r, g, c, e, p)
      PROVE  IInv'
  <2> DEFINE y == [x EXCEPT !.gates = g, !.readout_confirmed = c, !.escalation_flag = e,
                            !.people = p]
  <2>1. y \in RiskRecord /\ Sound(y)
    BY <1>0 DEF RiskRecord, Sound
  <2> QED
    BY <1>6, <2>1, StoreIsSound DEF UpdateRisk
<1>7. ASSUME NEW o \in Objective, LinkControl(r, o) \/ UnlinkControl(r, o)
      PROVE  IInv'
  BY <1>7 DEF LinkControl, UnlinkControl, IInv, TypeOK
<1>8. ASSUME NEW t \in Treatment, LinkTreatment(r, t)
      PROVE  IInv'
  BY <1>8 DEF LinkTreatment, IInv, TypeOK
<1>9. CASE ElsewhereFlagged(r)
  <2>1. /\ risk' = [risk EXCEPT ![r] = [x EXCEPT !.control_change_flag = "Control_Improved"]]
        /\ UNCHANGED <<clinks, tlinks, ctl, trt, today>>
    BY <1>9 DEF ElsewhereFlagged, Improved, Flagged, IInv, TypeOK
  <2>2. risk' \in [Risk -> RiskRecord] /\ \A q \in Risk : Sound(risk'[q])
    BY <1>0, <2>1, FlaggingIsSound DEF IInv, TypeOK, ChangeFlags
  <2> QED
    BY <2>1, <2>2, RecordWrite
<1>10. CASE StandingChanges(r)
  <2> PICK p \in Staffing :
        /\ risk' = [risk EXCEPT ![r] = [x EXCEPT !.people = p]]
        /\ UNCHANGED <<clinks, tlinks, ctl, trt, today>>
    BY <1>10, StandingWrites DEF IInv, TypeOK
  <2>1. [x EXCEPT !.people = p] \in RiskRecord /\ Sound([x EXCEPT !.people = p])
    BY <1>0 DEF RiskRecord, Sound
  <2>2. risk' \in [Risk -> RiskRecord] /\ \A q \in Risk : Sound(risk'[q])
    BY <2>1 DEF IInv, TypeOK
  <2> QED
    BY <2>2, RecordWrite
<1> QED
  BY <1>1, <1>2, <1>3, <1>4, <1>5, <1>6, <1>7, <1>8, <1>9, <1>10 DEF Operation, AcceptanceDates

-----------------------------------------------------------------------------
(* Steps of the other modules, and time                                    *)

\* What the cascades of the control module do to one record keeps it sound.
LEMMA CascadesAreSound ==
  ASSUME NEW x \in RiskRecord, Sound(x)
  PROVE  /\ Frozen(x) \in RiskRecord /\ Sound(Frozen(x))
         /\ Degraded(x) \in RiskRecord /\ Sound(Degraded(x))
         /\ Improved(x) \in RiskRecord /\ Sound(Improved(x))
         /\ Recovering(x) \in RiskRecord /\ Sound(Recovering(x))
         /\ Flagged("Control_Changed", x) \in RiskRecord
         /\ Sound(Flagged("Control_Changed", x))
<1>1. \A f \in ChangeFlags : \A y \in RiskRecord : Sound(y) =>
         /\ [y EXCEPT !.control_change_flag = f] \in RiskRecord
         /\ Sound([y EXCEPT !.control_change_flag = f])
  BY FlaggingIsSound
<1>2. LockResidual(x) \in RiskRecord /\ Sound(LockResidual(x))
  BY LockingIsSound
<1>3. "Control_Failure" \in ChangeFlags /\ "Control_Changed" \in ChangeFlags
      /\ "Control_Improved" \in ChangeFlags
  BY DEF ChangeFlags
<1> QED
  BY <1>1, <1>2, <1>3 DEF Frozen, Degraded, Improved, Recovering, Flagged

\* An objective's new view is well typed when its ceiling is evidenced.
LEMMA ObjectiveMovesIsTyped ==
  ASSUME IInv, NEW o \in Objective, NEW s \in ObjectiveStates,
         NEW c \in Ceilings \cup {NoCE}, NEW a \in BOOLEAN,
         ObjectiveMoves(o, s, c, a),
         risk' \in [Risk -> RiskRecord], \A r \in Risk : Sound(risk'[r])
  PROVE  IInv'
<1>1. [lifecycle_state |-> s, ceiling |-> c, assessed |-> a] \in ControlView
  BY DEF ObjectiveMoves, ControlView
<1>2. ctl' \in [Objective -> ControlView]
  BY <1>1 DEF ObjectiveMoves, IInv, TypeOK
<1> QED
  BY <1>2 DEF ObjectiveMoves, IInv, TypeOK

LEMMA ControlStepIsSound ==
  ASSUME IInv, NEW o \in Objective, ControlStep(o)
  PROVE  IInv'
<1> DEFINE SoundRisks == risk' \in [Risk -> RiskRecord] /\ \A r \in Risk : Sound(risk'[r])
<1>0. /\ \A r \in Risk : risk[r] \in RiskRecord /\ Sound(risk[r])
      /\ risk \in [Risk -> RiskRecord]
      /\ ctl[o].lifecycle_state \in ObjectiveStates
      /\ ctl[o].ceiling \in Ceilings \cup {NoCE}
      /\ ctl[o].assessed \in BOOLEAN
  BY DEF IInv, TypeOK, ControlView
<1>1. ASSUME NEW c \in Ceilings \cup {NoCE}, NEW a \in BOOLEAN, ControlFailed(o, c, a)
      PROVE  IInv'
  <2>1. SoundRisks
    BY <1>0, <1>1, CascadesAreSound DEF ControlFailed, Cascade
  <2> QED
    BY <1>1, <2>1, ObjectiveMovesIsTyped DEF ControlFailed, ObjectiveStates
<1>2. ASSUME NEW c \in Ceilings \cup {NoCE}, NEW a \in BOOLEAN, DeploymentDegraded(o, c, a)
      PROVE  IInv'
  <2>1. SoundRisks
    BY <1>0, <1>2, CascadesAreSound DEF DeploymentDegraded, Cascade
  <2> QED
    BY <1>0, <1>2, <2>1, ObjectiveMovesIsTyped DEF DeploymentDegraded
<1>3. ASSUME NEW c \in Ceilings \cup {NoCE}, NEW a \in BOOLEAN, ControlDrifts(o, c, a)
      PROVE  IInv'
  <2>1. SoundRisks
    BY <1>0, <1>3 DEF ControlDrifts
  <2> QED
    BY <1>0, <1>3, <2>1, ObjectiveMovesIsTyped DEF ControlDrifts
<1>4. ASSUME NEW c \in Ceilings \cup {NoCE}, ControlOperating(o, c)
      PROVE  IInv'
  <2>1. SoundRisks
    BY <1>0, <1>4, CascadesAreSound DEF ControlOperating, Cascade
  <2> QED
    BY <1>4, <2>1, ObjectiveMovesIsTyped DEF ControlOperating, ObjectiveStates
<1>5. ASSUME NEW c \in Ceilings \cup {NoCE}, ControlRecovered(o, c)
      PROVE  IInv'
  <2>1. SoundRisks
    BY <1>0, <1>5, CascadesAreSound DEF ControlRecovered, Cascade
  <2> QED
    BY <1>5, <2>1, ObjectiveMovesIsTyped DEF ControlRecovered, ObjectiveStates
<1>6. ASSUME NEW c \in Ceilings \cup {NoCE}, DeploymentRestored(o, c)
      PROVE  IInv'
  <2>1. SoundRisks
    BY <1>0, <1>6, CascadesAreSound DEF DeploymentRestored, Cascade
  <2> QED
    BY <1>0, <1>6, <2>1, ObjectiveMovesIsTyped DEF DeploymentRestored
<1>7. CASE ControlRedesigned(o)
  <2>1. SoundRisks
    BY <1>0, <1>7 DEF ControlRedesigned
  <2> QED
    BY <1>0, <1>7, <2>1, ObjectiveMovesIsTyped DEF ControlRedesigned, ObjectiveStates
<1>8. CASE ControlDeprecated(o)
  <2>1. SoundRisks
    BY <1>0, <1>8, CascadesAreSound DEF ControlDeprecated, Cascade
  <2> QED
    BY <1>0, <1>8, <2>1, ObjectiveMovesIsTyped DEF ControlDeprecated, ObjectiveStates
<1> QED
  BY <1>1, <1>2, <1>3, <1>4, <1>5, <1>6, <1>7, <1>8 DEF ControlStep

LEMMA TreatmentStepIsSound ==
  ASSUME IInv, NEW t \in Treatment, TreatmentStep(t)
  PROVE  IInv'
<1>1. CASE ValidateTreatment(t) \/ CommitTreatment(t) \/ CompleteTreatment(t)
  <2>1. trt' \in [Treatment -> TreatmentView]
    BY <1>1 DEF ValidateTreatment, CommitTreatment, CompleteTreatment, IInv, TypeOK,
                TreatmentView
  <2> QED
    BY <1>1, <2>1 DEF ValidateTreatment, CommitTreatment, CompleteTreatment, IInv, TypeOK
<1>2. CASE CancelTreatment(t)
  <2>1. trt' \in [Treatment -> TreatmentView]
    BY <1>2 DEF CancelTreatment, IInv, TypeOK, TreatmentView
  <2>2. risk' \in [Risk -> RiskRecord] /\ \A r \in Risk : Sound(risk'[r])
    BY <1>2, LockingIsSound DEF CancelTreatment, IInv, TypeOK
  <2> QED
    BY <1>2, <2>1, <2>2 DEF CancelTreatment, IInv, TypeOK
<1> QED
  BY <1>1, <1>2 DEF TreatmentStep

LEMMA EscalationIsSound ==
  ASSUME NEW x \in RiskRecord, Sound(x)
  PROVE  EscalateAcceptance(x) \in RiskRecord /\ Sound(EscalateAcceptance(x))
<1>1. ASSUME NEW y \in RiskRecord, Sound(y), NEW z,
             z = [y EXCEPT !.escalation_flag = TRUE,
                           !.acceptance_reassessment_count = @ + 1]
      PROVE  z \in RiskRecord /\ Sound(z)
  <2>1. PICK n \in Nat : n = y.acceptance_reassessment_count + 1
    BY <1>1 DEF RiskRecord
  <2>2. z = [y EXCEPT !.escalation_flag = TRUE, !.acceptance_reassessment_count = n]
    BY <1>1, <2>1
  <2> QED
    BY <1>1, <2>2 DEF RiskRecord, Sound
<1> QED
  BY <1>1, LockingIsSound DEF EscalateAcceptance

LEMMA JobsIsSound ==
  ASSUME IInv, Jobs
  PROVE  IInv'
<1> PICK expired \in SUBSET Objective, escalated \in SUBSET Objective :
      \E u \in SUBSET expired : RunJobs(expired, u, escalated)
  BY DEF Jobs
<1> PICK unassessed \in SUBSET expired : RunJobs(expired, unassessed, escalated)
  OBVIOUS
<1> DEFINE Due(r) == IF Reached(r, expired) THEN Degraded(risk[r]) ELSE risk[r]
           Done(r) == [EscalateAcceptance(Due(r)) EXCEPT
                         !.escalation_flag = @ \/ clinks[r] \cap escalated # {}]
<1>1. risk' = [r \in Risk |-> Done(r)] /\ UNCHANGED <<clinks, tlinks, trt, today>>
  BY DEF RunJobs
<1>2. \A r \in Risk : Due(r) \in RiskRecord /\ Sound(Due(r))
  BY CascadesAreSound DEF IInv, TypeOK
<1>3. \A r \in Risk : Done(r) \in RiskRecord /\ Sound(Done(r))
  <2>1. ASSUME NEW x \in RiskRecord, Sound(x), NEW B \in BOOLEAN
        PROVE  /\ [x EXCEPT !.escalation_flag = @ \/ B] \in RiskRecord
               /\ Sound([x EXCEPT !.escalation_flag = @ \/ B])
    BY <2>1 DEF RiskRecord, Sound
  <2> QED
    BY <1>2, <2>1, EscalationIsSound
<1>4. ctl' \in [Objective -> ControlView]
  <2>1. ASSUME NEW o \in Objective, o \in unassessed
        PROVE  [ctl[o] EXCEPT !.assessed = FALSE] \in ControlView
    <3>1. ctl[o] \in ControlView /\ ctl[o].ceiling <= 0
      BY <2>1 DEF RunJobs, IInv, TypeOK
    <3>2. ctl[o].ceiling \in Ceilings \cup {NoCE}
      BY <3>1 DEF ControlView
    <3>3. ~(ctl[o].ceiling > 0)
      <4>1. Ceilings \cup {NoCE} \subseteq Int
        BY RiskAssumption DEF CEReductions, NoCE
      <4>2. \A n \in Int : n <= 0 => ~(n > 0)
        OBVIOUS
      <4> QED
        BY <3>1, <3>2, <4>1, <4>2
    <3> DEFINE v == [ctl[o] EXCEPT !.assessed = FALSE]
    <3>4. v \in [lifecycle_state : ObjectiveStates, ceiling : Ceilings \cup {NoCE},
                 assessed : BOOLEAN]
      BY <3>1 DEF ControlView
    <3>5. v.ceiling = ctl[o].ceiling
      BY <3>1 DEF ControlView
    <3>6. v.ceiling > 0 => v.assessed
      BY <3>3, <3>5
    <3> HIDE DEF v
    <3>7. v \in ControlView
      BY <3>4, <3>6 DEF ControlView
    <3> QED
      BY <3>7 DEF v
  <2> QED
    BY <2>1 DEF RunJobs, IInv, TypeOK
<1> QED
  BY <1>1, <1>3, <1>4 DEF IInv, TypeOK

\* Evidence that runs out moves the ceilings of assessed objectives only.
LEMMA TickIsSound == IInv /\ Tick => IInv'
<1> SUFFICES ASSUME IInv, Tick PROVE IInv'
  OBVIOUS
<1> PICK c \in [Objective -> Ceilings \cup {NoCE}] :
      /\ \A o \in Objective : c[o] > 0 => ctl[o].assessed
      /\ ctl' = [o \in Objective |-> [ctl[o] EXCEPT !.ceiling = c[o]]]
  BY DEF Tick
<1>1. ASSUME NEW o \in Objective
      PROVE  [ctl[o] EXCEPT !.ceiling = c[o]] \in ControlView
  <2> DEFINE v == [ctl[o] EXCEPT !.ceiling = c[o]]
  <2>1. ctl[o] \in ControlView
    BY DEF IInv, TypeOK
  <2>2. v \in [lifecycle_state : ObjectiveStates, ceiling : Ceilings \cup {NoCE},
               assessed : BOOLEAN]
    BY <2>1 DEF ControlView
  <2>3. v.ceiling = c[o] /\ v.assessed = ctl[o].assessed
    BY <2>1 DEF ControlView
  <2>4. v.ceiling > 0 => v.assessed
    BY <2>3
  <2> HIDE DEF v
  <2>5. v \in ControlView
    BY <2>2, <2>4 DEF ControlView
  <2> QED
    BY <2>5 DEF v
<1>2. ctl' \in [Objective -> ControlView]
  BY <1>1
<1>3. today' \in 0..MaxDay /\ UNCHANGED <<risk, clinks, tlinks, trt>>
  BY RiskAssumption DEF Tick, IInv, TypeOK
<1> QED
  BY <1>2, <1>3 DEF IInv, TypeOK

THEOREM Induction == IInv /\ [Next]_vars => IInv'
<1> SUFFICES ASSUME IInv, [Next]_vars PROVE IInv'
  OBVIOUS
<1>1. ASSUME NEW r \in Risk, Transition(r) \/ Operation(r)
      PROVE  IInv'
  BY <1>1, TransitionIsSound, OperationIsSound
<1>2. ASSUME NEW o \in Objective, ControlStep(o)
      PROVE  IInv'
  BY <1>2, ControlStepIsSound
<1>3. ASSUME NEW t \in Treatment, TreatmentStep(t)
      PROVE  IInv'
  BY <1>3, TreatmentStepIsSound
<1>4. CASE Tick
  BY <1>4, TickIsSound
<1>5. CASE Jobs
  BY <1>5, JobsIsSound
<1>6. CASE UNCHANGED vars
  BY <1>6 DEF vars, IInv, TypeOK
<1> QED
  BY <1>1, <1>2, <1>3, <1>4, <1>5, <1>6 DEF Next

THEOREM Inductive == Spec => []IInv
<1>1. Init => IInv
  BY InitIsSound
<1>2. IInv /\ [Next]_vars => IInv'
  BY Induction
<1> QED
  BY <1>1, <1>2, PTL DEF Spec

-----------------------------------------------------------------------------
(* What the invariant says at rest                                         *)

\* The register keeps its types under every operation, cascade and job.
THEOREM Typing == Spec => []TypeOK
<1>1. IInv => TypeOK
  BY DEF IInv
<1> QED
  BY <1>1, Inductive, PTL

\* RES-6: a locked record carries no residual score.
THEOREM LockDiscardsResidual == Spec => []LockedMeansNoResidual
<1>1. IInv => LockedMeansNoResidual
  BY DEF IInv, Sound, LockedMeansNoResidual
<1> QED
  BY <1>1, Inductive, PTL

\* OUT-1: the residual lock is off only past the gate of this cycle.
THEOREM UnlockNeedsGate == Spec => []UnlockedOnlyAfterGate
<1>1. IInv => UnlockedOnlyAfterGate
  BY DEF IInv, Sound, UnlockedOnlyAfterGate
<1> QED
  BY <1>1, Inductive, PTL

\* A monitored risk has a validated residual or is locked.
THEOREM MonitoredRisksReport == Spec => []MonitoredIsScoredOrLocked
<1>1. IInv => MonitoredIsScoredOrLocked
  BY DEF IInv, Sound, MonitoredIsScoredOrLocked
<1> QED
  BY <1>1, Inductive, PTL

\* OUT-5: the freeze of the inherent score follows the phase.
THEOREM FreezeFollowsPhase == Spec => []FrozenPastScoring
<1>1. IInv => FrozenPastScoring
  BY DEF IInv, Sound, FrozenPastScoring
<1> QED
  BY <1>1, Inductive, PTL

\* Score, lock, freeze and phase agree in every reachable register: the
\* four parts above, which risk_residual checks as one.
THEOREM ResidualsAreGated == Spec => []ResidualIsGated
<1>1. LockedMeansNoResidual /\ UnlockedOnlyAfterGate
      /\ MonitoredIsScoredOrLocked /\ FrozenPastScoring => ResidualIsGated
  BY DEF ResidualIsGated
<1> QED
  BY <1>1, LockDiscardsResidual, UnlockNeedsGate, MonitoredRisksReport,
     FreezeFollowsPhase, PTL

\* Only the people named can make an enforced invariant refuse the new cycle
\* of a record that is sound.
LEMMA NewCycleIsEnforced ==
  ASSUME NEW x \in RiskRecord, NEW cl, NEW tl, Sound(x), ~x.people.offending
  PROVE  Enforced(OpenNewCycle(x), cl, tl)
<1> DEFINE y == OpenNewCycle(x)
<1>1. /\ y.residual = NoScore
      /\ y.lifecycle_state = "Preconditions"
      /\ y.reassessed
      /\ y.treatment_strategy = NoStrategy
  BY LockingIsSound DEF OpenNewCycle, RiskRecord
<1>2. ~Accepted(y) /\ Phase(y) = 2
  BY <1>1 DEF Accepted, NoStrategy, Phase, PhaseNumber
<1>3. NobodyOffends(y)
  BY DEF NobodyOffends, OpenNewCycle, LockResidual, RiskRecord
<1> HIDE DEF y
<1>4. RINV1(y) /\ RINV8(y) /\ RINV9(y, cl)
  BY <1>1 DEF RINV1, RINV8, RINV9
<1>5. RINV4(y) /\ RINV5(y) /\ RINV11(y)
  BY <1>2 DEF RINV4, RINV5, RINV11, Lapsed
<1>6. RINV6(y) /\ RINV10(y) /\ RINV12(y, tl)
  BY <1>2 DEF RINV6, RINV10, RINV12
<1> QED
  BY <1>3, <1>4, <1>5, <1>6 DEF Enforced, y

\* Re-assessment and reopening are refused by an enforced invariant only for
\* the people the record names.
THEOREM NewCycleNeedsPeopleInOrder == Spec => []NewCycleRefusedOnlyForPeople
<1>1. IInv => NewCycleRefusedOnlyForPeople
  BY NewCycleIsEnforced DEF IInv, TypeOK, NewCycleRefusedOnlyForPeople
<1> QED
  BY <1>1, Inductive, PTL

-----------------------------------------------------------------------------
(* Rules enforced on writes, at rest.  A step either leaves a record's      *)
(* decision alone, and keeps or discards its residual, or writes the record *)
(* through the enforced invariants with nothing else moving.                *)

Kept(x, y) ==
  /\ y.lifecycle_state = x.lifecycle_state
  /\ y.inherent = x.inherent
  /\ y.residual \in {x.residual, NoScore}
  /\ y.treatment_strategy = x.treatment_strategy
  /\ y.acceptance_expiry_date = x.acceptance_expiry_date
  /\ y.readout_confirmed = x.readout_confirmed

\* The phase stays or moves along an edge of the machine.
Phased(x, y) == RiskEngine!Moves(x.lifecycle_state, y.lifecycle_state)

Written(r, x, y) ==
  /\ RINV4(y) /\ RINV5(y) /\ RINV6(y) /\ RINV9(y, clinks[r]) /\ RINV12(y, tlinks[r])
  /\ y.inherent # x.inherent =>
       x.lifecycle_state = "Scoring" /\ y.residual \in {x.residual, NoScore}
  /\ Phased(x, y)
  /\ UNCHANGED <<clinks, tlinks, ctl, trt, today>>

\* Links and treatment flags a record relied on stay while it is kept.
Monotone(r) ==
  /\ tlinks[r] \subseteq tlinks'[r]
  /\ \A t \in Treatment :
       /\ trt[t].grc_eng_validated => trt'[t].grc_eng_validated
       /\ trt[t].owner_committed => trt'[t].owner_committed
  /\ today' \in {today, today + 1}

Stepped(r) ==
  \/ Kept(risk[r], risk'[r]) /\ Monotone(r)
  \/ Written(r, risk[r], risk'[r])

LEMMA StoreSteps ==
  ASSUME IInv, NEW q \in Risk, NEW r \in Risk, NEW y, Store(q, y),
         y.inherent # risk[q].inherent =>
           risk[q].lifecycle_state = "Scoring" /\ y.residual \in {risk[q].residual, NoScore},
         Phased(risk[q], y)
  PROVE  Stepped(r)
<1>1. CASE q = r
  <2>1. risk'[r] = y
    BY <1>1 DEF Store, IInv, TypeOK
  <2>2. Written(r, risk[r], y)
    BY <1>1 DEF Store, Enforced, Written
  <2> QED
    BY <2>1, <2>2 DEF Stepped
<1>2. CASE q # r
  <2>1. risk'[r] = risk[r]
    BY <1>2 DEF Store, IInv, TypeOK
  <2> QED
    BY <2>1 DEF Store, Stepped, Kept, Monotone
<1> QED
  BY <1>1, <1>2

\* Locking and flagging keep a record's decision.
LEMMA CascadesKeep ==
  ASSUME NEW x \in RiskRecord
  PROVE  /\ Kept(x, x)
         /\ Kept(x, LockResidual(x))
         /\ Kept(x, Frozen(x))
         /\ Kept(x, Degraded(x))
         /\ Kept(x, Improved(x))
         /\ Kept(x, Recovering(x))
         /\ Kept(x, Flagged("Control_Changed", x))
         /\ Kept(x, EscalateAcceptance(x))
<1>1. Kept(x, x)
  BY DEF Kept
<1>2. Kept(x, LockResidual(x)) /\ LockResidual(x) \in RiskRecord
  BY DEF Kept, LockResidual, RiskRecord
<1>3. ASSUME NEW y \in RiskRecord, NEW f
      PROVE  Kept(x, y) => Kept(x, [y EXCEPT !.control_change_flag = f])
  BY DEF Kept, RiskRecord
<1>4. ASSUME NEW y \in RiskRecord
      PROVE  Kept(x, y) => Kept(x, [y EXCEPT !.escalation_flag = TRUE,
                                             !.acceptance_reassessment_count = @ + 1])
  BY DEF Kept, RiskRecord
<1> QED
  BY <1>1, <1>2, <1>3, <1>4 DEF Frozen, Degraded, Improved, Recovering, Flagged,
                                EscalateAcceptance

LEMMA TransitionSteps ==
  ASSUME IInv, NEW q \in Risk, Transition(q), NEW r \in Risk
  PROVE  Stepped(r)
<1> DEFINE x == risk[q]
<1>0. x \in RiskRecord
  BY DEF IInv, TypeOK
<1>1. CASE Admit(q) \/ StartScoring(q) \/ FreezeScore(q) \/ QueueForReadout(q)
           \/ CompleteReadout(q) \/ StartMonitoring(q)
  <2> USE DEF Phased, RiskEngine!Moves, RiskEngine!Lookup, RiskStates
  <2>1. ASSUME NEW y, Store(q, y), y.inherent = x.inherent, Phased(x, y)
        PROVE  Stepped(r)
    BY <2>1, StoreSteps
  <2>2. CASE Admit(q)
    BY <1>0, <2>1, <2>2 DEF Admit, RiskRecord
  <2>3. CASE StartScoring(q)
    BY <1>0, <2>1, <2>3 DEF StartScoring, RiskRecord
  <2>4. CASE FreezeScore(q)
    BY <1>0, <2>1, <2>4 DEF FreezeScore, RiskRecord
  <2>5. CASE QueueForReadout(q)
    BY <1>0, <2>1, <2>5 DEF QueueForReadout, RiskRecord
  <2>6. CASE CompleteReadout(q)
    BY <1>0, <2>1, <2>6 DEF CompleteReadout, RiskRecord
  <2>7. CASE StartMonitoring(q)
    BY <1>0, <2>1, <2>7 DEF StartMonitoring, RiskRecord
  <2> QED
    BY <1>1, <2>2, <2>3, <2>4, <2>5, <2>6, <2>7
<1>2. CASE Reassess(q) \/ Reopen(q)
  <2>1. /\ OpenNewCycle(x).inherent = x.inherent
        /\ OpenNewCycle(x).lifecycle_state = "Preconditions"
    BY <1>0 DEF OpenNewCycle, LockResidual, RiskRecord
  <2>2. Phased(x, OpenNewCycle(x))
    BY <1>2, <2>1 DEF Reassess, Reopen, Phased, RiskEngine!Moves, RiskEngine!Lookup, RiskStates
  <2> QED
    BY <1>2, <2>1, <2>2, StoreSteps DEF Reassess, Reopen
<1>3. CASE Close(q)
  <2> DEFINE y == [x EXCEPT !.lifecycle_state = "Closed"]
             z == [x EXCEPT !.lifecycle_state = "Closed", !.escalation_flag = FALSE]
  <2>1. Enforced(y, clinks[q], tlinks[q]) /\ UNCHANGED <<clinks, tlinks, ctl, trt, today>>
    BY <1>3 DEF Close
  <2>2. risk' = [risk EXCEPT ![q] = z]
    BY <1>3 DEF Close
  <2>3. /\ z.inherent = y.inherent /\ z.residual = y.residual
        /\ z.lifecycle_state = y.lifecycle_state
        /\ z.treatment_strategy = y.treatment_strategy
        /\ z.acceptance_expiry_date = y.acceptance_expiry_date
        /\ z.readout_confirmed = y.readout_confirmed
        /\ z.inherent = x.inherent
        /\ z.lifecycle_state = "Closed"
    BY <1>0 DEF RiskRecord
  <2> HIDE DEF y, z
  <2>7. Phased(x, z)
    BY <1>3, <2>3 DEF Close, Phased, RiskEngine!Moves, RiskEngine!Lookup, RiskStates
  <2>4. Written(q, x, z)
    BY <2>1, <2>3, <2>7 DEF Written, Enforced, RINV4, RINV5, RINV6, RINV9, RINV12, Accepted,
                            Phase
  <2>5. CASE q = r
    <3>1. risk'[r] = z
      BY <2>2, <2>5 DEF IInv, TypeOK
    <3> QED
      BY <2>4, <2>5, <3>1 DEF Stepped
  <2>6. CASE q # r
    BY <2>1, <2>2, <2>6 DEF IInv, TypeOK, Stepped, Kept, Monotone
  <2> QED
    BY <2>5, <2>6
<1> QED
  BY <1>1, <1>2, <1>3 DEF Transition

LEMMA OperationSteps ==
  ASSUME IInv, NEW q \in Risk, Operation(q), NEW r \in Risk
  PROVE  Stepped(r)
<1> DEFINE x == risk[q]
<1>0. /\ x \in RiskRecord /\ Sound(x)
      /\ risk \in [Risk -> RiskRecord] /\ tlinks \in [Risk -> SUBSET Treatment]
      /\ Kept(risk[r], risk[r])
  BY DEF IInv, TypeOK, Kept
<1>1. ASSUME NEW sc \in RecordedScores, ScoreInherent(q, sc)
      PROVE  Stepped(r)
  <2>1. x.lifecycle_state = "Scoring"
    BY <1>0, <1>1 DEF ScoreInherent, Sound, PastScoring, Phase, PhaseNumber, RiskRecord,
                      RiskStates
  <2> DEFINE y == [x EXCEPT !.inherent = sc,
                            !.residual = IF x.residual_score_locked THEN NoScore ELSE @]
  <2>2. Store(q, y)
    BY <1>1 DEF ScoreInherent
  <2>3. y.residual \in {x.residual, NoScore} /\ y.lifecycle_state = x.lifecycle_state
    BY <1>0 DEF RiskRecord
  <2> HIDE DEF y
  <2>4. Phased(x, y)
    BY <2>3 DEF Phased, RiskEngine!Moves
  <2> QED
    BY <2>1, <2>2, <2>3, <2>4, StoreSteps
\* The other operations leave the phase and the inherent score alone.
<1>2. ASSUME NEW y, Store(q, y), y.inherent = x.inherent,
             y.lifecycle_state = x.lifecycle_state
      PROVE  Stepped(r)
  BY <1>2, StoreSteps DEF Phased, RiskEngine!Moves
<1>3. ASSUME NEW sc \in RecordedScores, ScoreResidual(q, sc)
      PROVE  Stepped(r)
  BY <1>0, <1>2, <1>3 DEF ScoreResidual, RiskRecord
<1>4. CASE ReleaseResidualLock(q)
  <2>1. Kept(x, [x EXCEPT !.residual_score_locked = FALSE])
    BY <1>0 DEF Kept, RiskRecord
  <2>2. /\ risk' = [risk EXCEPT ![q] = [x EXCEPT !.residual_score_locked = FALSE]]
        /\ UNCHANGED <<clinks, tlinks, ctl, trt, today>>
    BY <1>4 DEF ReleaseResidualLock
  <2> QED
    BY <1>0, <2>1, <2>2 DEF Stepped, Monotone
<1>5. ASSUME NEW s \in Strategies, DecideTreatment(q, s)
      PROVE  Stepped(r)
  BY <1>0, <1>2, <1>5 DEF DecideTreatment, RiskRecord
<1>6. ASSUME NEW d \in 0..MaxDay, AcceptRisk(q, d)
      PROVE  Stepped(r)
  <2> DEFINE y == [x EXCEPT !.treatment_strategy = "Accept", !.acceptance_expiry_date = d]
  <2>1. Store(q, y) /\ y.inherent = x.inherent /\ y.lifecycle_state = x.lifecycle_state
    BY <1>0, <1>6 DEF AcceptRisk, RiskRecord
  <2> QED
    BY <1>2, <2>1
<1>7. ASSUME NEW g \in SUBSET GateFlags, NEW c \in BOOLEAN, NEW e \in BOOLEAN,
             NEW p \in Staffing, UpdateRisk(q, g, c, e, p)
      PROVE  Stepped(r)
  BY <1>0, <1>2, <1>7 DEF UpdateRisk, RiskRecord
<1>8. ASSUME NEW o \in Objective, LinkControl(q, o) \/ UnlinkControl(q, o)
      PROVE  Stepped(r)
  BY <1>0, <1>8 DEF LinkControl, UnlinkControl, Stepped, Monotone
<1>9. ASSUME NEW t \in Treatment, LinkTreatment(q, t)
      PROVE  Stepped(r)
  <2>1. tlinks[r] \subseteq tlinks'[r]
    BY <1>0, <1>9 DEF LinkTreatment
  <2> QED
    BY <1>0, <1>9, <2>1 DEF LinkTreatment, Stepped, Monotone
<1>10. CASE ElsewhereFlagged(q)
  <2>1. risk' = [risk EXCEPT ![q] = Improved(x)] /\ UNCHANGED <<clinks, tlinks, ctl, trt, today>>
    BY <1>10 DEF ElsewhereFlagged
  <2> QED
    BY <1>0, <2>1, CascadesKeep DEF Stepped, Monotone
<1>11. CASE StandingChanges(q)
  <2> PICK p \in Staffing :
        /\ risk' = [risk EXCEPT ![q] = [x EXCEPT !.people = p]]
        /\ UNCHANGED <<clinks, tlinks, ctl, trt, today>>
    BY <1>0, <1>11, StandingWrites
  <2>1. Kept(x, [x EXCEPT !.people = p])
    BY <1>0 DEF Kept, RiskRecord
  <2> QED
    BY <1>0, <2>1 DEF Stepped, Monotone
<1> QED
  BY <1>1, <1>3, <1>4, <1>5, <1>6, <1>7, <1>8, <1>9, <1>10, <1>11 DEF Operation, AcceptanceDates

LEMMA ControlSteps ==
  ASSUME IInv, NEW o \in Objective, ControlStep(o), NEW r \in Risk
  PROVE  Stepped(r)
<1>1. UNCHANGED <<clinks, tlinks, trt, today>>
  BY DEF ControlStep, ControlOperating, ControlFailed, ControlRecovered, ControlRedesigned,
         ControlDeprecated, DeploymentDegraded, DeploymentRestored, ControlDrifts,
         ObjectiveMoves
<1>2. /\ Kept(risk[r], risk[r])
      /\ Kept(risk[r], Frozen(risk[r])) /\ Kept(risk[r], Degraded(risk[r]))
      /\ Kept(risk[r], Improved(risk[r])) /\ Kept(risk[r], Recovering(risk[r]))
      /\ Kept(risk[r], Flagged("Control_Changed", risk[r]))
  BY CascadesKeep DEF IInv, TypeOK
<1>3. Kept(risk[r], risk'[r])
  BY <1>2 DEF ControlStep, ControlOperating, ControlFailed, ControlRecovered,
              ControlRedesigned, ControlDeprecated, DeploymentDegraded,
              DeploymentRestored, ControlDrifts, Cascade
<1> QED
  BY <1>1, <1>3 DEF Stepped, Monotone

LEMMA TreatmentSteps ==
  ASSUME IInv, NEW t \in Treatment, TreatmentStep(t), NEW r \in Risk
  PROVE  Stepped(r)
<1>0. trt \in [Treatment -> TreatmentView] /\ risk[r] \in RiskRecord
  BY DEF IInv, TypeOK
<1>1. Kept(risk[r], risk'[r])
  BY <1>0, CascadesKeep DEF TreatmentStep, ValidateTreatment, CommitTreatment,
                            CompleteTreatment, CancelTreatment
<1>2. \A u \in Treatment :
        /\ trt[u].grc_eng_validated => trt'[u].grc_eng_validated
        /\ trt[u].owner_committed => trt'[u].owner_committed
  BY <1>0 DEF TreatmentStep, ValidateTreatment, CommitTreatment, CompleteTreatment,
              CancelTreatment, TreatmentView
<1>3. UNCHANGED <<tlinks, today>>
  BY DEF TreatmentStep, ValidateTreatment, CommitTreatment, CompleteTreatment,
         CancelTreatment
<1> QED
  BY <1>1, <1>2, <1>3 DEF Stepped, Monotone

LEMMA JobSteps ==
  ASSUME IInv, Jobs, NEW r \in Risk
  PROVE  Stepped(r)
<1> PICK expired \in SUBSET Objective, escalated \in SUBSET Objective :
      \E u \in SUBSET expired : RunJobs(expired, u, escalated)
  BY DEF Jobs
<1> DEFINE x == risk[r]
           due == IF Reached(r, expired) THEN Degraded(x) ELSE x
           B == clinks[r] \cap escalated # {}
<1>1. /\ risk'[r] = [EscalateAcceptance(due) EXCEPT !.escalation_flag = @ \/ B]
      /\ UNCHANGED <<clinks, tlinks, trt, today>>
  BY DEF RunJobs
<1>2. due \in RiskRecord /\ Kept(x, due)
  BY CascadesAreSound, CascadesKeep DEF IInv, TypeOK
<1>3. Sound(due)
  BY CascadesAreSound DEF IInv, TypeOK
<1> HIDE DEF due
<1>4. Kept(due, EscalateAcceptance(due)) /\ EscalateAcceptance(due) \in RiskRecord
  BY <1>2, <1>3, CascadesKeep, EscalationIsSound
<1>5. ASSUME NEW y \in RiskRecord
      PROVE  Kept(y, [y EXCEPT !.escalation_flag = @ \/ B])
  BY <1>5 DEF Kept, RiskRecord
<1>6. Kept(x, risk'[r])
  BY <1>1, <1>2, <1>4, <1>5 DEF Kept
<1> QED
  BY <1>1, <1>6 DEF Stepped, Monotone

\* Every step keeps a record's decision or writes it through the rules.
LEMMA EveryStep ==
  ASSUME IInv, [Next]_vars, NEW r \in Risk
  PROVE  Stepped(r)
<1>1. ASSUME NEW q \in Risk, Transition(q) \/ Operation(q)
      PROVE  Stepped(r)
  BY <1>1, TransitionSteps, OperationSteps
<1>2. CASE Tick \/ UNCHANGED vars
  BY <1>2 DEF Tick, vars, Stepped, Kept, Monotone
<1> QED
  BY <1>1, <1>2, ControlSteps, TreatmentSteps, JobSteps DEF Next

-----------------------------------------------------------------------------
(* The rules hold at rest                                                  *)

LEMMA RatingInRatings ==
  ASSUME NEW sc \in RecordedScores
  PROVE  RatingOf(sc) \in Ratings
  BY RecordedScoreIsAScore DEF RatingOf, RatingFor, Ratings

Ruled(r) ==
  /\ Accepted(risk[r]) =>
       /\ RatingOf(risk[r].inherent) # "Critical"
       /\ RatingOf(risk[r].residual) # "Critical"
       /\ risk[r].acceptance_expiry_date # NoDate
       /\ risk[r].acceptance_expiry_date <= today + AcceptDays[RatingOf(risk[r].inherent)]
  /\ Phase(risk[r]) >= 6 /\ RatingOf(risk[r].inherent) \in {"Moderate", "High", "Critical"} =>
       risk[r].readout_confirmed
  /\ Phase(risk[r]) >= 5 /\ risk[r].treatment_strategy = "Mitigate" =>
       \E t \in tlinks[r] : trt[t].grc_eng_validated /\ trt[t].owner_committed

LEMMA KeptIsRuled ==
  ASSUME IInv, IInv', NEW r \in Risk, Ruled(r), Kept(risk[r], risk'[r]), Monotone(r)
  PROVE  Ruled(r)'
<1> DEFINE x == risk[r]  y == risk'[r]
<1>0. /\ x \in RiskRecord /\ Sound(x)
      /\ tlinks[r] \subseteq Treatment
      /\ today \in Nat /\ today' \in Nat
  BY RiskAssumption DEF IInv, TypeOK
<1>1. /\ y.inherent = x.inherent
      /\ y.residual \in {x.residual, NoScore}
      /\ y.acceptance_expiry_date = x.acceptance_expiry_date
      /\ y.readout_confirmed = x.readout_confirmed
      /\ Phase(y) = Phase(x)
      /\ Accepted(y) <=> Accepted(x)
      /\ y.treatment_strategy = x.treatment_strategy
  BY DEF Kept, Phase, Accepted
<1>2. RatingOf(NoScore) # "Critical"
  BY DEF RatingOf
<1>3. ASSUME Accepted(x)
      PROVE  x.acceptance_expiry_date <= today' + AcceptDays[RatingOf(x.inherent)]
  <2>1. x.inherent \in RecordedScores
    BY <1>0, <1>3 DEF RiskRecord, Sound, Accepted
  <2>2. AcceptDays[RatingOf(x.inherent)] \in Nat
    BY <2>1, RatingInRatings, RiskAssumption
  <2>3. x.acceptance_expiry_date \in Int
    BY <1>0, RiskAssumption DEF RiskRecord, NoDate
  <2>4. x.acceptance_expiry_date <= today + AcceptDays[RatingOf(x.inherent)]
    BY <1>3 DEF Ruled
  <2>5. today' \in {today, today + 1}
    BY DEF Monotone
  <2> HIDE DEF x
  <2> QED
    BY <1>0, <2>2, <2>3, <2>4, <2>5
<1>4. \A t \in tlinks[r] : trt[t].grc_eng_validated /\ trt[t].owner_committed =>
        t \in tlinks'[r] /\ trt'[t].grc_eng_validated /\ trt'[t].owner_committed
  BY <1>0 DEF Monotone
<1> HIDE DEF x, y
<1>5. Ruled(r)' <=>
        /\ Accepted(y) =>
             /\ RatingOf(y.inherent) # "Critical"
             /\ RatingOf(y.residual) # "Critical"
             /\ y.acceptance_expiry_date # NoDate
             /\ y.acceptance_expiry_date <= today' + AcceptDays[RatingOf(y.inherent)]
        /\ Phase(y) >= 6 /\ RatingOf(y.inherent) \in {"Moderate", "High", "Critical"} =>
             y.readout_confirmed
        /\ Phase(y) >= 5 /\ y.treatment_strategy = "Mitigate" =>
             \E t \in tlinks'[r] : trt'[t].grc_eng_validated /\ trt'[t].owner_committed
  BY DEF Ruled, y, Accepted, Phase, PhaseNumber, RatingOf, RatingFor, Magnitude
<1> QED
  BY <1>1, <1>2, <1>3, <1>4, <1>5 DEF Ruled, x

LEMMA WrittenIsRuled ==
  ASSUME IInv, IInv', NEW r \in Risk, Written(r, risk[r], risk'[r])
  PROVE  Ruled(r)'
<1> DEFINE y == risk'[r]
<1>0. /\ y \in RiskRecord /\ Sound(y)
      /\ tlinks[r] \subseteq Treatment
      /\ today \in Nat
  BY RiskAssumption DEF IInv, TypeOK
<1>1. RINV4(y) /\ RINV5(y) /\ RINV6(y) /\ RINV12(y, tlinks[r])
  BY DEF Written
<1>2. UNCHANGED <<tlinks, trt, today>>
  BY DEF Written
<1> HIDE DEF y
<1>3. ASSUME Accepted(y)
      PROVE  /\ RatingOf(y.inherent) # "Critical"
             /\ RatingOf(y.residual) # "Critical"
             /\ y.acceptance_expiry_date # NoDate
             /\ y.acceptance_expiry_date <= today + AcceptDays[RatingOf(y.inherent)]
  <2>1. y.inherent \in RecordedScores
    BY <1>0, <1>3 DEF RiskRecord, Sound, Accepted
  <2>2. RatingOf(y.inherent) \in Ratings
    BY <2>1, RatingInRatings
  <2>3. AcceptDays[RatingOf(y.inherent)] \in Nat
    BY <2>2, RiskAssumption
  <2>4. y.acceptance_expiry_date \in Int
    BY <1>0, RiskAssumption DEF RiskRecord, NoDate
  <2>5. /\ y.acceptance_expiry_date # NoDate
        /\ y.acceptance_expiry_date - today <= AcceptDays[RatingOf(y.inherent)]
    BY <1>1, <1>3, <2>2 DEF RINV4
  <2>6. RatingOf(y.inherent) # "Critical" /\ RatingOf(y.residual) # "Critical"
    BY <1>1, <1>3 DEF RINV5
  <2> QED
    BY <1>0, <2>3, <2>4, <2>5, <2>6
<1>4. Phase(y) >= 5 /\ y.treatment_strategy = "Mitigate" =>
        \E t \in tlinks[r] : trt[t].grc_eng_validated /\ trt[t].owner_committed
  BY <1>1 DEF RINV12, Validated, Committed
<1>5. Phase(y) >= 6 /\ RatingOf(y.inherent) \in {"Moderate", "High", "Critical"} =>
        y.readout_confirmed
  BY <1>1 DEF RINV6
<1>6. Ruled(r)' <=>
        /\ Accepted(y) =>
             /\ RatingOf(y.inherent) # "Critical"
             /\ RatingOf(y.residual) # "Critical"
             /\ y.acceptance_expiry_date # NoDate
             /\ y.acceptance_expiry_date <= today' + AcceptDays[RatingOf(y.inherent)]
        /\ Phase(y) >= 6 /\ RatingOf(y.inherent) \in {"Moderate", "High", "Critical"} =>
             y.readout_confirmed
        /\ Phase(y) >= 5 /\ y.treatment_strategy = "Mitigate" =>
             \E t \in tlinks'[r] : trt'[t].grc_eng_validated /\ trt'[t].owner_committed
  BY DEF Ruled, y, Accepted, Phase, PhaseNumber, RatingOf, RatingFor, Magnitude
<1> QED
  BY <1>2, <1>3, <1>4, <1>5, <1>6

Rules == IInv /\ \A r \in Risk : Ruled(r)

THEOREM RulesAtRest == Spec => []Rules
<1>1. Init => Rules
  <2> SUFFICES ASSUME Init PROVE Rules
    OBVIOUS
  <2>1. IInv
    BY InitIsSound
  <2>2. ASSUME NEW r \in Risk PROVE Ruled(r)
    BY NewRecordsAreBlank DEF Init, Ruled, Accepted, Phase, PhaseNumber, NoStrategy
  <2> QED
    BY <2>1, <2>2 DEF Rules
<1>2. Rules /\ [Next]_vars => Rules'
  <2> SUFFICES ASSUME Rules, [Next]_vars PROVE Rules'
    OBVIOUS
  <2>1. IInv /\ IInv'
    BY Induction DEF Rules
  <2>2. ASSUME NEW r \in Risk PROVE Ruled(r)'
    <3>1. Stepped(r)
      BY <2>1, EveryStep
    <3> QED
      BY <2>1, <3>1, KeptIsRuled, WrittenIsRuled DEF Stepped, Rules
  <2> QED
    BY <2>1, <2>2 DEF Rules
<1> QED
  BY <1>1, <1>2, PTL DEF Spec

\* RINV-5 at rest: no accepted risk carries a Critical score.
THEOREM CriticalRisksAreNotAccepted == Spec => []CriticalNeverAccepted
<1>1. Rules => CriticalNeverAccepted
  BY DEF Rules, Ruled, CriticalNeverAccepted
<1> QED
  BY <1>1, RulesAtRest, PTL

\* RINV-4 at rest: an acceptance is dated within the window of its rating.
THEOREM AcceptancesAreTimeBound == Spec => []AcceptanceTimeBound
<1>1. Rules => AcceptanceTimeBound
  BY DEF Rules, Ruled, AcceptanceTimeBound
<1> QED
  BY <1>1, RulesAtRest, PTL

\* Every standing acceptance is of a risk that may be accepted and ends
\* within the window of its rating.
THEOREM AcceptancesAreBounded == Spec => []AcceptanceBounded
<1>1. CriticalNeverAccepted /\ AcceptanceTimeBound => AcceptanceBounded
  BY DEF AcceptanceBounded
<1> QED
  BY <1>1, CriticalRisksAreNotAccepted, AcceptancesAreTimeBound, PTL

\* RINV-6 at rest: past the readout the owner's confirmation stands.
THEOREM ReadoutsAreConfirmed == Spec => []ReadoutNotSkipped
<1>1. Rules => ReadoutNotSkipped
  BY DEF Rules, Ruled, ReadoutNotSkipped, Phase, PhaseNumber
<1> QED
  BY <1>1, RulesAtRest, PTL

\* RINV-12, as far as late links leave it: mitigation rests on a validated
\* and committed treatment.
THEOREM MitigationsAreBacked == Spec => []MitigationBacked
<1>1. Rules => MitigationBacked
  BY DEF Rules, Ruled, MitigationBacked
<1> QED
  BY <1>1, RulesAtRest, PTL

\* OUT-5: an inherent score changes only in Scoring.
THEOREM InherentIsFrozen == Spec => InherentWrittenOnlyInScoring
<1>1. IInv /\ [Next]_vars =>
        [\A r \in Risk : risk'[r].inherent # risk[r].inherent =>
           risk[r].lifecycle_state = "Scoring"]_vars
  <2> SUFFICES ASSUME IInv, [Next]_vars, NEW r \in Risk,
                      risk'[r].inherent # risk[r].inherent
               PROVE  risk[r].lifecycle_state = "Scoring"
    OBVIOUS
  <2> QED
    BY EveryStep DEF Stepped, Kept, Written
<1> QED
  BY <1>1, Inductive, PTL DEF Spec, InherentWrittenOnlyInScoring

\* Requests move a risk along one declared edge of the seven phases; no
\* cascade, link edit or job touches the phase.
THEOREM RiskMachineFollowed == Spec => FollowsRiskMachine
<1> DEFINE phases == [r \in Risk |-> risk[r].lifecycle_state]
<1>1. Init => RiskEngine!Init
  BY NewRecordsAreBlank DEF Init, RiskEngine!Init
<1>2. IInv /\ [Next]_vars => [RiskEngine!Fire]_phases
  <2> SUFFICES ASSUME IInv, [Next]_vars PROVE RiskEngine!Fire
    OBVIOUS
  <2>1. TypeOK'
    BY Induction DEF IInv
  <2>2. ASSUME NEW r \in Risk
        PROVE  RiskEngine!Moves(risk[r].lifecycle_state, risk'[r].lifecycle_state)
    <3>1. Stepped(r)
      BY EveryStep
    <3> QED
      BY <3>1 DEF Stepped, Kept, Written, Phased, RiskEngine!Moves
  <2> QED
    BY <2>1, <2>2 DEF TypeOK, RiskRecord, RiskEngine!Fire
<1> QED
  BY <1>1, <1>2, Inductive, PTL DEF Spec, FollowsRiskMachine, RiskEngine!Spec

-----------------------------------------------------------------------------
(* What lets a residual score stand                                        *)

Released(x, y) ==
  \/ x.residual_score_locked /\ ~y.residual_score_locked
  \/ x.lifecycle_state # "Monitoring" /\ y.lifecycle_state = "Monitoring"

\* No lock, flag or escalation releases a record.
LEMMA CascadesReleaseNothing ==
  ASSUME NEW x \in RiskRecord
  PROVE  /\ ~Released(x, x)
         /\ ~Released(x, LockResidual(x))
         /\ ~Released(x, Frozen(x))
         /\ ~Released(x, Degraded(x))
         /\ ~Released(x, Improved(x))
         /\ ~Released(x, Recovering(x))
         /\ ~Released(x, Flagged("Control_Changed", x))
         /\ ~Released(x, EscalateAcceptance(x))
<1>1. LockResidual(x) \in RiskRecord /\ ~Released(x, x) /\ ~Released(x, LockResidual(x))
  BY DEF Released, LockResidual, RiskRecord
<1>2. ASSUME NEW y \in RiskRecord, NEW f
      PROVE  Released(x, [y EXCEPT !.control_change_flag = f]) => Released(x, y)
  BY DEF Released, RiskRecord
<1>3. ASSUME NEW y \in RiskRecord
      PROVE  Released(x, [y EXCEPT !.escalation_flag = TRUE,
                                   !.acceptance_reassessment_count = @ + 1]) => Released(x, y)
  BY DEF Released, RiskRecord
<1> QED
  BY <1>1, <1>2, <1>3 DEF Frozen, Degraded, Improved, Recovering, Flagged,
                          EscalateAcceptance

LEMMA WritesRelease ==
  ASSUME IInv, NEW q \in Risk, NEW r \in Risk, NEW y, risk' = [risk EXCEPT ![q] = y],
         Released(risk[r], risk'[r])
  PROVE  q = r /\ Released(risk[q], y)
BY CascadesReleaseNothing DEF IInv, TypeOK

LEMMA TransitionsRelease ==
  ASSUME IInv, NEW q \in Risk, Transition(q), NEW r \in Risk, Released(risk[r], risk'[r])
  PROVE  ResidualGate(r)
<1> DEFINE x == risk[q]
<1>0. x \in RiskRecord
  BY DEF IInv, TypeOK
<1>1. ASSUME NEW y, Store(q, y)
      PROVE  q = r /\ Released(x, y)
  BY <1>1, WritesRelease DEF Store
<1>2. CASE Admit(q) \/ StartScoring(q) \/ FreezeScore(q)
  <2>1. CASE Admit(q)
    BY <1>0, <1>1, <2>1 DEF Admit, Released, RiskRecord
  <2>2. CASE StartScoring(q)
    BY <1>0, <1>1, <2>2 DEF StartScoring, Released, RiskRecord
  <2>3. CASE FreezeScore(q)
    <3> DEFINE y == [x EXCEPT !.lifecycle_state = "Treatment", !.inherent_locked = TRUE]
    <3>1. Store(q, y) /\ ~Released(x, y)
      BY <1>0, <2>3 DEF FreezeScore, Released, RiskRecord
    <3> QED
      BY <1>1, <3>1
  <2> QED
    BY <1>2, <2>1, <2>2, <2>3
<1>3. CASE QueueForReadout(q) \/ CompleteReadout(q)
  <2>1. CASE QueueForReadout(q)
    BY <1>0, <1>1, <2>1 DEF QueueForReadout, Released, RiskRecord
  <2>2. CASE CompleteReadout(q)
    BY <1>0, <1>1, <2>2 DEF CompleteReadout, Released, RiskRecord
  <2> QED
    BY <1>3, <2>1, <2>2
<1>4. CASE StartMonitoring(q)
  BY <1>1, <1>4 DEF StartMonitoring
<1>5. CASE Reassess(q) \/ Reopen(q)
  <2>1. Released(x, OpenNewCycle(x))
    BY <1>1, <1>5 DEF Reassess, Reopen
  <2>2. ~Released(x, OpenNewCycle(x))
    BY <1>0 DEF Released, OpenNewCycle, LockResidual, RiskRecord
  <2> QED
    BY <2>1, <2>2
<1>6. CASE Close(q)
  <2> DEFINE z == [x EXCEPT !.lifecycle_state = "Closed", !.escalation_flag = FALSE]
  <2>1. risk' = [risk EXCEPT ![q] = z]
    BY <1>6 DEF Close
  <2>2. ~Released(x, z)
    BY <1>0 DEF Released, RiskRecord
  <2> HIDE DEF z
  <2> QED
    BY <2>1, <2>2, WritesRelease
<1> QED
  BY <1>2, <1>3, <1>4, <1>5, <1>6 DEF Transition

LEMMA OperationsRelease ==
  ASSUME IInv, NEW q \in Risk, Operation(q), NEW r \in Risk, Released(risk[r], risk'[r])
  PROVE  ResidualGate(r)
<1> DEFINE x == risk[q]
<1>0. x \in RiskRecord /\ risk[r] \in RiskRecord
  BY DEF IInv, TypeOK
<1>1. ASSUME NEW y, Store(q, y)
      PROVE  q = r /\ Released(x, y)
  BY <1>1, WritesRelease DEF Store
<1>2. CASE ReleaseResidualLock(q)
  <2>1. risk' = [risk EXCEPT ![q] = [x EXCEPT !.residual_score_locked = FALSE]]
    BY <1>2 DEF ReleaseResidualLock
  <2> QED
    BY <1>2, <2>1, WritesRelease DEF ReleaseResidualLock
<1>3. ASSUME NEW sc \in RecordedScores, ScoreInherent(q, sc) \/ ScoreResidual(q, sc)
      PROVE  FALSE
  <2>1. CASE ScoreInherent(q, sc)
    <3> DEFINE y == [x EXCEPT !.inherent = sc,
                              !.residual = IF x.residual_score_locked THEN NoScore ELSE @]
    <3>1. Store(q, y) /\ ~Released(x, y)
      BY <1>0, <2>1 DEF ScoreInherent, Released, RiskRecord
    <3> QED
      BY <1>1, <3>1
  <2>2. CASE ScoreResidual(q, sc)
    BY <1>0, <1>1, <2>2 DEF ScoreResidual, Released, RiskRecord
  <2> QED
    BY <1>3, <2>1, <2>2
<1>4. ASSUME NEW s \in Strategies, DecideTreatment(q, s)
      PROVE  FALSE
  BY <1>0, <1>1, <1>4 DEF DecideTreatment, Released, RiskRecord
<1>5. ASSUME NEW d \in 0..MaxDay, AcceptRisk(q, d)
      PROVE  FALSE
  <2> DEFINE y == [x EXCEPT !.treatment_strategy = "Accept", !.acceptance_expiry_date = d]
  <2>1. Store(q, y) /\ ~Released(x, y)
    BY <1>0, <1>5 DEF AcceptRisk, Released, RiskRecord
  <2> QED
    BY <1>1, <2>1
<1>6. ASSUME NEW g \in SUBSET GateFlags, NEW c \in BOOLEAN, NEW e \in BOOLEAN,
             NEW p \in Staffing, UpdateRisk(q, g, c, e, p)
      PROVE  FALSE
  <2> DEFINE y == [x EXCEPT !.gates = g, !.readout_confirmed = c, !.escalation_flag = e,
                            !.people = p]
  <2>1. Store(q, y) /\ ~Released(x, y)
    BY <1>0, <1>6 DEF UpdateRisk, Released, RiskRecord
  <2> QED
    BY <1>1, <2>1
<1>7. UNCHANGED risk => FALSE
  BY <1>0, CascadesReleaseNothing
<1>8. CASE ElsewhereFlagged(q)
  <2>1. risk' = [risk EXCEPT ![q] = Improved(x)]
    BY <1>8 DEF ElsewhereFlagged
  <2> QED
    BY <1>0, <2>1, WritesRelease, CascadesReleaseNothing
<1>9. CASE StandingChanges(q)
  <2> PICK p \in Staffing : risk' = [risk EXCEPT ![q] = [x EXCEPT !.people = p]]
    BY <1>9, StandingWrites DEF IInv, TypeOK
  <2>1. ~Released(x, [x EXCEPT !.people = p])
    BY <1>0 DEF Released, RiskRecord
  <2> QED
    BY <2>1, WritesRelease
<1> QED
  BY <1>2, <1>3, <1>4, <1>5, <1>6, <1>7, <1>8, <1>9
     DEF Operation, AcceptanceDates, LinkControl, UnlinkControl, LinkTreatment

\* The gate is the only way to a released record, in every state of the
\* controls and treatments and under every cascade and job.
LEMMA ReleasesPassGate ==
  ASSUME IInv, [Next]_vars, NEW r \in Risk, Released(risk[r], risk'[r])
  PROVE  ResidualGate(r)
<1>0. risk[r] \in RiskRecord /\ Sound(risk[r])
  BY DEF IInv, TypeOK
<1>1. ASSUME NEW q \in Risk, Transition(q) \/ Operation(q)
      PROVE  ResidualGate(r)
  BY <1>1, TransitionsRelease, OperationsRelease
<1>2. ASSUME NEW o \in Objective, ControlStep(o)
      PROVE  FALSE
  BY <1>0, <1>2, CascadesReleaseNothing
     DEF ControlStep, ControlOperating, ControlFailed, ControlRecovered, ControlRedesigned,
         ControlDeprecated, DeploymentDegraded, DeploymentRestored, ControlDrifts, Cascade
<1>3. ASSUME NEW t \in Treatment, TreatmentStep(t)
      PROVE  FALSE
  BY <1>0, <1>3, CascadesReleaseNothing
     DEF TreatmentStep, ValidateTreatment, CommitTreatment, CompleteTreatment, CancelTreatment
<1>4. CASE Jobs
  <2> PICK expired \in SUBSET Objective, escalated \in SUBSET Objective :
        \E u \in SUBSET expired : RunJobs(expired, u, escalated)
    BY <1>4 DEF Jobs
  <2> DEFINE due == IF Reached(r, expired) THEN Degraded(risk[r]) ELSE risk[r]
             B == clinks[r] \cap escalated # {}
  <2>1. risk'[r] = [EscalateAcceptance(due) EXCEPT !.escalation_flag = @ \/ B]
    BY DEF RunJobs
  <2>2. due \in RiskRecord /\ ~Released(risk[r], due) /\ Sound(due)
    BY <1>0, CascadesAreSound, CascadesReleaseNothing
  <2> HIDE DEF due
  <2>3. ~Released(due, EscalateAcceptance(due)) /\ EscalateAcceptance(due) \in RiskRecord
    BY <2>2, CascadesReleaseNothing, EscalationIsSound
  <2>4. ASSUME NEW y \in RiskRecord
        PROVE  ~Released(y, [y EXCEPT !.escalation_flag = @ \/ B])
    BY DEF Released, RiskRecord
  <2>5. ASSUME NEW u \in RiskRecord, NEW v \in RiskRecord, NEW w,
               Released(u, w), ~Released(u, v)
        PROVE  Released(v, w)
    BY <2>5 DEF Released, RiskRecord
  <2> QED
    BY <1>0, <2>1, <2>2, <2>3, <2>4, <2>5
<1>5. CASE Tick \/ UNCHANGED vars
  BY <1>0, <1>5, CascadesReleaseNothing DEF Tick, vars
<1> QED
  BY <1>1, <1>2, <1>3, <1>4, <1>5 DEF Next


-----------------------------------------------------------------------------
(***************************************************************************)
(* What the register remembers.  The rest of the module is about steps:    *)
(* how often an acceptance lapsed, what a control failure did, why a       *)
(* reported score fell.                                                    *)
(***************************************************************************)

-----------------------------------------------------------------------------
(* Lapses.  The count of lapses is bounded by the calendar because a lapse *)
(* the jobs have yet to count leaves a day to spare: every enforced write  *)
(* escalates a lapsed acceptance, a day that passes makes room, and the    *)
(* job that counts also escalates.                                         *)

Uncounted(x) == Lapsed(x) /\ x.lifecycle_state # "Closed" /\ ~x.escalation_flag

CountFits(r) ==
  /\ risk[r].acceptance_reassessment_count <= today
  /\ Uncounted(risk[r]) => risk[r].acceptance_reassessment_count < today

\* The count stays and no lapse becomes uncounted ...
Settled(x, y) ==
  /\ y.acceptance_reassessment_count = x.acceptance_reassessment_count
  /\ Uncounted(y) => Uncounted(x)

\* ... or an uncounted lapse is counted and escalated.
Counts(x, y) ==
  /\ Uncounted(x) /\ ~Uncounted(y)
  /\ y.acceptance_reassessment_count = x.acceptance_reassessment_count + 1

LEMMA StoreSettles ==
  ASSUME IInv, NEW q \in Risk, NEW r \in Risk, NEW y, Store(q, y),
         y.acceptance_reassessment_count = risk[q].acceptance_reassessment_count
  PROVE  Settled(risk[r], risk'[r]) /\ today' = today
<1>1. CASE q = r
  <2>1. risk'[r] = y
    BY <1>1 DEF Store, IInv, TypeOK
  <2>2. ~Uncounted(y)
    BY DEF Store, Enforced, RINV11, Uncounted
  <2> QED
    BY <1>1, <2>1, <2>2 DEF Settled, Store
<1>2. CASE q # r
  <2>1. risk'[r] = risk[r]
    BY <1>2 DEF Store, IInv, TypeOK
  <2> QED
    BY <2>1 DEF Settled, Store
<1> QED
  BY <1>1, <1>2

\* Locking, flagging and closing touch neither the count nor the lapse.
LEMMA CascadesSettle ==
  ASSUME NEW x \in RiskRecord
  PROVE  /\ Settled(x, x)
         /\ Settled(x, LockResidual(x))
         /\ Settled(x, Frozen(x))
         /\ Settled(x, Degraded(x))
         /\ Settled(x, Improved(x))
         /\ Settled(x, Recovering(x))
         /\ Settled(x, Flagged("Control_Changed", x))
<1>1. Settled(x, x)
  BY DEF Settled
<1>2. Settled(x, LockResidual(x)) /\ LockResidual(x) \in RiskRecord
  BY DEF Settled, Uncounted, Lapsed, Accepted, LockResidual, RiskRecord
<1>3. ASSUME NEW y \in RiskRecord, NEW f
      PROVE  Settled(x, y) => Settled(x, [y EXCEPT !.control_change_flag = f])
  BY DEF Settled, Uncounted, Lapsed, Accepted, RiskRecord
<1> QED
  BY <1>1, <1>2, <1>3 DEF Frozen, Degraded, Improved, Recovering, Flagged

LEMMA TransitionSettles ==
  ASSUME IInv, NEW q \in Risk, Transition(q), NEW r \in Risk
  PROVE  Settled(risk[r], risk'[r]) /\ today' = today
<1> DEFINE x == risk[q]
<1>0. x \in RiskRecord /\ risk \in [Risk -> RiskRecord]
  BY DEF IInv, TypeOK
<1>1. ASSUME NEW y, Store(q, y),
             y.acceptance_reassessment_count = x.acceptance_reassessment_count
      PROVE  Settled(risk[r], risk'[r]) /\ today' = today
  BY <1>1, StoreSettles
<1>2. CASE Admit(q) \/ StartScoring(q) \/ FreezeScore(q) \/ QueueForReadout(q)
           \/ CompleteReadout(q) \/ StartMonitoring(q)
  BY <1>0, <1>1, <1>2 DEF Admit, StartScoring, FreezeScore, QueueForReadout,
                          CompleteReadout, StartMonitoring, RiskRecord
<1>3. CASE Reassess(q) \/ Reopen(q)
  <2>1. OpenNewCycle(x).acceptance_reassessment_count = x.acceptance_reassessment_count
    BY <1>0 DEF OpenNewCycle, LockResidual, RiskRecord
  <2> QED
    BY <1>1, <1>3, <2>1 DEF Reassess, Reopen
<1>4. CASE Close(q)
  <2> DEFINE z == [x EXCEPT !.lifecycle_state = "Closed", !.escalation_flag = FALSE]
  <2>1. risk' = [risk EXCEPT ![q] = z] /\ today' = today
    BY <1>4 DEF Close
  <2>2. Settled(x, z)
    BY <1>0 DEF Settled, Uncounted, RiskRecord
  <2> HIDE DEF z
  <2> QED
    BY <1>0, <2>1, <2>2 DEF Settled
<1> QED
  BY <1>2, <1>3, <1>4 DEF Transition

LEMMA OperationSettles ==
  ASSUME IInv, NEW q \in Risk, Operation(q), NEW r \in Risk
  PROVE  Settled(risk[r], risk'[r]) /\ today' = today
<1> DEFINE x == risk[q]
<1>0. x \in RiskRecord /\ risk \in [Risk -> RiskRecord] /\ Settled(risk[r], risk[r])
  BY DEF IInv, TypeOK, Settled
<1>1. ASSUME NEW y, Store(q, y),
             y.acceptance_reassessment_count = x.acceptance_reassessment_count
      PROVE  Settled(risk[r], risk'[r]) /\ today' = today
  BY <1>1, StoreSettles
<1>2. ASSUME NEW sc \in RecordedScores, ScoreInherent(q, sc)
      PROVE  Settled(risk[r], risk'[r]) /\ today' = today
  <2> DEFINE y == [x EXCEPT !.inherent = sc,
                            !.residual = IF x.residual_score_locked THEN NoScore ELSE @]
  <2>1. Store(q, y) /\ y.acceptance_reassessment_count = x.acceptance_reassessment_count
    BY <1>0, <1>2 DEF ScoreInherent, RiskRecord
  <2> QED
    BY <1>1, <2>1
<1>3. ASSUME NEW sc \in RecordedScores, ScoreResidual(q, sc)
      PROVE  Settled(risk[r], risk'[r]) /\ today' = today
  BY <1>0, <1>1, <1>3 DEF ScoreResidual, RiskRecord
<1>4. CASE ReleaseResidualLock(q)
  <2>1. Settled(x, [x EXCEPT !.residual_score_locked = FALSE])
    BY <1>0 DEF Settled, Uncounted, Lapsed, Accepted, RiskRecord
  <2>2. risk' = [risk EXCEPT ![q] = [x EXCEPT !.residual_score_locked = FALSE]]
        /\ today' = today
    BY <1>4 DEF ReleaseResidualLock
  <2> QED
    BY <1>0, <2>1, <2>2
<1>5. ASSUME NEW s \in Strategies, DecideTreatment(q, s)
      PROVE  Settled(risk[r], risk'[r]) /\ today' = today
  BY <1>0, <1>1, <1>5 DEF DecideTreatment, RiskRecord
<1>6. ASSUME NEW d \in 0..MaxDay, AcceptRisk(q, d)
      PROVE  Settled(risk[r], risk'[r]) /\ today' = today
  <2> DEFINE y == [x EXCEPT !.treatment_strategy = "Accept", !.acceptance_expiry_date = d]
  <2>1. Store(q, y) /\ y.acceptance_reassessment_count = x.acceptance_reassessment_count
    BY <1>0, <1>6 DEF AcceptRisk, RiskRecord
  <2> QED
    BY <1>1, <2>1
<1>7. ASSUME NEW g \in SUBSET GateFlags, NEW c \in BOOLEAN, NEW e \in BOOLEAN,
             NEW p \in Staffing, UpdateRisk(q, g, c, e, p)
      PROVE  Settled(risk[r], risk'[r]) /\ today' = today
  BY <1>0, <1>1, <1>7 DEF UpdateRisk, RiskRecord
<1>8. ASSUME NEW o \in Objective, LinkControl(q, o) \/ UnlinkControl(q, o)
      PROVE  Settled(risk[r], risk'[r]) /\ today' = today
  BY <1>0, <1>8 DEF LinkControl, UnlinkControl
<1>9. ASSUME NEW t \in Treatment, LinkTreatment(q, t)
      PROVE  Settled(risk[r], risk'[r]) /\ today' = today
  BY <1>0, <1>9 DEF LinkTreatment
<1>10. CASE ElsewhereFlagged(q)
  <2>1. risk' = [risk EXCEPT ![q] = Improved(x)] /\ today' = today
    BY <1>10 DEF ElsewhereFlagged
  <2> QED
    BY <1>0, <2>1, CascadesSettle
<1>11. CASE StandingChanges(q)
  <2> PICK p \in Staffing :
        risk' = [risk EXCEPT ![q] = [x EXCEPT !.people = p]] /\ today' = today
    BY <1>0, <1>11, StandingWrites
  <2>1. Settled(x, [x EXCEPT !.people = p])
    BY <1>0 DEF Settled, Uncounted, Lapsed, Accepted, RiskRecord
  <2> QED
    BY <1>0, <2>1
<1> QED
  BY <1>2, <1>3, <1>4, <1>5, <1>6, <1>7, <1>8, <1>9, <1>10, <1>11 DEF Operation, AcceptanceDates

LEMMA ControlStepSettles ==
  ASSUME IInv, NEW o \in Objective, ControlStep(o), NEW r \in Risk
  PROVE  Settled(risk[r], risk'[r]) /\ today' = today
<1>1. today' = today
  BY DEF ControlStep, ControlOperating, ControlFailed, ControlRecovered, ControlRedesigned,
         ControlDeprecated, DeploymentDegraded, DeploymentRestored, ControlDrifts,
         ObjectiveMoves
<1>2. /\ Settled(risk[r], risk[r])
      /\ Settled(risk[r], Frozen(risk[r])) /\ Settled(risk[r], Degraded(risk[r]))
      /\ Settled(risk[r], Improved(risk[r])) /\ Settled(risk[r], Recovering(risk[r]))
      /\ Settled(risk[r], Flagged("Control_Changed", risk[r]))
  BY CascadesSettle DEF IInv, TypeOK
<1>3. Settled(risk[r], risk'[r])
  BY <1>2 DEF ControlStep, ControlOperating, ControlFailed, ControlRecovered,
              ControlRedesigned, ControlDeprecated, DeploymentDegraded,
              DeploymentRestored, ControlDrifts, Cascade
<1> QED
  BY <1>1, <1>3

LEMMA TreatmentStepSettles ==
  ASSUME IInv, NEW t \in Treatment, TreatmentStep(t), NEW r \in Risk
  PROVE  Settled(risk[r], risk'[r]) /\ today' = today
<1>1. Settled(risk[r], risk[r]) /\ Settled(risk[r], LockResidual(risk[r]))
  BY CascadesSettle DEF IInv, TypeOK
<1> QED
  BY <1>1 DEF TreatmentStep, ValidateTreatment, CommitTreatment, CompleteTreatment,
              CancelTreatment

LEMMA JobsCount ==
  ASSUME IInv, Jobs, NEW r \in Risk
  PROVE  /\ Settled(risk[r], risk'[r]) \/ Counts(risk[r], risk'[r])
         /\ today' = today
<1> PICK expired \in SUBSET Objective, escalated \in SUBSET Objective :
      \E u \in SUBSET expired : RunJobs(expired, u, escalated)
  BY DEF Jobs
<1> DEFINE x == risk[r]
           due == IF Reached(r, expired) THEN Degraded(x) ELSE x
           B == clinks[r] \cap escalated # {}
           z == [EscalateAcceptance(due) EXCEPT !.escalation_flag = @ \/ B]
<1>1. risk'[r] = z /\ today' = today
  BY DEF RunJobs
<1>2. /\ x \in RiskRecord /\ due \in RiskRecord /\ Sound(due)
      /\ Settled(x, due) /\ (Uncounted(due) <=> Uncounted(x))
  <2>1. x \in RiskRecord /\ Sound(x)
    BY DEF IInv, TypeOK
  <2>2. Degraded(x) \in RiskRecord /\ Sound(Degraded(x)) /\ Settled(x, Degraded(x))
    BY <2>1, CascadesAreSound, CascadesSettle
  <2>3. Uncounted(Degraded(x)) <=> Uncounted(x)
    <3>1. LockResidual(x) \in RiskRecord /\ (Uncounted(LockResidual(x)) <=> Uncounted(x))
      BY <2>1 DEF Uncounted, Lapsed, Accepted, LockResidual, RiskRecord
    <3>2. ASSUME NEW y \in RiskRecord
          PROVE  Uncounted([y EXCEPT !.control_change_flag = "Control_Changed"])
                   <=> Uncounted(y)
      BY DEF Uncounted, Lapsed, Accepted, RiskRecord
    <3> QED
      BY <3>1, <3>2 DEF Degraded
  <2> QED
    BY <2>1, <2>2, <2>3 DEF Settled
<1> HIDE DEF due
<1>3. ASSUME NEW y \in RiskRecord
      PROVE  Settled(y, [y EXCEPT !.escalation_flag = @ \/ B])
  BY DEF Settled, Uncounted, Lapsed, Accepted, RiskRecord
<1>4. CASE Uncounted(due)
  <2> DEFINE l == LockResidual(due)
             e == [l EXCEPT !.escalation_flag = TRUE, !.acceptance_reassessment_count = @ + 1]
  <2>1. l \in RiskRecord /\ l.acceptance_reassessment_count = due.acceptance_reassessment_count
    BY <1>2 DEF LockResidual, RiskRecord
  <2> HIDE DEF l
  <2>2. EscalateAcceptance(due) = e
    BY <1>4 DEF EscalateAcceptance, Uncounted, l
  <2>3. e \in RiskRecord
    BY <1>2, <2>2, EscalationIsSound
  <2>4. /\ e.escalation_flag
        /\ e.acceptance_reassessment_count = due.acceptance_reassessment_count + 1
    BY <2>1 DEF RiskRecord
  <2> HIDE DEF e
  <2>5. /\ z.escalation_flag
        /\ z.acceptance_reassessment_count = e.acceptance_reassessment_count
    BY <2>2, <2>3, <2>4 DEF RiskRecord
  <2> QED
    BY <1>1, <1>2, <1>4, <2>4, <2>5 DEF Counts, Uncounted, Settled
<1>5. CASE ~Uncounted(due)
  <2>1. EscalateAcceptance(due) = due
    BY <1>5 DEF EscalateAcceptance, Uncounted
  <2>2. Settled(due, z)
    BY <1>2, <1>3, <2>1
  <2> QED
    BY <1>1, <1>2, <2>2 DEF Settled
<1> QED
  BY <1>1, <1>4, <1>5

\* Once the day is fixed, whether a record is uncounted is its own affair.
LEMMA StepFits ==
  ASSUME IInv, IInv', NEW r \in Risk, CountFits(r), today' = today,
         Settled(risk[r], risk'[r]) \/ Counts(risk[r], risk'[r])
  PROVE  CountFits(r)'
<1> DEFINE n == risk[r].acceptance_reassessment_count
           m == risk'[r].acceptance_reassessment_count
<1>1. n \in Nat /\ m \in Nat /\ today \in Nat
  BY RiskAssumption DEF IInv, TypeOK, RiskRecord
<1>2. CountFits(r)' <=> m <= today /\ (Uncounted(risk'[r]) => m < today)
  BY DEF CountFits, Uncounted, Lapsed, Accepted
<1>3. n <= today /\ (Uncounted(risk[r]) => n < today)
  BY DEF CountFits
<1>4. CASE Settled(risk[r], risk'[r])
  BY <1>2, <1>3, <1>4 DEF Settled
<1>5. CASE Counts(risk[r], risk'[r])
  <2>1. m = n + 1 /\ n < today /\ ~Uncounted(risk'[r])
    BY <1>3, <1>5 DEF Counts
  <2>2. m <= today
    BY <1>1, <2>1
  <2> QED
    BY <1>2, <2>1, <2>2
<1> QED
  BY <1>4, <1>5

LEMMA DayFits ==
  ASSUME IInv, NEW r \in Risk, CountFits(r), Tick
  PROVE  CountFits(r)'
<1>1. /\ risk[r].acceptance_reassessment_count \in Nat /\ today \in Nat
      /\ risk[r].acceptance_reassessment_count <= today
  BY RiskAssumption DEF IInv, TypeOK, RiskRecord, CountFits
<1>2. risk' = risk /\ today' = today + 1
  BY DEF Tick
<1>3. risk[r].acceptance_reassessment_count < today + 1
  BY <1>1
<1> QED
  BY <1>1, <1>2, <1>3 DEF CountFits

\* RINV-11.  A lapse is counted once: the count never outruns the calendar.
THEOREM LapsesAreCountedOnce == Spec => []LapseCountedOnce
<1> DEFINE Fits == IInv /\ \A r \in Risk : CountFits(r)
<1>1. Init => Fits
  <2> SUFFICES ASSUME Init PROVE Fits
    OBVIOUS
  <2>1. \A r \in Risk : CountFits(r)
    BY NewRecordsAreBlank DEF Init, CountFits, Uncounted, Lapsed, Accepted, NoStrategy
  <2> QED
    BY <2>1, InitIsSound
<1>2. Fits /\ [Next]_vars => Fits'
  <2> SUFFICES ASSUME Fits, [Next]_vars PROVE Fits'
    OBVIOUS
  <2>1. IInv /\ IInv'
    BY Induction
  <2>2. ASSUME NEW r \in Risk PROVE CountFits(r)'
    <3>0. CountFits(r)
      OBVIOUS
    <3>1. CASE Tick
      BY <2>1, <3>0, <3>1, DayFits
    <3>2. ASSUME ~Tick
          PROVE  /\ Settled(risk[r], risk'[r]) \/ Counts(risk[r], risk'[r])
                 /\ today' = today
      <4>1. CASE UNCHANGED vars
        BY <4>1 DEF vars, Settled
      <4>2. CASE Next
        BY <2>1, <3>2, <4>2, TransitionSettles, OperationSettles, ControlStepSettles,
           TreatmentStepSettles, JobsCount DEF Next
      <4> QED
        BY <4>1, <4>2
    <3> QED
      BY <2>1, <3>0, <3>1, <3>2, StepFits
  <2> QED
    BY <2>1, <2>2
<1>3. Fits => LapseCountedOnce
  BY DEF CountFits, LapseCountedOnce
<1> QED
  BY <1>1, <1>2, <1>3, PTL DEF Spec

-----------------------------------------------------------------------------
(* Failures.  Only one action enters Failure, and it cascades.             *)

LEMMA OnlyFailureFails ==
  ASSUME IInv, [Next]_vars, NEW o \in Objective,
         ctl[o].lifecycle_state # "Failure", ctl'[o].lifecycle_state = "Failure"
  PROVE  \E c \in Ceilings \cup {NoCE}, a \in BOOLEAN : ControlFailed(o, c, a)
<1>0. ctl \in [Objective -> ControlView] /\ ctl[o] \in ControlView
  BY DEF IInv, TypeOK
<1>1. ASSUME NEW q \in Objective, NEW s, NEW c, NEW a, ObjectiveMoves(q, s, c, a),
             s \in {"Operating", "Building", "Deprecated", ctl[q].lifecycle_state}
      PROVE  FALSE
  BY <1>0, <1>1 DEF ObjectiveMoves
<1>2. ASSUME NEW q \in Objective, ControlStep(q)
      PROVE  \E c \in Ceilings \cup {NoCE}, a \in BOOLEAN : ControlFailed(q, c, a)
  BY <1>1, <1>2 DEF ControlStep, ControlOperating, ControlRecovered, ControlRedesigned,
                    ControlDeprecated, DeploymentDegraded, DeploymentRestored, ControlDrifts
<1>3. ASSUME NEW q \in Objective, NEW c, NEW a, ControlFailed(q, c, a)
      PROVE  q = o
  BY <1>0, <1>3 DEF ControlFailed, ObjectiveMoves
<1>4. CASE Tick
  <2>1. PICK c \in [Objective -> Ceilings \cup {NoCE}] :
               ctl' = [q \in Objective |-> [ctl[q] EXCEPT !.ceiling = c[q]]]
    BY <1>4 DEF Tick
  <2>2. ctl'[o].lifecycle_state = ctl[o].lifecycle_state
    BY <1>0, <2>1 DEF ControlView
  <2> QED
    BY <2>2
<1>5. CASE Jobs
  <2>1. PICK u \in SUBSET Objective :
               ctl' = [q \in Objective |-> IF q \in u THEN [ctl[q] EXCEPT !.assessed = FALSE]
                                                      ELSE ctl[q]]
    BY <1>5 DEF Jobs, RunJobs
  <2>2. ctl'[o].lifecycle_state = ctl[o].lifecycle_state
    BY <1>0, <2>1 DEF ControlView
  <2> QED
    BY <2>2
<1>6. ASSUME NEW r \in Risk, Transition(r)
      PROVE  ctl' = ctl
  BY <1>6 DEF Transition, Admit, StartScoring, FreezeScore, QueueForReadout, CompleteReadout,
              StartMonitoring, Reassess, Close, Reopen, Store
<1>7. ASSUME NEW r \in Risk, Operation(r)
      PROVE  ctl' = ctl
  BY <1>7 DEF Operation, ScoreInherent, ScoreResidual, ReleaseResidualLock, DecideTreatment,
              AcceptRisk, UpdateRisk, LinkControl, UnlinkControl, LinkTreatment,
              StandingChanges, ElsewhereFlagged, Store
<1>8. ASSUME NEW t \in Treatment, TreatmentStep(t)
      PROVE  ctl' = ctl
  BY <1>8 DEF TreatmentStep, ValidateTreatment, CommitTreatment, CompleteTreatment,
              CancelTreatment
<1>9. ~UNCHANGED vars
  BY DEF vars
<1>10. CASE \E q \in Objective : ControlStep(q)
  BY <1>2, <1>3, <1>10
<1> QED
  BY <1>4, <1>5, <1>6, <1>7, <1>8, <1>9, <1>10 DEF Next

LEMMA FreezingReports ==
  ASSUME NEW x \in RiskRecord, Sound(x)
  PROVE  /\ Frozen(x).residual_score_locked
         /\ Frozen(x).control_change_flag = "Control_Failure"
         /\ Reported(Frozen(x)) = x.inherent
<1> DEFINE l == LockResidual(x)
<1>1. l \in RiskRecord /\ l.residual_score_locked /\ l.inherent = x.inherent
  BY DEF LockResidual, RiskRecord
<1>2. Frozen(x) = [l EXCEPT !.control_change_flag = "Control_Failure"]
  BY DEF Frozen
<1> HIDE DEF l
<1> QED
  BY <1>1, <1>2 DEF RiskRecord, Reported

\* CINV-5.  A failing objective locks, flags and returns to its inherent
\* score every open risk linked to it, in the same step.
THEOREM FailuresFreeze == Spec => FailureFreezes
<1>1. ASSUME IInv, [Next]_vars, NEW o \in Objective, NEW r \in Risk,
             ctl[o].lifecycle_state # "Failure", ctl'[o].lifecycle_state = "Failure",
             o \in clinks[r], risk[r].lifecycle_state # "Closed"
      PROVE  /\ risk'[r].residual_score_locked
             /\ risk'[r].control_change_flag = "Control_Failure"
             /\ Reported(risk'[r]) = risk[r].inherent
  <2>1. PICK c \in Ceilings \cup {NoCE}, a \in BOOLEAN : ControlFailed(o, c, a)
    BY <1>1, OnlyFailureFails
  <2>2. Reached(r, {o})
    BY <1>1 DEF Reached
  <2>3. risk'[r] = Frozen(risk[r])
    BY <2>1, <2>2 DEF ControlFailed, Cascade
  <2>4. risk[r] \in RiskRecord /\ Sound(risk[r])
    BY <1>1 DEF IInv, TypeOK
  <2> QED
    BY <2>3, <2>4, FreezingReports
<1>2. IInv /\ [Next]_vars =>
        [\A o \in Objective, r \in Risk :
           /\ ctl[o].lifecycle_state # "Failure" /\ ctl'[o].lifecycle_state = "Failure"
           /\ o \in clinks[r] /\ risk[r].lifecycle_state # "Closed"
           => /\ risk'[r].residual_score_locked
              /\ risk'[r].control_change_flag = "Control_Failure"
              /\ Reported(risk'[r]) = risk[r].inherent]_vars
  BY <1>1
<1> QED
  BY <1>2, Inductive, PTL DEF Spec, FailureFreezes

-----------------------------------------------------------------------------
(* Reported scores.  A step that is not a scoring of the inherent score    *)
(* leaves what the risk reports, records a justified residual, or discards *)
(* the residual: nothing unlocked carries an old figure, because locking   *)
(* discards it.                                                            *)

Same(x, y) ==
  /\ y.inherent = x.inherent
  /\ y.residual = x.residual
  /\ y.residual_score_locked = x.residual_score_locked

Discarded(x, y) ==
  y.inherent = x.inherent /\ y.residual_score_locked /\ y.residual = NoScore

Explains(x, y, cl) ==
  \/ Reported(y) = Reported(x)
  \/ x.lifecycle_state = "Scoring"
  \/ /\ ~x.residual_score_locked
     /\ y.residual \notin {x.residual, NoScore}
     /\ RINV9(y, cl)
  \/ ~x.residual_score_locked /\ y.residual_score_locked /\ Reported(y) = x.inherent

LEMMA SameExplains ==
  ASSUME NEW x, NEW y, NEW cl, Same(x, y)
  PROVE  Explains(x, y, cl)
  BY DEF Same, Explains, Reported

LEMMA DiscardExplains ==
  ASSUME NEW x, NEW y, NEW cl, x.residual_score_locked \in BOOLEAN, Discarded(x, y)
  PROVE  Explains(x, y, cl)
<1>1. Reported(y) = x.inherent
  BY DEF Discarded, Reported
<1>2. CASE x.residual_score_locked
  BY <1>1, <1>2 DEF Explains, Reported
<1>3. CASE ~x.residual_score_locked
  BY <1>1, <1>3 DEF Explains, Discarded
<1> QED
  BY <1>2, <1>3

LEMMA CascadesDiscard ==
  ASSUME NEW x \in RiskRecord, Sound(x)
  PROVE  /\ Discarded(x, LockResidual(x))
         /\ Discarded(x, Frozen(x))
         /\ Discarded(x, Degraded(x))
         /\ Same(x, Improved(x))
         /\ Same(x, Recovering(x))
         /\ Same(x, Flagged("Control_Changed", x))
         /\ Discarded(x, OpenNewCycle(x))
<1> DEFINE l == LockResidual(x)
<1>1. l \in RiskRecord /\ l.inherent = x.inherent /\ l.residual_score_locked
      /\ l.residual = NoScore
  BY DEF LockResidual, RiskRecord, Sound
<1>2. Same(x, Improved(x)) /\ Same(x, Recovering(x)) /\ Same(x, Flagged("Control_Changed", x))
  BY DEF Same, Improved, Recovering, Flagged, RiskRecord
<1> HIDE DEF l
<1>3. ASSUME NEW f
      PROVE  Discarded(x, [l EXCEPT !.control_change_flag = f])
  BY <1>1 DEF Discarded, RiskRecord
<1>4. Discarded(x, [l EXCEPT
                      !.lifecycle_state = "Preconditions", !.reassessed = TRUE,
                      !.treatment_strategy = NoStrategy, !.acceptance_expiry_date = NoDate,
                      !.inherent_locked = FALSE, !.gates = {}, !.readout_confirmed = FALSE])
  BY <1>1 DEF Discarded, RiskRecord
<1> QED
  BY <1>1, <1>2, <1>3, <1>4 DEF Discarded, Frozen, Degraded, OpenNewCycle, l

LEMMA StoreExplained ==
  ASSUME IInv, NEW q \in Risk, NEW r \in Risk, NEW y, Store(q, y),
         Explains(risk[q], y, clinks[q])
  PROVE  Explains(risk[r], risk'[r], clinks[r])
<1>1. CASE q = r
  BY <1>1 DEF Store, IInv, TypeOK
<1>2. CASE q # r
  <2>1. risk'[r] = risk[r]
    BY <1>2 DEF Store, IInv, TypeOK
  <2> QED
    BY <2>1, SameExplains DEF Same
<1> QED
  BY <1>1, <1>2

LEMMA TransitionExplained ==
  ASSUME IInv, NEW q \in Risk, Transition(q), NEW r \in Risk
  PROVE  Explains(risk[r], risk'[r], clinks[r])
<1> DEFINE x == risk[q]
<1>0. x \in RiskRecord /\ Sound(x) /\ risk \in [Risk -> RiskRecord]
  BY DEF IInv, TypeOK
<1>1. ASSUME NEW y, Store(q, y), Same(x, y)
      PROVE  Explains(risk[r], risk'[r], clinks[r])
  BY <1>1, StoreExplained, SameExplains
<1>2. CASE Admit(q) \/ StartScoring(q) \/ FreezeScore(q) \/ QueueForReadout(q)
           \/ CompleteReadout(q)
  BY <1>0, <1>1, <1>2 DEF Admit, StartScoring, FreezeScore, QueueForReadout,
                          CompleteReadout, RiskRecord, Same
<1>3. CASE StartMonitoring(q)
  <2> DEFINE y == [x EXCEPT !.lifecycle_state = "Monitoring",
                            !.residual_score_locked = FALSE,
                            !.control_change_flag = "None"]
  <2>1. Store(q, y) /\ ~x.residual_score_locked
    BY <1>3 DEF StartMonitoring
  <2>2. Same(x, y)
    BY <1>0, <2>1 DEF Same, RiskRecord
  <2> QED
    BY <1>1, <2>1, <2>2
<1>4. CASE Reassess(q) \/ Reopen(q)
  <2>1. Explains(x, OpenNewCycle(x), clinks[q])
    BY <1>0, CascadesDiscard, DiscardExplains DEF RiskRecord
  <2> QED
    BY <1>4, <2>1, StoreExplained DEF Reassess, Reopen
<1>5. CASE Close(q)
  <2> DEFINE z == [x EXCEPT !.lifecycle_state = "Closed", !.escalation_flag = FALSE]
  <2>1. risk' = [risk EXCEPT ![q] = z]
    BY <1>5 DEF Close
  <2>2. Same(x, z)
    BY <1>0 DEF Same, RiskRecord
  <2> HIDE DEF z
  <2> QED
    BY <1>0, <2>1, <2>2, SameExplains DEF Same
<1> QED
  BY <1>2, <1>3, <1>4, <1>5 DEF Transition

LEMMA OperationExplained ==
  ASSUME IInv, NEW q \in Risk, Operation(q), NEW r \in Risk
  PROVE  Explains(risk[r], risk'[r], clinks[r])
<1> DEFINE x == risk[q]
<1>0. /\ x \in RiskRecord /\ Sound(x) /\ risk \in [Risk -> RiskRecord]
      /\ Explains(risk[r], risk[r], clinks[r])
  BY SameExplains DEF IInv, TypeOK, Same
<1>1. ASSUME NEW y, Store(q, y), Same(x, y)
      PROVE  Explains(risk[r], risk'[r], clinks[r])
  BY <1>1, StoreExplained, SameExplains
<1>2. ASSUME NEW sc \in RecordedScores, ScoreInherent(q, sc)
      PROVE  Explains(risk[r], risk'[r], clinks[r])
  <2>1. x.lifecycle_state = "Scoring"
    BY <1>0, <1>2 DEF ScoreInherent, Sound, PastScoring, Phase, PhaseNumber, RiskRecord,
                      RiskStates
  <2> QED
    BY <1>2, <2>1, StoreExplained DEF ScoreInherent, Explains
<1>3. ASSUME NEW sc \in RecordedScores, ScoreResidual(q, sc)
      PROVE  Explains(risk[r], risk'[r], clinks[r])
  <2> DEFINE y == [x EXCEPT !.residual = sc]
  <2>1. Store(q, y) /\ ~x.residual_score_locked /\ RINV9(y, clinks[q])
    BY <1>3 DEF ScoreResidual, Store, Enforced
  <2>2. /\ y.residual = sc /\ y.inherent = x.inherent
        /\ y.residual_score_locked = x.residual_score_locked
    BY <1>0 DEF RiskRecord
  <2> HIDE DEF y
  <2>3. CASE sc = x.residual
    BY <1>1, <2>1, <2>2, <2>3 DEF Same
  <2>4. CASE sc # x.residual
    <3>1. Explains(x, y, clinks[q])
      BY <2>1, <2>2, <2>4, RecordedScoreIsAScore DEF Explains
    <3> QED
      BY <2>1, <3>1, StoreExplained
  <2> QED
    BY <2>3, <2>4
<1>4. CASE ReleaseResidualLock(q)
  <2> DEFINE y == [x EXCEPT !.residual_score_locked = FALSE]
  <2>1. risk' = [risk EXCEPT ![q] = y]
    BY <1>4 DEF ReleaseResidualLock
  <2>2. y.inherent = x.inherent /\ y.residual = x.residual
    BY <1>0 DEF RiskRecord
  <2>3. Reported(y) = Reported(x)
    BY <1>0, <2>2 DEF Reported, Sound, RiskRecord
  <2> HIDE DEF y
  <2> QED
    BY <1>0, <2>1, <2>3 DEF Explains
<1>5. ASSUME NEW s \in Strategies, DecideTreatment(q, s)
      PROVE  Explains(risk[r], risk'[r], clinks[r])
  BY <1>0, <1>1, <1>5 DEF DecideTreatment, RiskRecord, Same
<1>6. ASSUME NEW d \in 0..MaxDay, AcceptRisk(q, d)
      PROVE  Explains(risk[r], risk'[r], clinks[r])
  <2> DEFINE y == [x EXCEPT !.treatment_strategy = "Accept", !.acceptance_expiry_date = d]
  <2>1. Store(q, y) /\ Same(x, y)
    BY <1>0, <1>6 DEF AcceptRisk, RiskRecord, Same
  <2> QED
    BY <1>1, <2>1
<1>7. ASSUME NEW g \in SUBSET GateFlags, NEW c \in BOOLEAN, NEW e \in BOOLEAN,
             NEW p \in Staffing, UpdateRisk(q, g, c, e, p)
      PROVE  Explains(risk[r], risk'[r], clinks[r])
  BY <1>0, <1>1, <1>7 DEF UpdateRisk, RiskRecord, Same
<1>8. ASSUME NEW o \in Objective, LinkControl(q, o) \/ UnlinkControl(q, o)
      PROVE  Explains(risk[r], risk'[r], clinks[r])
  BY <1>0, <1>8 DEF LinkControl, UnlinkControl
<1>9. ASSUME NEW t \in Treatment, LinkTreatment(q, t)
      PROVE  Explains(risk[r], risk'[r], clinks[r])
  BY <1>0, <1>9 DEF LinkTreatment
<1>10. CASE ElsewhereFlagged(q)
  <2>1. risk' = [risk EXCEPT ![q] = Improved(x)]
    BY <1>10 DEF ElsewhereFlagged
  <2> QED
    BY <1>0, <2>1, CascadesDiscard, SameExplains
<1>11. CASE StandingChanges(q)
  <2> PICK p \in Staffing : risk' = [risk EXCEPT ![q] = [x EXCEPT !.people = p]]
    BY <1>11, StandingWrites DEF IInv, TypeOK
  <2>1. Same(x, [x EXCEPT !.people = p])
    BY <1>0 DEF Same, RiskRecord
  <2> QED
    BY <1>0, <2>1, SameExplains
<1> QED
  BY <1>2, <1>3, <1>4, <1>5, <1>6, <1>7, <1>8, <1>9, <1>10, <1>11 DEF Operation, AcceptanceDates

\* What the steps of the other modules do to a record, they do by these.
LEMMA CascadeExplained ==
  ASSUME IInv, NEW r \in Risk,
         NEW y \in {risk[r], LockResidual(risk[r]), Frozen(risk[r]), Degraded(risk[r]),
                    Improved(risk[r]), Recovering(risk[r]),
                    Flagged("Control_Changed", risk[r])}
  PROVE  Explains(risk[r], y, clinks[r])
<1>1. risk[r] \in RiskRecord /\ Sound(risk[r])
  BY DEF IInv, TypeOK
<1>2. risk[r].residual_score_locked \in BOOLEAN /\ Same(risk[r], risk[r])
  BY <1>1 DEF RiskRecord, Same
<1>3. Same(risk[r], y) \/ Discarded(risk[r], y)
  BY <1>1, <1>2, CascadesDiscard
<1> QED
  BY <1>2, <1>3, SameExplains, DiscardExplains

LEMMA JobsExplained ==
  ASSUME IInv, Jobs, NEW r \in Risk
  PROVE  Explains(risk[r], risk'[r], clinks[r])
<1> PICK expired \in SUBSET Objective, escalated \in SUBSET Objective :
      \E u \in SUBSET expired : RunJobs(expired, u, escalated)
  BY DEF Jobs
<1> DEFINE x == risk[r]
           due == IF Reached(r, expired) THEN Degraded(x) ELSE x
           B == clinks[r] \cap escalated # {}
<1>1. risk'[r] = [EscalateAcceptance(due) EXCEPT !.escalation_flag = @ \/ B]
  BY DEF RunJobs
<1>2. /\ x \in RiskRecord /\ x.residual_score_locked \in BOOLEAN
      /\ due \in RiskRecord /\ Sound(due) /\ (Same(x, due) \/ Discarded(x, due))
  <2>1. x \in RiskRecord /\ Sound(x)
    BY DEF IInv, TypeOK
  <2>2. x.residual_score_locked \in BOOLEAN /\ Same(x, x)
    BY <2>1 DEF RiskRecord, Same
  <2> QED
    BY <2>1, <2>2, CascadesAreSound, CascadesDiscard
<1> HIDE DEF due
<1>3. EscalateAcceptance(due) \in RiskRecord
      /\ (Same(due, EscalateAcceptance(due)) \/ Discarded(due, EscalateAcceptance(due)))
  <2>1. EscalateAcceptance(due) \in RiskRecord
    BY <1>2, EscalationIsSound
  <2>2. LockResidual(due) \in RiskRecord /\ Discarded(due, LockResidual(due))
    BY <1>2, LockingIsSound, CascadesDiscard
  <2>3. ASSUME NEW y \in RiskRecord
        PROVE  Same(y, [y EXCEPT !.escalation_flag = TRUE,
                                 !.acceptance_reassessment_count = @ + 1])
    BY DEF Same, RiskRecord
  <2> QED
    BY <2>1, <2>2, <2>3 DEF EscalateAcceptance, Same, Discarded
<1> DEFINE e == EscalateAcceptance(due)
<1>4. Same(e, [e EXCEPT !.escalation_flag = @ \/ B])
  BY <1>3 DEF Same, RiskRecord
<1>5. Same(x, risk'[r]) \/ Discarded(x, risk'[r])
  BY <1>1, <1>2, <1>3, <1>4 DEF Same, Discarded
<1> QED
  BY <1>2, <1>5, SameExplains, DiscardExplains

LEMMA EveryStepExplained ==
  ASSUME IInv, [Next]_vars, NEW r \in Risk
  PROVE  Explains(risk[r], risk'[r], clinks[r])
<1>0. /\ Explains(risk[r], risk[r], clinks[r])
      /\ Explains(risk[r], LockResidual(risk[r]), clinks[r])
      /\ Explains(risk[r], Frozen(risk[r]), clinks[r])
      /\ Explains(risk[r], Degraded(risk[r]), clinks[r])
      /\ Explains(risk[r], Improved(risk[r]), clinks[r])
      /\ Explains(risk[r], Recovering(risk[r]), clinks[r])
      /\ Explains(risk[r], Flagged("Control_Changed", risk[r]), clinks[r])
  BY CascadeExplained
<1>1. ASSUME NEW o \in Objective, ControlStep(o)
      PROVE  Explains(risk[r], risk'[r], clinks[r])
  BY <1>0, <1>1 DEF ControlStep, ControlOperating, ControlFailed, ControlRecovered,
                    ControlRedesigned, ControlDeprecated, DeploymentDegraded,
                    DeploymentRestored, ControlDrifts, Cascade
<1>2. ASSUME NEW t \in Treatment, TreatmentStep(t)
      PROVE  Explains(risk[r], risk'[r], clinks[r])
  BY <1>0, <1>2 DEF TreatmentStep, ValidateTreatment, CommitTreatment, CompleteTreatment,
                    CancelTreatment
<1>3. CASE Tick \/ UNCHANGED vars
  BY <1>0, <1>3 DEF Tick, vars
<1> QED
  BY <1>1, <1>2, <1>3, TransitionExplained, OperationExplained, JobsExplained DEF Next

\* RES-2.  A risk looks better only for a score taken in Scoring, a justified
\* residual, or the discarding of a residual.
THEOREM ReportedFallsAreEarned == Spec => ReportedFallsOnlyWhenScored
<1>1. ASSUME NEW x \in RiskRecord
      PROVE  Magnitude(Reported(x)) \in Int
  <2>1. Reported(x) \in RecordedScores \cup {NoScore}
    BY <1>1 DEF Reported, RiskRecord
  <2>2. ASSUME NEW sc \in RecordedScores \cup {NoScore}
        PROVE  sc.impact \in Int /\ sc.likelihood \in Int
    <3>1. CASE sc \in RecordedScores
      <4>1. sc.impact \in Impacts /\ sc.likelihood \in Likelihoods
        BY <3>1 DEF RecordedScores
      <4>2. Impacts \subseteq Int /\ Likelihoods \subseteq Int
        BY RiskAssumption DEF Axis
      <4> QED
        BY <4>1, <4>2
    <3>2. CASE sc = NoScore
      BY <3>2 DEF NoScore
    <3> QED
      BY <3>1, <3>2
  <2> QED
    BY <2>1, <2>2 DEF Magnitude
<1>2. ASSUME IInv, [Next]_vars, NEW r \in Risk,
             Magnitude(Reported(risk'[r])) < Magnitude(Reported(risk[r]))
      PROVE  \/ risk[r].lifecycle_state = "Scoring"
             \/ /\ ~risk[r].residual_score_locked
                /\ risk'[r].residual \notin {risk[r].residual, NoScore}
                /\ RINV9(risk'[r], clinks[r])
             \/ ~risk[r].residual_score_locked /\ risk'[r].residual_score_locked
                /\ Reported(risk'[r]) = risk[r].inherent
  <2>1. Magnitude(Reported(risk[r])) \in Int
    BY <1>1, <1>2 DEF IInv, TypeOK
  <2>2. Reported(risk'[r]) # Reported(risk[r])
    BY <1>2, <2>1
  <2> QED
    BY <1>2, <2>2, EveryStepExplained DEF Explains
<1>3. IInv /\ [Next]_vars =>
        [\A r \in Risk :
           Magnitude(Reported(risk'[r])) < Magnitude(Reported(risk[r])) =>
             \/ risk[r].lifecycle_state = "Scoring"
             \/ /\ ~risk[r].residual_score_locked
                /\ risk'[r].residual \notin {risk[r].residual, NoScore}
                /\ RINV9(risk'[r], clinks[r])
             \/ ~risk[r].residual_score_locked /\ risk'[r].residual_score_locked
                /\ Reported(risk'[r]) = risk[r].inherent]_vars
  BY <1>2
<1> QED
  BY <1>3, Inductive, PTL DEF Spec, ReportedFallsOnlyWhenScored

=============================================================================
