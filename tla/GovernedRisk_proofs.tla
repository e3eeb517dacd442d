-------------------------- MODULE GovernedRisk_proofs --------------------------
(***************************************************************************)
(* The register with real controls implements the register of the module   *)
(* RiskLifecycle, for any number of risks, objectives, activities and      *)
(* deployments; hence what is proved of either half holds of the whole.    *)
(***************************************************************************)
EXTENDS GovernedRisk, TLAPS

\* The proved facts about the two halves.
CLP == INSTANCE ControlLifecycle_proofs

RLP == INSTANCE RiskLifecycle_proofs WITH ctl <- View, Ceilings <- CEReductions

LEMMA ControlsAssumed == CLP!ControlAssumption
  BY GovernedAssumption
  DEF CL!ControlAssumption, CLP!ControlAssumption, CL!CERatings, CLP!CERatings

LEMMA RisksAssumed == RLP!RiskAssumption
  BY GovernedAssumption
  DEF RL!RiskAssumption, RLP!RiskAssumption, RL!Axis, RLP!Axis, RL!Ratings, RLP!Ratings,
      RL!CEReductions, RLP!CEReductions, RL!AllStrategies, RLP!AllStrategies,
      RL!People, RLP!People

-----------------------------------------------------------------------------
(* The proof modules speak of their own instances of the same definitions. *)

LEMMA SameObjectiveSteps ==
  ASSUME NEW o \in Objective, CL!ObjectiveStep(o)
  PROVE  CLP!ObjectiveStep(o)
  BY DEF CL!ObjectiveStep, CLP!ObjectiveStep, CL!Implement, CLP!Implement, CL!Operate,
         CLP!Operate, CL!Fail, CLP!Fail, CL!Recover, CLP!Recover, CL!Redesign, CLP!Redesign,
         CL!Rebuild, CLP!Rebuild, CL!Deprecate, CLP!Deprecate, CL!UpdateObjective,
         CLP!UpdateObjective, CL!MoveObjective, CLP!MoveObjective, CL!Declared, CLP!Declared,
         CL!Operational, CLP!Operational, CL!Evidenced, CLP!Evidenced, CL!Rated, CLP!Rated,
         CL!ActivitiesOf, CLP!ActivitiesOf, CL!DeploymentsOf, CLP!DeploymentsOf,
         CL!Parent, CLP!Parent, CL!Emit, CLP!Emit, CL!Quiet, CLP!Quiet, CL!Silent, CLP!Silent,
         CL!RisksFollow, CLP!RisksFollow, CL!NoDate, CLP!NoDate

LEMMA SameActivitySteps ==
  ASSUME NEW a \in Activity, CL!ActivityStep(a)
  PROVE  CLP!ActivityStep(a)
  BY DEF CL!ActivityStep, CLP!ActivityStep, CL!CreateActivity, CLP!CreateActivity,
         CL!ActivateActivity, CLP!ActivateActivity, CL!SuspendActivity, CLP!SuspendActivity,
         CL!RetireActivity, CLP!RetireActivity, CL!MoveActivity, CLP!MoveActivity,
         CL!Quiet, CLP!Quiet, CL!Silent, CLP!Silent, CL!RisksFollow, CLP!RisksFollow

LEMMA SameDeploymentSteps ==
  ASSUME NEW d \in Deployment, CL!DeploymentStep(d)
  PROVE  CLP!DeploymentStep(d)
  BY DEF CL!DeploymentStep, CLP!DeploymentStep, CL!CreateDeployment, CLP!CreateDeployment,
         CL!Activate, CLP!Activate, CL!Degrade, CLP!Degrade, CL!FailDeployment,
         CLP!FailDeployment, CL!Restore, CLP!Restore, CL!Remediate, CLP!Remediate,
         CL!Decommission, CLP!Decommission, CL!AssessCE, CLP!AssessCE, CL!FailingTest,
         CLP!FailingTest, CL!FailingTestElsewhere, CLP!FailingTestElsewhere,
         CL!UpdateDeployment, CLP!UpdateDeployment, CL!MoveDeployment, CLP!MoveDeployment,
         CL!StoreDeployment, CLP!StoreDeployment, CL!FailurePropagates,
         CLP!FailurePropagates, CL!AnnounceAssessed, CLP!AnnounceAssessed, CL!Declared,
         CLP!Declared, CL!Enforced, CLP!Enforced, CL!CINV1, CLP!CINV1, CL!CINV10, CLP!CINV10,
         CL!CINV11, CLP!CINV11, CL!Rank, CLP!Rank, CL!Rated, CLP!Rated, CL!Expired,
         CLP!Expired, CL!InService, CLP!InService, CL!Assessable, CLP!Assessable,
         CL!Strength, CLP!Strength, CL!CEMaxLikelihoodReduction,
         CLP!CEMaxLikelihoodReduction, CL!Parent, CLP!Parent, CL!Emit, CLP!Emit, CL!Quiet,
         CLP!Quiet, CL!Silent, CLP!Silent, CL!RisksFollow, CLP!RisksFollow, CL!NoDate,
         CLP!NoDate, CL!DeploymentStates, CLP!DeploymentStates

LEMMA SameCalendar ==
  /\ CL!Tick => CLP!Tick
  /\ CL!Jobs => CLP!Jobs
  BY DEF CL!Tick, CLP!Tick, CL!Jobs, CLP!Jobs, CL!Due, CLP!Due, CL!Rated, CLP!Rated,
         CL!InService, CLP!InService, CL!Expired, CLP!Expired, CL!NoDate, CLP!NoDate,
         CL!Parent, CLP!Parent, CL!Quiet, CLP!Quiet, CL!Silent, CLP!Silent,
         CL!RisksFollow, CLP!RisksFollow

LEMMA SameInit == CL!Init => CLP!Init
  BY DEF CL!Init, CLP!Init, CL!Silent, CLP!Silent, CL!NoDate, CLP!NoDate

LEMMA SameTransitions ==
  ASSUME NEW r \in Risk, RL!Transition(r)
  PROVE  RLP!Transition(r)
  BY DEF RL!RINV10, RLP!RINV10, RL!NobodyOffends, RLP!NobodyOffends,
      RL!Transition, RLP!Transition, RL!Admit, RLP!Admit, RL!StartScoring,
      RLP!StartScoring, RL!FreezeScore, RLP!FreezeScore, RL!QueueForReadout,
      RLP!QueueForReadout, RL!CompleteReadout, RLP!CompleteReadout, RL!StartMonitoring,
      RLP!StartMonitoring, RL!Reassess, RLP!Reassess, RL!Close, RLP!Close, RL!Reopen,
      RLP!Reopen, RL!ResidualGate, RLP!ResidualGate, RL!Complete, RLP!Complete,
      RL!NoOpenFailure, RLP!NoOpenFailure, RL!OpenNewCycle, RLP!OpenNewCycle,
      RL!LockResidual, RLP!LockResidual, RL!NoStrategy, RLP!NoStrategy,
      RL!AboveAppetite, RLP!AboveAppetite, RL!ReportedRating, RLP!ReportedRating,
      RL!Reported, RLP!Reported, RL!Store, RLP!Store, RL!Enforced, RLP!Enforced,
      RL!RINV1, RLP!RINV1, RL!RINV4, RLP!RINV4, RL!RINV5, RLP!RINV5, RL!RINV6,
      RLP!RINV6, RL!RINV8, RLP!RINV8, RL!RINV9, RLP!RINV9, RL!RINV11, RLP!RINV11,
      RL!RINV12, RLP!RINV12, RL!Accepted, RLP!Accepted, RL!Lapsed, RLP!Lapsed,
      RL!Phase, RLP!Phase, RL!PhaseNumber, RLP!PhaseNumber, RL!RatingOf, RLP!RatingOf,
      RL!RatingFor, RLP!RatingFor, RL!Magnitude, RLP!Magnitude,
      RL!ValidResidualLikelihood, RLP!ValidResidualLikelihood, RL!Ceiling, RLP!Ceiling,
      RL!Contributing, RLP!Contributing, RL!WorstCase, RLP!WorstCase, RL!Validated,
      RLP!Validated, RL!Committed, RLP!Committed, RL!NoScore, RLP!NoScore, RL!NoDate,
      RLP!NoDate, RL!NoCE, RLP!NoCE, RL!Ratings, RLP!Ratings

LEMMA SameOperations ==
  ASSUME NEW r \in Risk, RL!Operation(r)
  PROVE  RLP!Operation(r)
  BY DEF RL!RINV10, RLP!RINV10, RL!NobodyOffends, RLP!NobodyOffends,
      RL!StandingChanges, RLP!StandingChanges,
      RL!Operation, RLP!Operation, RL!AcceptanceDates,
      RLP!AcceptanceDates, RL!ScoreInherent, RLP!ScoreInherent,
      RL!ScoreResidual, RLP!ScoreResidual, RL!ReleaseResidualLock,
      RLP!ReleaseResidualLock, RL!DecideTreatment, RLP!DecideTreatment, RL!AcceptRisk,
      RLP!AcceptRisk, RL!UpdateRisk, RLP!UpdateRisk, RL!LinkControl, RLP!LinkControl,
      RL!UnlinkControl, RLP!UnlinkControl, RL!LinkTreatment, RLP!LinkTreatment,
      RL!ElsewhereFlagged, RLP!ElsewhereFlagged, RL!ResidualGate, RLP!ResidualGate,
      RL!Complete, RLP!Complete, RL!NoOpenFailure, RLP!NoOpenFailure, RL!Improved,
      RLP!Improved, RL!Flagged, RLP!Flagged, RL!RecordedScores, RLP!RecordedScores,
      RL!Acceptable, RLP!Acceptable, RL!Store, RLP!Store, RL!Enforced, RLP!Enforced,
      RL!RINV1, RLP!RINV1, RL!RINV4, RLP!RINV4, RL!RINV5, RLP!RINV5, RL!RINV6,
      RLP!RINV6, RL!RINV8, RLP!RINV8, RL!RINV9, RLP!RINV9, RL!RINV11, RLP!RINV11,
      RL!RINV12, RLP!RINV12, RL!Accepted, RLP!Accepted, RL!Lapsed, RLP!Lapsed,
      RL!Phase, RLP!Phase, RL!PhaseNumber, RLP!PhaseNumber, RL!RatingOf, RLP!RatingOf,
      RL!RatingFor, RLP!RatingFor, RL!Magnitude, RLP!Magnitude,
      RL!ValidResidualLikelihood, RLP!ValidResidualLikelihood, RL!Ceiling, RLP!Ceiling,
      RL!Contributing, RLP!Contributing, RL!WorstCase, RLP!WorstCase, RL!Validated,
      RLP!Validated, RL!Committed, RLP!Committed, RL!NoScore, RLP!NoScore, RL!NoDate,
      RLP!NoDate, RL!NoCE, RLP!NoCE, RL!Ratings, RLP!Ratings

LEMMA SameControlSteps ==
  ASSUME NEW o \in Objective, RL!ControlStep(o)
  PROVE  RLP!ControlStep(o)
  BY DEF RL!ControlStep, RLP!ControlStep, RL!ControlFailed, RLP!ControlFailed,
      RL!ControlRecovered, RLP!ControlRecovered, RL!ControlOperating,
      RLP!ControlOperating, RL!ControlRedesigned, RLP!ControlRedesigned,
      RL!ControlDeprecated, RLP!ControlDeprecated, RL!DeploymentDegraded,
      RLP!DeploymentDegraded, RL!DeploymentRestored, RLP!DeploymentRestored,
      RL!ControlDrifts, RLP!ControlDrifts, RL!ObjectiveMoves, RLP!ObjectiveMoves,
      RL!Cascade, RLP!Cascade, RL!Reached, RLP!Reached, RL!Frozen, RLP!Frozen,
      RL!Degraded, RLP!Degraded, RL!Improved, RLP!Improved, RL!Recovering,
      RLP!Recovering, RL!Flagged, RLP!Flagged, RL!LockResidual, RLP!LockResidual,
      RL!AboveAppetite, RLP!AboveAppetite, RL!ReportedRating, RLP!ReportedRating,
      RL!Reported, RLP!Reported, RL!RatingOf, RLP!RatingOf, RL!RatingFor,
      RLP!RatingFor, RL!Magnitude, RLP!Magnitude, RL!NoScore, RLP!NoScore, RL!NoCE,
      RLP!NoCE

LEMMA SameTreatmentSteps ==
  ASSUME NEW t \in Treatment, RL!TreatmentStep(t)
  PROVE  RLP!TreatmentStep(t)
  BY DEF RL!TreatmentStep, RLP!TreatmentStep, RL!ValidateTreatment, RLP!ValidateTreatment,
      RL!CommitTreatment, RLP!CommitTreatment, RL!CompleteTreatment,
      RLP!CompleteTreatment, RL!CancelTreatment, RLP!CancelTreatment, RL!LockResidual,
      RLP!LockResidual, RL!NoScore, RLP!NoScore

LEMMA SameRiskCalendar ==
  /\ RL!Tick => RLP!Tick
  /\ RL!Jobs => RLP!Jobs
  BY DEF RL!Tick, RLP!Tick, RL!Jobs, RLP!Jobs, RL!RunJobs, RLP!RunJobs, RL!Reached,
      RLP!Reached, RL!Degraded, RLP!Degraded, RL!LockResidual, RLP!LockResidual,
      RL!EscalateAcceptance, RLP!EscalateAcceptance, RL!Lapsed, RLP!Lapsed,
      RL!Accepted, RLP!Accepted, RL!NoDate, RLP!NoDate, RL!NoScore, RLP!NoScore,
      RL!NoCE, RLP!NoCE

LEMMA SameRiskInit == RL!Init => RLP!Init
  BY DEF RL!Init, RLP!Init, RL!NewRecord, RLP!NewRecord, RL!NoScore, RLP!NoScore,
      RL!NoStrategy, RLP!NoStrategy, RL!NoDate, RLP!NoDate, RL!NoCE, RLP!NoCE

-----------------------------------------------------------------------------
(* What the composition keeps of the library: the risks keep their account *)
(* of the objectives they block, and every step is one the library allows. *)

LibraryInv == CLP!IInv /\ blocking = Blocked

LEMMA LibraryInit == Init => LibraryInv
<1> SUFFICES ASSUME Init PROVE LibraryInv
  OBVIOUS
<1>1. CLP!IInv
  BY ControlsAssumed, CLP!InitIsSound, SameInit DEF Init
<1>2. blocking = {} /\ clinks = [r \in Risk |-> {}]
  BY DEF Init, CL!Init, RL!Init
<1>3. Blocked = {}
  BY <1>2 DEF Blocked, RL!Reached
<1> QED
  BY <1>1, <1>2, <1>3 DEF LibraryInv

LEMMA LibraryNext == [Next]_vars => [CLP!Next]_(CLP!vars)
<1> SUFFICES ASSUME [Next]_vars PROVE [CLP!Next]_(CLP!vars)
  OBVIOUS
<1>1. CASE ControlStep
  BY <1>1, SameObjectiveSteps, SameActivitySteps, SameDeploymentSteps
  DEF ControlStep, CLP!Next
<1>2. CASE RiskStep
  <2>1. UNCHANGED <<obj, act, dep, today>> /\ fired' = CL!Silent /\ blocking' = Blocked'
    BY <1>2 DEF RiskStep, controlVars
  <2>2. Blocked' \in SUBSET Objective
    BY DEF Blocked
  <2>3. CLP!RisksMove
    BY <2>1, <2>2 DEF CLP!RisksMove, CLP!RisksFollow, CLP!Quiet, CLP!Silent, CL!Silent
  <2> QED
    BY <2>3 DEF CLP!Next
<1>3. CASE Tick \/ Jobs
  BY <1>3, SameCalendar DEF Tick, Jobs, CLP!Next
<1>4. CASE UNCHANGED vars
  BY <1>4 DEF vars, CLP!vars
<1> QED
  BY <1>1, <1>2, <1>3, <1>4 DEF Next

LEMMA LibraryKept == LibraryInv /\ [Next]_vars => LibraryInv'
<1> SUFFICES ASSUME LibraryInv, [Next]_vars PROVE LibraryInv'
  OBVIOUS
<1>1. CLP!IInv'
  BY ControlsAssumed, CLP!Induction, LibraryNext DEF LibraryInv
<1>2. blocking' = Blocked'
  <2>1. CASE Next
    BY <2>1 DEF Next, ControlStep, RiskStep, Tick, Jobs
  <2>2. CASE UNCHANGED vars
    BY <2>2 DEF vars, LibraryInv, Blocked, RL!Reached, RL!ReportedRating, RL!Reported,
                RL!RatingOf, RL!RatingFor, RL!Magnitude, RL!NoScore, AboveAppetite
  <2> QED
    BY <2>1, <2>2
<1> QED
  BY <1>1, <1>2 DEF LibraryInv

\* What is used of it below, in the words of this module
LEMMA LibraryTypes ==
  ASSUME LibraryInv
  PROVE  /\ today \in Int
         /\ DOMAIN obj = Objective /\ DOMAIN dep = Deployment
         /\ obj = [o \in Objective |-> obj[o]] /\ dep = [d \in Deployment |-> dep[d]]
         /\ \A d \in Deployment : dep[d] \in CL!DeploymentRecord
         /\ \A o \in Objective : obj[o] \in CL!ObjectiveRecord
         /\ \A d \in Deployment : CL!Rated(dep[d]) => dep[d].evidence
<1>1. obj \in [Objective -> CLP!ObjectiveRecord] /\ dep \in [Deployment -> CLP!DeploymentRecord]
      /\ today \in 0..MaxDay
  BY DEF LibraryInv, CLP!IInv, CLP!TypeOK
<1>2. today \in Int
  BY <1>1, ControlsAssumed DEF CLP!ControlAssumption
<1>3. \A d \in Deployment : CL!Rated(dep[d]) => dep[d].evidence
  BY DEF LibraryInv, CLP!IInv, CLP!Honest, CLP!Rated, CL!Rated
<1>4. CLP!ObjectiveRecord = CL!ObjectiveRecord /\ CLP!DeploymentRecord = CL!DeploymentRecord
  BY DEF CLP!ObjectiveRecord, CL!ObjectiveRecord, CLP!DeploymentRecord, CL!DeploymentRecord,
         CLP!ObjectiveStates, CL!ObjectiveStates, CLP!DeploymentStates, CL!DeploymentStates,
         CLP!CERatings, CL!CERatings, CLP!NoDate, CL!NoDate
<1> QED
  BY <1>1, <1>2, <1>3, <1>4

LEMMA ParentsAreObjectives ==
  ASSUME NEW d \in Deployment
  PROVE  CL!Parent(d) \in Objective
  BY ControlsAssumed, CLP!Parents DEF CLP!Parent, CL!Parent

-----------------------------------------------------------------------------
(* The view of an objective                                                *)

LEMMA WorstCaseIsOne ==
  ASSUME NEW S \in SUBSET (0..2), S # {}
  PROVE  WorstCase(S) \in S
<1>1. \E c \in S : \A d \in S : c <= d
  <2>1. CASE 0 \in S
    BY <2>1
  <2>2. CASE 0 \notin S /\ 1 \in S
    BY <2>2
  <2>3. CASE 0 \notin S /\ 1 \notin S
    <3>1. \A n \in 0..2 : n \in {0, 1, 2}
      OBVIOUS
    <3>2. \A n \in S : n = 2
      BY <2>3, <3>1
    <3>3. PICK c \in S : TRUE
      OBVIOUS
    <3>4. \A d \in S : c <= d
      BY <3>2, <3>3
    <3> QED
      BY <3>4
  <2> QED
    BY <2>1, <2>2, <2>3
<1> QED
  BY <1>1 DEF WorstCase

LEMMA StrengthNeedsRating ==
  ASSUME NEW x
  PROVE  /\ CL!Strength(x) \in 0..2
         /\ CL!Strength(x) > 0 => CL!Rated(x)
  BY DEF CL!Strength, CL!CEMaxLikelihoodReduction, CL!Rated

\* A ceiling above zero rests on a rating with evidence.
LEMMA CeilingsAreEvidenced ==
  \A o \in Objective :
    /\ CeilingSeen(o) \in CEReductions \cup {NoCE}
    /\ CeilingSeen(o) > 0 => AssessedSeen(o)
    /\ AssessedSeen(o) \in BOOLEAN
<1> SUFFICES ASSUME NEW o \in Objective
             PROVE  /\ CeilingSeen(o) \in CEReductions \cup {NoCE}
                    /\ CeilingSeen(o) > 0 => AssessedSeen(o)
  BY DEF AssessedSeen
<1> DEFINE S == {CL!Strength(dep[d]) : d \in CL!CountedOf(o)}
<1>1. CASE CL!CountedOf(o) = {}
  <2>1. CeilingSeen(o) = -1
    BY <1>1 DEF CeilingSeen, NoCE
  <2>2. ~(-1 > 0)
    OBVIOUS
  <2> QED
    BY <2>1, <2>2 DEF NoCE
<1>2. CASE CL!CountedOf(o) # {}
  <2>1. S \in SUBSET (0..2) /\ S # {}
    BY <1>2, StrengthNeedsRating
  <2>2. CeilingSeen(o) = WorstCase(S)
    BY <1>2 DEF CeilingSeen
  <2>3. WorstCase(S) \in S
    BY <2>1, WorstCaseIsOne
  <2>4. PICK d \in CL!CountedOf(o) : CeilingSeen(o) = CL!Strength(dep[d])
    BY <2>2, <2>3
  <2>5. CL!Strength(dep[d]) > 0 => AssessedSeen(o)
    BY <2>4, StrengthNeedsRating DEF CL!CountedOf, CL!Counted, AssessedSeen
  <2> QED
    BY <2>1, <2>2, <2>3, <2>4, <2>5 DEF CEReductions
<1> QED
  BY <1>1, <1>2

LEMMA CeilingsStayEvidenced ==
  (\A o \in Objective :
     /\ CeilingSeen(o) \in CEReductions \cup {NoCE}
     /\ CeilingSeen(o) > 0 => AssessedSeen(o)
     /\ AssessedSeen(o) \in BOOLEAN)'
  BY CeilingsAreEvidenced, PTL

\* Deployments of other objectives, and other days, are all that may move
\* without moving what is counted of an objective.
LEMMA SameDeploymentsSameCount ==
  ASSUME NEW o \in Objective, today' = today,
         \A d \in Deployment : CL!Parent(d) = o => dep'[d] = dep[d]
  PROVE  CeilingSeen(o)' = CeilingSeen(o) /\ AssessedSeen(o)' = AssessedSeen(o)
<1>1. CL!DeploymentsOf(o)' = CL!DeploymentsOf(o)
  BY DEF CL!DeploymentsOf, CL!Parent
<1>2. \A d \in CL!DeploymentsOf(o) : dep'[d] = dep[d]
  BY DEF CL!DeploymentsOf
<1>3. CL!CountedOf(o)' = CL!CountedOf(o)
  BY <1>1, <1>2 DEF CL!CountedOf, CL!Counted, CL!InService, CL!Expired, CL!NoDate
<1>4. {CL!Strength(dep'[d]) : d \in CL!CountedOf(o)} = {CL!Strength(dep[d]) : d \in CL!CountedOf(o)}
  BY <1>2 DEF CL!CountedOf
<1>5. CeilingSeen(o)' = CeilingSeen(o)
  BY <1>3, <1>4 DEF CeilingSeen, CL!Strength, CL!CEMaxLikelihoodReduction
<1>6. AssessedSeen(o)' = AssessedSeen(o)
  BY <1>1, <1>2 DEF AssessedSeen, CL!Rated
<1> QED
  BY <1>5, <1>6

-----------------------------------------------------------------------------
(* What a control step shows the risks                                     *)

\* The invariant of the whole: the libraries' and the register's
GInv == LibraryInv /\ RLP!IInv

LEMMA RegisterTypes ==
  ASSUME GInv
  PROVE  /\ risk = [r \in Risk |-> risk[r]]
         /\ \A r \in Risk : clinks[r] \subseteq Objective
  BY DEF GInv, RLP!IInv, RLP!TypeOK

LEMMA ViewIsAFunction ==
  View = [o \in Objective |-> View[o]] /\ View' = [o \in Objective |-> View'[o]]
  BY DEF View

\* A step confined to one objective and its deployments moves one view.
LEMMA OneViewMoves ==
  ASSUME NEW o \in Objective, today' = today, UNCHANGED <<clinks, tlinks, trt>>,
         \A p \in Objective : p # o => obj'[p].lifecycle_state = obj[p].lifecycle_state,
         \A d \in Deployment : CL!Parent(d) # o => dep'[d] = dep[d]
  PROVE  \E c \in CEReductions \cup {NoCE}, a \in BOOLEAN :
           /\ c = CeilingSeen(o)' /\ a = AssessedSeen(o)'
           /\ RL!ObjectiveMoves(o, StateSeen(obj'[o].lifecycle_state), c, a)
<1>1. \A p \in Objective \ {o} : CeilingSeen(p)' = CeilingSeen(p) /\ AssessedSeen(p)' = AssessedSeen(p)
  <2> TAKE p \in Objective \ {o}
  <2>1. \A d \in Deployment : CL!Parent(d) = p => dep'[d] = dep[d]
    OBVIOUS
  <2> QED
    BY <2>1, SameDeploymentsSameCount
<1>2. PICK c \in CEReductions \cup {NoCE}, a \in BOOLEAN :
        c = CeilingSeen(o)' /\ a = AssessedSeen(o)' /\ (c > 0 => a)
  BY CeilingsStayEvidenced
<1>3. \A p \in Objective \ {o} : View'[p] = View[p]
  BY <1>1 DEF View, StateSeen
<1>4. View'[o] = [lifecycle_state |-> StateSeen(obj'[o].lifecycle_state),
                  ceiling |-> c, assessed |-> a]
  BY <1>2 DEF View, StateSeen
<1>5. View' = [View EXCEPT ![o] = View'[o]]
  BY <1>3, ViewIsAFunction
<1> QED
  BY <1>2, <1>4, <1>5 DEF RL!ObjectiveMoves

LEMMA SilentStepsMoveNoRisk ==
  ASSUME GInv, fired' = CL!Silent
  PROVE  [r \in Risk |-> Responses(r)] = risk
<1>1. \A r \in Risk : {o \in clinks[r] : fired'[o] # "none"} = {}
  BY RegisterTypes DEF CL!Silent
<1>2. \A r \in Risk : Responses(r) = risk[r]
  BY <1>1 DEF Responses
<1> QED
  BY <1>2, RegisterTypes

LEMMA EventsReachLinkedRisks ==
  ASSUME GInv, NEW o \in Objective, NEW e, e # "none", fired' = [CL!Silent EXCEPT ![o] = e],
         NEW r \in Risk
  PROVE  Responses(r) = IF RL!Reached(r, {o}) THEN Respond(e, risk[r]) ELSE risk[r]
<1> DEFINE sources == {p \in clinks[r] : fired'[p] # "none"}
<1>1. sources = clinks[r] \cap {o}
  BY RegisterTypes DEF CL!Silent
<1>2. fired'[o] = e
  BY DEF CL!Silent
<1>3. CASE risk[r].lifecycle_state = "Closed"
  BY <1>3 DEF Responses, RL!Reached
<1>4. CASE risk[r].lifecycle_state # "Closed" /\ o \notin clinks[r]
  BY <1>1, <1>4 DEF Responses, RL!Reached
<1>5. CASE risk[r].lifecycle_state # "Closed" /\ o \in clinks[r]
  <2>1. sources = {o}
    BY <1>1, <1>5
  <2>2. (CHOOSE p \in sources : TRUE) = o
    BY <2>1
  <2>3. Responses(r) = Respond(e, risk[r])
    BY <1>2, <1>5, <2>1, <2>2 DEF Responses
  <2>4. RL!Reached(r, {o})
    BY <1>5 DEF RL!Reached
  <2> QED
    BY <2>3, <2>4
<1> QED
  BY <1>3, <1>4, <1>5

LEMMA Cascades ==
  ASSUME GInv, NEW o \in Objective, NEW e, e # "none", fired' = [CL!Silent EXCEPT ![o] = e],
         risk' = [r \in Risk |-> Responses(r)]
  PROVE  risk' = [r \in Risk |-> IF RL!Reached(r, {o}) THEN Respond(e, risk[r]) ELSE risk[r]]
<1>1. \A r \in Risk :
        Responses(r) = IF RL!Reached(r, {o}) THEN Respond(e, risk[r]) ELSE risk[r]
  <2> TAKE r \in Risk
  <2> QED
    BY EventsReachLinkedRisks
<1> QED
  BY <1>1

LEMMA ViewOf ==
  ASSUME NEW o \in Objective
  PROVE  /\ View[o].lifecycle_state = StateSeen(obj[o].lifecycle_state)
         /\ View[o].ceiling = CeilingSeen(o)
         /\ View[o].assessed = AssessedSeen(o)
  BY DEF View

\* The steps of an objective leave its deployments alone.
LEMMA ObjectiveStepsMoveOneView ==
  ASSUME GInv, NEW o \in Objective, NEW x, obj' = [obj EXCEPT ![o] = x],
         UNCHANGED <<dep, today, clinks, tlinks, trt>>
  PROVE  /\ RL!ObjectiveMoves(o, StateSeen(x.lifecycle_state), View[o].ceiling, View[o].assessed)
         /\ View[o].ceiling \in CEReductions \cup {NoCE}
         /\ View[o].assessed \in BOOLEAN
<1>1. obj'[o] = x /\ \A p \in Objective : p # o => obj'[p] = obj[p]
  BY LibraryTypes DEF GInv
<1>2. CeilingSeen(o)' = CeilingSeen(o) /\ AssessedSeen(o)' = AssessedSeen(o)
  BY SameDeploymentsSameCount
<1>3. PICK c \in CEReductions \cup {NoCE}, a \in BOOLEAN :
        /\ c = CeilingSeen(o)' /\ a = AssessedSeen(o)'
        /\ RL!ObjectiveMoves(o, StateSeen(obj'[o].lifecycle_state), c, a)
  BY <1>1, OneViewMoves
<1> QED
  BY <1>1, <1>2, <1>3, ViewOf

\* An objective rated with evidence shows it.
LEMMA EvidenceShows ==
  ASSUME NEW o \in Objective, NEW statuses, CL!Evidenced(o, statuses)
  PROVE  View[o].assessed = TRUE
  BY ViewOf DEF CL!Evidenced, AssessedSeen

LEMMA ObjectiveStepsRefine ==
  ASSUME GInv, NEW o \in Objective, CL!ObjectiveStep(o),
         risk' = [r \in Risk |-> Responses(r)], UNCHANGED <<clinks, tlinks, trt>>
  PROVE  RL!ControlStep(o)
<1> DEFINE c == View[o].ceiling
           a == View[o].assessed
<1>a. obj[o] \in CL!ObjectiveRecord
  BY LibraryTypes DEF GInv
<1>b. View[o].lifecycle_state = StateSeen(obj[o].lifecycle_state)
  BY ViewOf
<1>c. ASSUME NEW x, obj' = [obj EXCEPT ![o] = x], UNCHANGED <<dep, today>>
      PROVE  /\ RL!ObjectiveMoves(o, StateSeen(x.lifecycle_state), c, a)
             /\ c \in CEReductions \cup {RL!NoCE} /\ a \in BOOLEAN
  BY <1>c, ObjectiveStepsMoveOneView DEF RL!NoCE, NoCE
<1>d. ASSUME CL!Quiet PROVE risk' = risk
  BY <1>d, SilentStepsMoveNoRisk DEF CL!Quiet
<1>1. CASE CL!Implement(o) \/ CL!Rebuild(o)
  <2> DEFINE x == [obj[o] EXCEPT !.lifecycle_state = "Implementation"]
  <2>1. obj' = [obj EXCEPT ![o] = x] /\ UNCHANGED <<dep, today>> /\ CL!Quiet
        /\ obj[o].lifecycle_state \in {"Design", "Redesign"}
    BY <1>1 DEF CL!Implement, CL!Rebuild, CL!MoveObjective
  <2>2. x.lifecycle_state = "Implementation"
    BY <1>a DEF CL!ObjectiveRecord
  <2> HIDE DEF x
  <2>3. StateSeen(x.lifecycle_state) = View[o].lifecycle_state
    BY <1>b, <2>1, <2>2 DEF StateSeen
  <2>4. RL!ControlDrifts(o, c, a)
    BY <1>c, <1>d, <2>1, <2>3 DEF RL!ControlDrifts
  <2> QED
    BY <1>c, <2>1, <2>4 DEF RL!ControlStep
<1>2. CASE CL!Operate(o)
  <2> DEFINE x == [obj[o] EXCEPT !.lifecycle_state = "Operating"]
  <2>1. obj' = [obj EXCEPT ![o] = x]
        /\ UNCHANGED <<dep, today>> /\ obj[o].lifecycle_state = "Implementation"
        /\ fired' = [CL!Silent EXCEPT ![o] = "control.operating"]
    BY <1>2 DEF CL!Operate, CL!MoveObjective, CL!Emit
  <2>2. a = TRUE
    BY <1>2, EvidenceShows DEF CL!Operate
  <2>3. RL!Cascade(o, RL!Improved)
    BY <2>1, Cascades DEF Respond, RL!Cascade
  <2>4. x.lifecycle_state = "Operating"
    BY <1>a DEF CL!ObjectiveRecord
  <2> HIDE DEF x
  <2>5. RL!ControlOperating(o, c)
    BY <1>b, <1>c, <2>1, <2>2, <2>3, <2>4 DEF RL!ControlOperating, StateSeen
  <2> QED
    BY <1>c, <2>1, <2>5 DEF RL!ControlStep
<1>3. CASE CL!Fail(o)
  <2>1. obj' = [obj EXCEPT ![o] = CL!Declared(obj[o])]
        /\ UNCHANGED <<dep, today>> /\ obj[o].lifecycle_state = "Operating"
        /\ fired' = [CL!Silent EXCEPT ![o] = "control.failed"]
    BY <1>3 DEF CL!Fail, CL!Emit
  <2>2. CL!Declared(obj[o]).lifecycle_state = "Failure"
    BY <1>a DEF CL!Declared, CL!ObjectiveRecord
  <2>3. RL!Cascade(o, RL!Frozen)
    BY <2>1, Cascades DEF Respond, RL!Cascade
  <2>4. RL!ControlFailed(o, c, a)
    BY <1>b, <1>c, <2>1, <2>2, <2>3 DEF RL!ControlFailed, StateSeen
  <2> QED
    BY <1>c, <2>1, <2>4 DEF RL!ControlStep
<1>4. CASE CL!Recover(o)
  <2> DEFINE x == [obj[o] EXCEPT !.lifecycle_state = "Operating", !.remediation_plan = TRUE,
                                 !.failure_declared_at = CL!NoDate]
  <2>1. obj' = [obj EXCEPT ![o] = x]
        /\ UNCHANGED <<dep, today>> /\ obj[o].lifecycle_state = "Failure"
        /\ fired' = [CL!Silent EXCEPT ![o] = "control.recovered"]
    BY <1>4, LibraryTypes DEF CL!Recover, CL!Emit, GInv
  <2>2. x.lifecycle_state = "Operating"
    BY <1>a DEF CL!ObjectiveRecord
  <2>3. a = TRUE
    BY <1>4, EvidenceShows DEF CL!Recover
  <2>4. RL!Cascade(o, RL!Recovering)
    BY <2>1, Cascades DEF Respond, RL!Cascade
  <2> HIDE DEF x
  <2>5. RL!ControlRecovered(o, c)
    BY <1>b, <1>c, <2>1, <2>2, <2>3, <2>4 DEF RL!ControlRecovered, StateSeen
  <2> QED
    BY <1>c, <2>1, <2>5 DEF RL!ControlStep
<1>5. CASE CL!Redesign(o)
  <2> DEFINE x == [obj[o] EXCEPT !.lifecycle_state = "Redesign", !.remediation_plan = TRUE]
  <2>1. obj' = [obj EXCEPT ![o] = x]
        /\ UNCHANGED <<dep, today>> /\ obj[o].lifecycle_state = "Failure" /\ CL!Quiet
    BY <1>5, LibraryTypes DEF CL!Redesign, GInv
  <2>2. x.lifecycle_state = "Redesign"
    BY <1>a DEF CL!ObjectiveRecord
  <2> HIDE DEF x
  <2>3. RL!ControlRedesigned(o)
    BY <1>b, <1>c, <1>d, <2>1, <2>2 DEF RL!ControlRedesigned, StateSeen
  <2> QED
    BY <2>3 DEF RL!ControlStep
<1>6. CASE CL!Deprecate(o)
  <2> DEFINE x == [obj[o] EXCEPT !.lifecycle_state = "Deprecated"]
  <2>1. obj' = [obj EXCEPT ![o] = x]
        /\ UNCHANGED <<dep, today>>
        /\ fired' = [CL!Silent EXCEPT ![o] = "control.deprecated"]
    BY <1>6 DEF CL!Deprecate, CL!MoveObjective, CL!Emit
  <2>2. risk' = [r \in Risk |-> IF RL!Reached(r, {o}) THEN RL!Flagged("Control_Changed", risk[r])
                                                      ELSE risk[r]]
    BY <2>1, Cascades DEF Respond
  <2>3. o \notin Blocked
    BY <1>6 DEF CL!Deprecate, GInv, LibraryInv
  <2>4. \A r \in Risk : RL!Reached(r, {o}) /\ RL!AboveAppetite(RL!ReportedRating(risk[r])) =>
          risk[r].treatment_strategy \in {"Accept", "Transfer", "Avoid"}
    BY <2>3 DEF Blocked, AboveAppetite, RL!AboveAppetite
  <2>5. x.lifecycle_state = "Deprecated"
    BY <1>a DEF CL!ObjectiveRecord
  <2> HIDE DEF x
  <2>6. RL!ObjectiveMoves(o, "Deprecated", c, a)
    BY <1>c, <2>1, <2>5 DEF StateSeen
  <2>7. RL!ControlDeprecated(o)
    BY <2>2, <2>4, <2>6 DEF RL!ControlDeprecated, RL!Cascade
  <2> QED
    BY <2>7 DEF RL!ControlStep
<1>7. CASE \E l \in AutomationLevels, plan \in BOOLEAN : CL!UpdateObjective(o, l, plan)
  <2>1. PICK l \in AutomationLevels, plan \in BOOLEAN : CL!UpdateObjective(o, l, plan)
    BY <1>7
  <2> DEFINE x == [obj[o] EXCEPT !.automation_level = l, !.remediation_plan = plan]
  <2>2. obj' = [obj EXCEPT ![o] = x] /\ UNCHANGED <<dep, today>> /\ CL!Quiet
    BY <2>1, LibraryTypes DEF CL!UpdateObjective, GInv
  <2>3. x.lifecycle_state = obj[o].lifecycle_state
    BY <1>a DEF CL!ObjectiveRecord
  <2> HIDE DEF x
  <2>4. RL!ControlDrifts(o, c, a)
    BY <1>b, <1>c, <1>d, <2>2, <2>3 DEF RL!ControlDrifts
  <2> QED
    BY <1>c, <2>2, <2>4 DEF RL!ControlStep
<1> QED
  BY <1>1, <1>2, <1>3, <1>4, <1>5, <1>6, <1>7 DEF CL!ObjectiveStep

-----------------------------------------------------------------------------
(* Steps of a deployment: what one does to the record, its objective and   *)
(* the event, and which step of the register that is.                      *)

Evident(x) == CL!Rated(x) /\ x.evidence /\ x.deployment_status # "Absent"

Effect(d, x) ==
  LET o == CL!Parent(d)
  IN  /\ dep' = [dep EXCEPT ![d] = x]
      /\ today' = today
      /\ \/ UNCHANGED obj /\ fired' = CL!Silent
         \/ /\ obj[o].lifecycle_state = "Operating"
            /\ obj' = [obj EXCEPT ![o] = CL!Declared(obj[o])]
            /\ fired' = [CL!Silent EXCEPT ![o] = "control.failed"]
         \/ /\ UNCHANGED obj
            /\ \E e \in {"deployment.degraded", "deployment.decommissioned"} :
                 fired' = [CL!Silent EXCEPT ![o] = e]
         \/ /\ UNCHANGED obj
            /\ fired' = [CL!Silent EXCEPT ![o] = "deployment.restored"]
            /\ Evident(x)

\* What an assessment announces as an improvement has evidence behind it.
LEMMA AssessmentsHaveEffect ==
  ASSUME GInv, NEW d \in Deployment, NEW rating \in AssessedRatings, NEW evidence \in BOOLEAN,
         CL!AssessCE(d, rating, evidence)
  PROVE  \E x : Effect(d, x)
<1> DEFINE x == [dep[d] EXCEPT !.ce_rating = rating, !.evidence = evidence,
                               !.ce_assessed_at = today, !.contradicted = FALSE]
           o == CL!Parent(d)
<1>1. /\ dep' = [dep EXCEPT ![d] = x] /\ today' = today /\ UNCHANGED obj
      /\ CL!AnnounceAssessed(d, rating)
      /\ CL!CINV1(x)
  BY DEF CL!AssessCE, CL!StoreDeployment, CL!Enforced
<1>2. x.ce_rating = rating /\ x.evidence = evidence
      /\ x.deployment_status \in {"Active", "Degraded", "Failed"}
  BY LibraryTypes DEF GInv, CL!AssessCE, CL!Assessable, CL!DeploymentRecord
<1> HIDE DEF x
<1>3. CL!Strength(dep[d]) \in 0..2 /\ CL!CEMaxLikelihoodReduction(rating) = CL!Strength(x)
  BY <1>2, StrengthNeedsRating DEF CL!Strength
<1>4. CASE CL!CEMaxLikelihoodReduction(rating) < CL!Strength(dep[d])
  <2>0. ~(CL!CEMaxLikelihoodReduction(rating) > CL!Strength(dep[d]))
    <3>1. CL!Strength(x) \in 0..2
      BY StrengthNeedsRating
    <3> QED
      BY <1>3, <1>4, <3>1
  <2>1. fired' = [CL!Silent EXCEPT ![o] = "deployment.degraded"]
    BY <1>1, <1>4, <2>0 DEF CL!AnnounceAssessed, CL!Emit
  <2> QED
    BY <1>1, <2>1 DEF Effect
<1>5. CASE CL!CEMaxLikelihoodReduction(rating) > CL!Strength(dep[d])
  <2>1. CL!Strength(x) \in 0..2 /\ (CL!Strength(x) > 0 => CL!Rated(x))
    BY StrengthNeedsRating
  <2>2. CL!Rated(x)
    BY <1>3, <1>5, <2>1
  <2>3. Evident(x)
    BY <1>1, <1>2, <2>2 DEF Evident, CL!CINV1
  <2>4. ~(CL!CEMaxLikelihoodReduction(rating) < CL!Strength(dep[d]))
    BY <1>3, <1>5, <2>1
  <2>5. fired' = [CL!Silent EXCEPT ![o] = "deployment.restored"]
    BY <1>1, <1>5, <2>4 DEF CL!AnnounceAssessed, CL!Emit
  <2> QED
    BY <1>1, <2>3, <2>5 DEF Effect
<1>6. CASE ~(CL!CEMaxLikelihoodReduction(rating) < CL!Strength(dep[d]))
           /\ ~(CL!CEMaxLikelihoodReduction(rating) > CL!Strength(dep[d]))
  <2>1. fired' = CL!Silent
    BY <1>1, <1>6 DEF CL!AnnounceAssessed, CL!Quiet
  <2> QED
    BY <1>1, <2>1 DEF Effect
<1> QED
  BY <1>4, <1>5, <1>6

LEMMA DeploymentStepsHaveEffect ==
  ASSUME GInv, NEW d \in Deployment, CL!DeploymentStep(d)
  PROVE  \E x : Effect(d, x)
<1>a. dep[d] \in CL!DeploymentRecord /\ dep = [e \in Deployment |-> dep[e]]
  BY LibraryTypes DEF GInv
<1>b. ASSUME CL!FailurePropagates(d), NEW x, dep' = [dep EXCEPT ![d] = x], today' = today
      PROVE  Effect(d, x)
  BY <1>b DEF Effect, CL!FailurePropagates, CL!Emit, CL!Quiet
<1>1. CASE CL!CreateDeployment(d)
  <2>1. Effect(d, [dep[d] EXCEPT !.deployment_status = "Planned"])
    BY <1>1 DEF CL!CreateDeployment, CL!StoreDeployment, CL!Quiet, Effect
  <2> QED
    BY <2>1
<1>2. CASE CL!Activate(d)
  <2>1. Effect(d, [dep[d] EXCEPT !.deployment_status = "Active"])
    BY <1>2 DEF CL!Activate, CL!MoveDeployment, CL!StoreDeployment, CL!Quiet, Effect
  <2> QED
    BY <2>1
<1>3. CASE CL!Degrade(d)
  <2>1. Effect(d, [dep[d] EXCEPT !.deployment_status = "Degraded"])
    BY <1>3 DEF CL!Degrade, CL!MoveDeployment, CL!StoreDeployment, CL!Emit, Effect
  <2> QED
    BY <2>1
<1>4. CASE CL!FailDeployment(d)
  <2>1. Effect(d, [dep[d] EXCEPT !.deployment_status = "Failed"])
    BY <1>4, <1>b DEF CL!FailDeployment, CL!MoveDeployment, CL!StoreDeployment
  <2> QED
    BY <2>1
<1>5. CASE CL!Restore(d) \/ CL!Remediate(d)
  <2> DEFINE x == [dep[d] EXCEPT !.deployment_status = "Active"]
  <2>1. /\ dep' = [dep EXCEPT ![d] = x] /\ today' = today /\ UNCHANGED obj
        /\ fired' = [CL!Silent EXCEPT ![CL!Parent(d)] = "deployment.restored"]
        /\ CL!Rated(dep[d]) /\ dep[d].evidence
    BY <1>5 DEF CL!Restore, CL!Remediate, CL!MoveDeployment, CL!StoreDeployment, CL!Emit
  <2>2. x.deployment_status = "Active" /\ x.evidence = dep[d].evidence
        /\ x.ce_rating = dep[d].ce_rating
    BY <1>a DEF CL!DeploymentRecord
  <2> HIDE DEF x
  <2>3. Evident(x)
    BY <2>1, <2>2 DEF Evident, CL!Rated
  <2>4. Effect(d, x)
    BY <2>1, <2>3 DEF Effect
  <2> QED
    BY <2>4
<1>6. CASE CL!Decommission(d)
  <2>1. Effect(d, [dep[d] EXCEPT !.deployment_status = "Decommissioned"])
    BY <1>6 DEF CL!Decommission, CL!MoveDeployment, CL!StoreDeployment, CL!Emit, Effect
  <2> QED
    BY <2>1
<1>7. CASE \E rating \in AssessedRatings, evidence \in BOOLEAN : CL!AssessCE(d, rating, evidence)
  BY <1>7, AssessmentsHaveEffect
<1>8. CASE CL!FailingTest(d)
  <2>1. Effect(d, [dep[d] EXCEPT !.contradicted = TRUE, !.deployment_status = "Failed"])
    BY <1>8, <1>b DEF CL!FailingTest, CL!StoreDeployment
  <2> QED
    BY <2>1
<1>9. CASE CL!FailingTestElsewhere(d)
  <2>1. Effect(d, [dep[d] EXCEPT !.contradicted = TRUE])
    BY <1>9 DEF CL!FailingTestElsewhere, CL!Quiet, Effect
  <2> QED
    BY <2>1
<1>10. CASE \E w \in Windows : CL!UpdateDeployment(d, w)
  <2>1. PICK w \in Windows : CL!UpdateDeployment(d, w)
    BY <1>10
  <2>2. Effect(d, [dep[d] EXCEPT !.window = w])
    BY <2>1 DEF CL!UpdateDeployment, CL!StoreDeployment, CL!Quiet, Effect
  <2> QED
    BY <2>2
<1> QED
  BY <1>1, <1>2, <1>3, <1>4, <1>5, <1>6, <1>7, <1>8, <1>9, <1>10 DEF CL!DeploymentStep

LEMMA DeploymentStepsRefine ==
  ASSUME GInv, NEW d \in Deployment, CL!DeploymentStep(d),
         risk' = [r \in Risk |-> Responses(r)], UNCHANGED <<clinks, tlinks, trt>>
  PROVE  \E o \in Objective : RL!ControlStep(o)
<1>1. PICK x : Effect(d, x)
  BY DeploymentStepsHaveEffect
<1> DEFINE o == CL!Parent(d)
<1>a. o \in Objective
  BY ParentsAreObjectives
<1>b. dep' = [dep EXCEPT ![d] = x] /\ today' = today
      /\ dep'[d] = x /\ \A e \in Deployment : CL!Parent(e) # o => dep'[e] = dep[e]
  BY <1>1, LibraryTypes DEF Effect, GInv
<1>c. View[o].lifecycle_state = StateSeen(obj[o].lifecycle_state)
  BY <1>a, ViewOf
<1>d. \A p \in Objective : p # o => obj'[p].lifecycle_state = obj[p].lifecycle_state
  BY <1>1, LibraryTypes DEF Effect, GInv
<1>e. PICK c \in CEReductions \cup {RL!NoCE}, a \in BOOLEAN :
        /\ a = AssessedSeen(o)'
        /\ RL!ObjectiveMoves(o, StateSeen(obj'[o].lifecycle_state), c, a)
  BY <1>a, <1>b, <1>d, OneViewMoves DEF RL!NoCE, NoCE
<1> HIDE DEF o
<1>2. CASE UNCHANGED obj /\ fired' = CL!Silent
  <2>1. risk' = risk
    BY <1>2, SilentStepsMoveNoRisk
  <2>2. RL!ControlDrifts(o, c, a)
    BY <1>2, <1>c, <1>e, <2>1 DEF RL!ControlDrifts
  <2> QED
    BY <1>2, <1>a, <1>e, <2>2 DEF RL!ControlStep
<1>3. CASE /\ obj[o].lifecycle_state = "Operating"
           /\ obj' = [obj EXCEPT ![o] = CL!Declared(obj[o])]
           /\ fired' = [CL!Silent EXCEPT ![o] = "control.failed"]
  <2>1. obj'[o].lifecycle_state = "Failure"
    <3>1. obj[o] \in CL!ObjectiveRecord /\ DOMAIN obj = Objective
      BY <1>a, LibraryTypes DEF GInv
    <3>2. CL!Declared(obj[o]).lifecycle_state = "Failure"
      BY <3>1 DEF CL!Declared, CL!ObjectiveRecord
    <3> QED
      BY <1>3, <1>a, <3>1, <3>2
  <2>2. RL!Cascade(o, RL!Frozen)
    BY <1>3, <1>a, Cascades DEF Respond, RL!Cascade
  <2>3. RL!ControlFailed(o, c, a)
    BY <1>3, <1>c, <1>e, <2>1, <2>2 DEF RL!ControlFailed, StateSeen
  <2> QED
    BY <1>a, <1>e, <2>1, <2>3 DEF RL!ControlStep
<1>4. CASE UNCHANGED obj /\ \E e \in {"deployment.degraded", "deployment.decommissioned"} :
             fired' = [CL!Silent EXCEPT ![o] = e]
  <2>1. RL!Cascade(o, RL!Degraded)
    <3>1. PICK e \in {"deployment.degraded", "deployment.decommissioned"} :
            fired' = [CL!Silent EXCEPT ![o] = e]
      BY <1>4
    <3>2. risk' = [r \in Risk |-> IF RL!Reached(r, {o}) THEN Respond(e, risk[r]) ELSE risk[r]]
      BY <1>a, <3>1, Cascades
    <3>3. \A y : Respond(e, y) = RL!Degraded(y)
      BY <3>1 DEF Respond
    <3> QED
      BY <3>2, <3>3 DEF RL!Cascade
  <2>2. RL!DeploymentDegraded(o, c, a)
    BY <1>4, <1>c, <1>e, <2>1 DEF RL!DeploymentDegraded
  <2> QED
    BY <1>4, <1>a, <1>e, <2>2 DEF RL!ControlStep
<1>5. CASE UNCHANGED obj /\ fired' = [CL!Silent EXCEPT ![o] = "deployment.restored"]
           /\ Evident(x)
  <2>1. a = TRUE
    BY <1>5, <1>b, <1>e DEF Evident, AssessedSeen, CL!DeploymentsOf, CL!Rated, CL!Parent, o
  <2>2. RL!Cascade(o, RL!Improved)
    BY <1>5, <1>a, Cascades DEF Respond, RL!Cascade
  <2>3. RL!DeploymentRestored(o, c)
    BY <1>5, <1>c, <1>e, <2>1, <2>2 DEF RL!DeploymentRestored
  <2> QED
    BY <1>5, <1>a, <1>e, <2>3 DEF RL!ControlStep
<1> QED
  BY <1>1, <1>2, <1>3, <1>4, <1>5 DEF Effect, o

-----------------------------------------------------------------------------
(* The calendar and the jobs                                               *)

LEMMA UnmovedViews ==
  ASSUME UNCHANGED <<obj, dep, today>>
  PROVE  View' = View
<1>1. \A o \in Objective : CeilingSeen(o)' = CeilingSeen(o) /\ AssessedSeen(o)' = AssessedSeen(o)
  <2> TAKE o \in Objective
  <2> QED
    BY SameDeploymentsSameCount
<1> QED
  BY <1>1 DEF View, StateSeen

LEMMA TicksRefine ==
  ASSUME Tick
  PROVE  RL!Tick
<1> DEFINE c == [o \in Objective |-> CeilingSeen(o)']
<1>1. today < MaxDay /\ today' = today + 1 /\ UNCHANGED <<obj, dep, risk, clinks, tlinks, trt>>
  BY DEF Tick, CL!Tick
<1>2. \A o \in Objective : AssessedSeen(o)' = AssessedSeen(o)
  BY <1>1 DEF AssessedSeen, CL!DeploymentsOf, CL!Parent, CL!Rated
<1>3. c \in [Objective -> CEReductions \cup {RL!NoCE}]
      /\ \A o \in Objective : c[o] > 0 => View[o].assessed
  BY <1>2, CeilingsStayEvidenced, ViewOf DEF RL!NoCE, NoCE
<1>4. \A o \in Objective : View'[o] = [View[o] EXCEPT !.ceiling = c[o]]
  <2> TAKE o \in Objective
  <2> QED
    BY <1>1, <1>2 DEF View, StateSeen
<1> HIDE DEF c
<1>5. View' = [o \in Objective |-> [View[o] EXCEPT !.ceiling = c[o]]]
  BY <1>4, ViewIsAFunction
<1> QED
  BY <1>1, <1>3, <1>5 DEF RL!Tick

\* Only expired ratings are withdrawn, so no ceiling moves when the job runs.
LEMMA JobsMoveNoCeiling ==
  ASSUME GInv, CL!Jobs, NEW o \in Objective
  PROVE  CeilingSeen(o)' = CeilingSeen(o)
<1>1. \A d \in Deployment :
        /\ dep'[d].deployment_status = dep[d].deployment_status
        /\ CL!Counted(dep[d])' = CL!Counted(dep[d])
        /\ CL!Counted(dep[d]) => dep'[d] = dep[d]
  <2> SUFFICES ASSUME NEW d \in Deployment
               PROVE  /\ dep'[d].deployment_status = dep[d].deployment_status
                      /\ CL!Counted(dep[d])' = CL!Counted(dep[d])
                      /\ CL!Counted(dep[d]) => dep'[d] = dep[d]
    OBVIOUS
  <2>1. dep[d] \in CL!DeploymentRecord
    BY LibraryTypes DEF GInv
  <2>2. today' = today
    BY DEF CL!Jobs
  <2>3. CASE d \in CL!Due
    <3> DEFINE x == [dep[d] EXCEPT !.ce_rating = "CE-Unvalidated"]
    <3>1. dep'[d] = x
      BY <2>3 DEF CL!Jobs
    <3>2. /\ x.deployment_status = dep[d].deployment_status /\ x.evidence = dep[d].evidence
          /\ x.ce_assessed_at = dep[d].ce_assessed_at /\ x.window = dep[d].window
      BY <2>1 DEF CL!DeploymentRecord
    <3>3. CL!Expired(dep[d])
      BY <2>3 DEF CL!Due
    <3>4. ~CL!Counted(dep[d])
      BY <3>3 DEF CL!Counted
    <3> HIDE DEF x
    <3>5. ~CL!Counted(dep[d])'
      BY <2>2, <3>1, <3>2, <3>3 DEF CL!Counted, CL!Expired, CL!NoDate
    <3> QED
      BY <3>1, <3>2, <3>4, <3>5 DEF CL!Counted
  <2>4. CASE d \notin CL!Due
    <3>1. dep'[d] = dep[d]
      BY <2>4 DEF CL!Jobs
    <3> QED
      BY <2>2, <3>1 DEF CL!Counted, CL!InService, CL!Expired, CL!NoDate
  <2> QED
    BY <2>3, <2>4
<1>2. CL!CountedOf(o)' = CL!CountedOf(o)
  BY <1>1 DEF CL!CountedOf, CL!DeploymentsOf, CL!Parent
<1>3. {CL!Strength(dep'[d]) : d \in CL!CountedOf(o)} = {CL!Strength(dep[d]) : d \in CL!CountedOf(o)}
  BY <1>1 DEF CL!CountedOf, CL!DeploymentsOf
<1> QED
  BY <1>2, <1>3 DEF CeilingSeen, CL!Strength, CL!CEMaxLikelihoodReduction

LEMMA JobsRefine ==
  ASSUME GInv, Jobs
  PROVE  RL!Jobs
<1> DEFINE expired == {CL!Parent(d) : d \in CL!Due}
           unassessed == {o \in expired : ~AssessedSeen(o)'}
           escalated == {o \in Objective : Overdue(o) \/ Systemic(o)}
<1>1. CL!Jobs /\ UNCHANGED <<obj, today, clinks, tlinks, trt>>
  BY DEF Jobs, CL!Jobs
<1>2. expired \in SUBSET Objective /\ unassessed \in SUBSET expired
      /\ escalated \in SUBSET Objective
  BY ParentsAreObjectives DEF CL!Due
<1>3. \A o \in expired : AssessedSeen(o)
  BY LibraryTypes DEF GInv, CL!Due, CL!InService, AssessedSeen, CL!DeploymentsOf
<1>4. \A o \in unassessed : View[o].ceiling <= 0
  <2> SUFFICES ASSUME NEW o \in unassessed PROVE CeilingSeen(o) <= 0
    BY <1>2, ViewOf
  <2>1. o \in Objective /\ ~AssessedSeen(o)'
    BY <1>2
  <2>2. CeilingSeen(o)' = CeilingSeen(o)
    BY <1>1, <2>1, JobsMoveNoCeiling
  <2>3. CeilingSeen(o)' \in CEReductions \cup {NoCE} /\ ~(CeilingSeen(o)' > 0)
    BY <2>1, CeilingsStayEvidenced
  <2> QED
    BY <2>2, <2>3 DEF CEReductions, NoCE
<1>5. \A o \in escalated : View[o].lifecycle_state = "Failure"
  BY ViewOf DEF Overdue, Systemic, RecentFailures, StateSeen
<1>6. View' = [o \in Objective |-> IF o \in unassessed THEN [View[o] EXCEPT !.assessed = FALSE]
                                                       ELSE View[o]]
  <2>1. \A o \in Objective : View'[o] = [View[o] EXCEPT !.assessed = AssessedSeen(o)']
    <3> TAKE o \in Objective
    <3>1. CeilingSeen(o)' = CeilingSeen(o)
      BY <1>1, JobsMoveNoCeiling
    <3> QED
      BY <1>1, <3>1 DEF View, StateSeen
  <2>2. \A o \in Objective \ expired : AssessedSeen(o)' = AssessedSeen(o)
    <3> TAKE o \in Objective \ expired
    <3>1. \A d \in Deployment : CL!Parent(d) = o => dep'[d] = dep[d]
      BY <1>1 DEF CL!Jobs
    <3> QED
      BY <1>1, <3>1, SameDeploymentsSameCount
  <2>3. \A o \in Objective \ unassessed : AssessedSeen(o)' = AssessedSeen(o)
    <3> SUFFICES ASSUME NEW o \in Objective \ unassessed
                 PROVE  AssessedSeen(o)' = AssessedSeen(o)
      OBVIOUS
    <3>1. CASE o \in expired
      BY <1>3, <3>1, CeilingsAreEvidenced, CeilingsStayEvidenced
    <3> QED
      BY <2>2, <3>1
  <2>4. \A o \in unassessed : AssessedSeen(o)' = FALSE
    BY <1>2, CeilingsStayEvidenced
  <2>5. \A o \in Objective : [View[o] EXCEPT !.assessed = AssessedSeen(o)] = View[o]
    BY DEF View
  <2> HIDE DEF unassessed
  <2>6. \A o \in Objective : View'[o] = IF o \in unassessed
                                        THEN [View[o] EXCEPT !.assessed = FALSE] ELSE View[o]
    BY <2>1, <2>3, <2>4, <2>5
  <2> QED
    BY <2>6, ViewIsAFunction
<1>7. risk' = [r \in Risk |->
        LET x == RL!EscalateAcceptance(IF RL!Reached(r, expired) THEN RL!Degraded(risk[r])
                                                                 ELSE risk[r])
        IN  [x EXCEPT !.escalation_flag = @ \/ clinks[r] \cap escalated # {}]]
  <2>1. \A r \in Risk : (\E o \in clinks[r] : Overdue(o) \/ Systemic(o))
                          <=> clinks[r] \cap escalated # {}
    BY RegisterTypes
  <2>2. risk' = [r \in Risk |-> Escalate(r, RL!EscalateAcceptance(AfterExpiry(r)))]
    BY DEF Jobs
  <2> HIDE DEF escalated
  <2>3. \A r \in Risk : \A x : Escalate(r, x) =
          [x EXCEPT !.escalation_flag = @ \/ clinks[r] \cap escalated # {}]
    BY <2>1 DEF Escalate
  <2> QED
    BY <2>2, <2>3 DEF AfterExpiry
<1>8. \A o \in expired : View[o].assessed
  BY <1>2, <1>3, ViewOf
<1> HIDE DEF expired, unassessed, escalated
<1>9. RL!RunJobs(expired, unassessed, escalated)
  BY <1>1, <1>4, <1>5, <1>6, <1>7, <1>8 DEF RL!RunJobs
<1> QED
  BY <1>2, <1>9 DEF RL!Jobs

-----------------------------------------------------------------------------
(* The refinement                                                          *)

LEMMA EveryStepRefines == GInv /\ [Next]_vars => [RL!Next]_(RL!vars)
<1> SUFFICES ASSUME GInv, [Next]_vars PROVE [RL!Next]_(RL!vars)
  OBVIOUS
<1>1. CASE ControlStep
  <2>1. risk' = [r \in Risk |-> Responses(r)] /\ UNCHANGED <<clinks, tlinks, trt>>
    BY <1>1 DEF ControlStep
  <2>2. CASE \E o \in Objective : CL!ObjectiveStep(o)
    BY <2>1, <2>2, ObjectiveStepsRefine DEF RL!Next
  <2>3. CASE \E d \in Deployment : CL!DeploymentStep(d)
    BY <2>1, <2>3, DeploymentStepsRefine DEF RL!Next
  <2>4. CASE \E a \in Activity : CL!ActivityStep(a)
    <3>1. UNCHANGED <<obj, dep, today>> /\ fired' = CL!Silent
      BY <2>4 DEF CL!ActivityStep, CL!CreateActivity, CL!ActivateActivity, CL!SuspendActivity,
                  CL!RetireActivity, CL!MoveActivity, CL!Quiet
    <3>2. risk' = risk
      BY <2>1, <3>1, SilentStepsMoveNoRisk
    <3>3. View' = View
      BY <3>1, UnmovedViews
    <3> QED
      BY <2>1, <3>1, <3>2, <3>3 DEF RL!vars
  <2> QED
    BY <1>1, <2>2, <2>3, <2>4 DEF ControlStep
<1>2. CASE RiskStep
  BY <1>2 DEF RiskStep, RL!Next
<1>3. CASE Tick
  BY <1>3, TicksRefine DEF RL!Next
<1>4. CASE Jobs
  BY <1>4, JobsRefine DEF RL!Next
<1>5. CASE UNCHANGED vars
  <2>1. View' = View
    BY <1>5, UnmovedViews DEF vars
  <2> QED
    BY <1>5, <2>1 DEF vars, RL!vars
<1> QED
  BY <1>1, <1>2, <1>3, <1>4, <1>5 DEF Next

LEMMA SameRiskSteps == [RL!Next]_(RL!vars) => [RLP!Next]_(RLP!vars)
  BY SameTransitions, SameOperations, SameControlSteps, SameTreatmentSteps, SameRiskCalendar
  DEF RL!Next, RLP!Next, RL!vars, RLP!vars

LEMMA GInvInit == Init => GInv
  BY LibraryInit, SameRiskInit, RLP!InitIsSound, RisksAssumed DEF Init, GInv

LEMMA GInvKept == GInv /\ [Next]_vars => GInv'
<1> SUFFICES ASSUME GInv, [Next]_vars PROVE GInv'
  OBVIOUS
<1>1. LibraryInv'
  BY LibraryKept DEF GInv
<1>2. [RLP!Next]_(RLP!vars)
  BY EveryStepRefines, SameRiskSteps
<1>3. RLP!IInv'
  BY <1>2, RLP!Induction, RisksAssumed DEF GInv
<1> QED
  BY <1>1, <1>3 DEF GInv

\* The invariants of both halves hold together, and the objectives the
\* library refuses to retire are always those an open risk above appetite
\* holds (CINV-8 across the two modules).
THEOREM GovernedInvariant == Spec => []GInv
<1>1. Init => GInv
  BY GInvInit
<1>2. GInv /\ [Next]_vars => GInv'
  BY GInvKept
<1> QED
  BY <1>1, <1>2, PTL DEF Spec

\* Every step of the library, whatever the deployments, tests, edits, days
\* and jobs, is a step of the register with the whole of its cascade.
THEOREM Refinement == Spec => ImplementsRiskLifecycle
<1>1. Init => RL!Init
  BY DEF Init
<1>2. GInv /\ [Next]_vars => [RL!Next]_(RL!vars)
  BY EveryStepRefines
<1>3. Spec => []GInv
  BY GovernedInvariant
<1> QED
  BY <1>1, <1>2, <1>3, PTL DEF Spec, ImplementsRiskLifecycle, RL!Spec

-----------------------------------------------------------------------------
(* What a recorded reduction rests on                                      *)

\* The worst case over the linked objectives is zero or that of one of them.
LEMMA CeilingIsOfOne ==
  ASSUME GInv, NEW r \in Risk
  PROVE  /\ RL!Ceiling(clinks[r]) \in 0..2
         /\ RL!Ceiling(clinks[r]) > 0 =>
              \E o \in RL!Contributing(clinks[r]) : View[o].ceiling > 0
         /\ \A o \in RL!Contributing(clinks[r]) :
              o \in Objective /\ o \in clinks[r] /\ View[o].lifecycle_state = "Operating"
<1> DEFINE S == {View[o].ceiling : o \in RL!Contributing(clinks[r])}
<1>1. \A o \in RL!Contributing(clinks[r]) :
        /\ o \in Objective /\ o \in clinks[r]
        /\ View[o].lifecycle_state = "Operating"
        /\ View[o].ceiling \in 0..2
  <2> TAKE o \in RL!Contributing(clinks[r])
  <2>1. o \in Objective /\ o \in clinks[r]
        /\ View[o].lifecycle_state = "Operating" /\ View[o].ceiling # RL!NoCE
    BY RegisterTypes DEF RL!Contributing
  <2>2. CeilingSeen(o) \in CEReductions \cup {NoCE}
    BY <2>1, CeilingsAreEvidenced
  <2> QED
    BY <2>1, <2>2, ViewOf DEF RL!NoCE, NoCE, CEReductions
<1>2. RL!Ceiling(clinks[r]) = WorstCase(S)
  BY DEF RL!Ceiling, RL!WorstCase, WorstCase
<1>3. CASE S = {}
  <2>1. WorstCase(S) = 0
    BY <1>3 DEF WorstCase
  <2> HIDE DEF S
  <2> QED
    BY <1>1, <1>2, <2>1
<1>4. CASE S # {}
  <2>1. S \in SUBSET (0..2)
    BY <1>1
  <2>2. WorstCase(S) \in S
    <3> HIDE DEF S
    <3> QED
      BY <1>4, <2>1, WorstCaseIsOne
  <2> QED
    BY <1>1, <1>2, <2>1, <2>2
<1> QED
  BY <1>3, <1>4

\* A positive one is that of an operating objective with a deployment in
\* service, rated after its last failing test.
LEMMA CeilingsRestOnDeployments ==
  ASSUME GInv, NEW r \in Risk, RL!Ceiling(clinks[r]) > 0
  PROVE  \E o \in clinks[r] :
           /\ obj[o].lifecycle_state = "Operating"
           /\ \E d \in CL!CountedOf(o) : CL!Rated(dep[d]) /\ ~dep[d].contradicted
<1>1. PICK o \in RL!Contributing(clinks[r]) : View[o].ceiling > 0
  BY CeilingIsOfOne
<1>2. o \in Objective /\ o \in clinks[r] /\ obj[o].lifecycle_state = "Operating"
      /\ CeilingSeen(o) > 0
  <2>1. o \in Objective /\ o \in clinks[r] /\ View[o].lifecycle_state = "Operating"
    BY CeilingIsOfOne
  <2>2. StateSeen(obj[o].lifecycle_state) = "Operating"
    BY <2>1, ViewOf
  <2> QED
    BY <1>1, <2>1, <2>2, ViewOf DEF StateSeen
<1> DEFINE T == {CL!Strength(dep[d]) : d \in CL!CountedOf(o)}
<1>3. CL!CountedOf(o) # {}
  <2>1. ~(-1 > 0)
    OBVIOUS
  <2> QED
    BY <1>2, <2>1 DEF CeilingSeen, NoCE
<1>4. PICK d \in CL!CountedOf(o) : CL!Strength(dep[d]) > 0
  <2>1. T \in SUBSET (0..2) /\ T # {}
    BY <1>3, StrengthNeedsRating
  <2>2. CeilingSeen(o) = WorstCase(T)
    BY <1>3 DEF CeilingSeen
  <2>3. WorstCase(T) \in T
    BY <2>1, WorstCaseIsOne
  <2> QED
    BY <1>2, <2>2, <2>3
<1>5. CL!Rated(dep[d]) /\ d \in Deployment /\ CL!InService(dep[d])
  BY <1>4, StrengthNeedsRating DEF CL!CountedOf, CL!DeploymentsOf, CL!Counted
<1>6. ~dep[d].contradicted
  BY <1>5 DEF GInv, LibraryInv, CLP!IInv, CLP!Honest, CLP!Rated, CLP!InService, CL!Rated,
              CL!InService
<1> QED
  BY <1>2, <1>4, <1>5, <1>6

\* RINV-9 with DL-4 and CINV-10, for every register and library.
THEOREM ReductionsRestOnEvidence == Spec => ReductionRestsOnFreshEvidence
<1>1. ASSUME GInv, GInv', [Next]_vars, NEW r \in Risk,
             risk'[r].residual # NoScore, risk'[r].residual # risk[r].residual,
             risk'[r].residual.likelihood < risk[r].inherent.likelihood
      PROVE  \E o \in clinks[r] :
               /\ obj[o].lifecycle_state = "Operating"
               /\ \E d \in CL!CountedOf(o) : CL!Rated(dep[d]) /\ ~dep[d].contradicted
  <2> DEFINE x == risk[r]
             y == risk'[r]
  <2>1. RLP!Stepped(r)
    BY <1>1, EveryStepRefines, SameRiskSteps, RLP!EveryStep, RisksAssumed DEF GInv
  <2>2. y.inherent = x.inherent /\ RLP!RINV9(y, clinks[r])
    BY <1>1, <2>1 DEF RLP!Stepped, RLP!Kept, RLP!Written, RLP!NoScore, NoScore
  <2>3. x \in RLP!RiskRecord /\ y \in RLP!RiskRecord
    BY <1>1 DEF GInv, RLP!IInv, RLP!TypeOK
  <2>4. /\ x.inherent.likelihood \in 0..5
        /\ y.residual.likelihood \in 1..5
    <3>1. \A sc \in RLP!RecordedScores : sc.likelihood \in 1..5
      BY RisksAssumed DEF RLP!RecordedScores, RLP!RiskAssumption, RLP!Axis
    <3>2. x.inherent \in RLP!RecordedScores \cup {RLP!NoScore}
          /\ y.residual \in RLP!RecordedScores \cup {RLP!NoScore}
      BY <2>3 DEF RLP!RiskRecord
    <3>3. RLP!NoScore.likelihood = 0 /\ y.residual # RLP!NoScore
      BY <1>1 DEF RLP!NoScore, NoScore
    <3> QED
      BY <3>1, <3>2, <3>3
  <2>5. x.inherent # RLP!NoScore
    BY <1>1, <2>4 DEF RLP!NoScore
  <2>6. x.inherent.likelihood - y.residual.likelihood <= RLP!Ceiling(clinks[r])
    BY <1>1, <2>2, <2>5 DEF RLP!RINV9, RLP!ValidResidualLikelihood, RLP!NoScore, NoScore
  <2>7. RLP!Ceiling(clinks[r]) = RL!Ceiling(clinks[r])
    BY DEF RLP!Ceiling, RL!Ceiling, RLP!Contributing, RL!Contributing, RLP!WorstCase,
           RL!WorstCase, RLP!NoCE, RL!NoCE
  <2>8. RL!Ceiling(clinks[r]) \in 0..2
    BY <1>1, CeilingIsOfOne
  <2>9. RL!Ceiling(clinks[r]) > 0
    BY <1>1, <2>4, <2>6, <2>7, <2>8
  <2> QED
    BY <1>1, <2>9, CeilingsRestOnDeployments
<1>2. GInv /\ GInv' /\ [Next]_vars => [\A r \in Risk :
       /\ risk'[r].residual # NoScore /\ risk'[r].residual # risk[r].residual
       /\ risk'[r].residual.likelihood < risk[r].inherent.likelihood
       => \E o \in clinks[r] :
            /\ obj[o].lifecycle_state = "Operating"
            /\ \E d \in CL!CountedOf(o) : CL!Rated(dep[d]) /\ ~dep[d].contradicted]_vars
  BY <1>1
<1> QED
  BY <1>2, GovernedInvariant, PTL DEF Spec, ReductionRestsOnFreshEvidence

-----------------------------------------------------------------------------
(* What the failure of a deployment leaves of the linked risks             *)

LEMMA FailuresPropagate ==
  ASSUME GInv, NEW d \in Deployment, CL!DeploymentStep(d),
         CL!InService(dep[d]), dep'[d].deployment_status = "Failed"
  PROVE  CL!FailurePropagates(d)
<1>a. dep[d] \in CL!DeploymentRecord /\ dep = [e \in Deployment |-> dep[e]]
  BY LibraryTypes DEF GInv
<1>b. dep[d].deployment_status \in {"Active", "Degraded"}
  BY DEF CL!InService
<1>1. ASSUME NEW sources, NEW target, CL!MoveDeployment(d, sources, target)
      PROVE  target = "Failed"
  <2>1. dep'[d] = [dep[d] EXCEPT !.deployment_status = target]
    BY <1>1, <1>a DEF CL!MoveDeployment, CL!StoreDeployment
  <2> QED
    BY <1>a, <2>1 DEF CL!DeploymentRecord
<1>2. ~(CL!Activate(d) \/ CL!Degrade(d) \/ CL!Restore(d) \/ CL!Remediate(d) \/ CL!Decommission(d))
  BY <1>1 DEF CL!Activate, CL!Degrade, CL!Restore, CL!Remediate, CL!Decommission
<1>3. ~CL!CreateDeployment(d) /\ ~CL!FailingTestElsewhere(d)
  BY <1>b DEF CL!CreateDeployment, CL!FailingTestElsewhere
<1>4. ~\E rating \in AssessedRatings, evidence \in BOOLEAN : CL!AssessCE(d, rating, evidence)
  <2> SUFFICES ASSUME NEW rating, NEW evidence, CL!AssessCE(d, rating, evidence) PROVE FALSE
    OBVIOUS
  <2>1. dep'[d] = [dep[d] EXCEPT !.ce_rating = rating, !.evidence = evidence,
                                 !.ce_assessed_at = today, !.contradicted = FALSE]
    BY <1>a DEF CL!AssessCE, CL!StoreDeployment
  <2>2. dep'[d].deployment_status = dep[d].deployment_status
    BY <1>a, <2>1 DEF CL!DeploymentRecord
  <2> QED
    BY <1>b, <2>2
<1>5. ~\E w \in Windows : CL!UpdateDeployment(d, w)
  <2> SUFFICES ASSUME NEW w, CL!UpdateDeployment(d, w) PROVE FALSE
    OBVIOUS
  <2>1. dep'[d] = [dep[d] EXCEPT !.window = w]
    BY <1>a DEF CL!UpdateDeployment, CL!StoreDeployment
  <2>2. dep'[d].deployment_status = dep[d].deployment_status
    BY <1>a, <2>1 DEF CL!DeploymentRecord
  <2> QED
    BY <1>b, <2>2
<1> QED
  BY <1>2, <1>3, <1>4, <1>5 DEF CL!DeploymentStep, CL!FailDeployment, CL!FailingTest

\* DL-1 with CINV-5, for every register and library.
THEOREM DeploymentFailuresFreeze == Spec => DeploymentFailureDiscardsResidual
<1>1. ASSUME GInv, [Next]_vars, NEW d \in Deployment, NEW r \in Risk,
             CL!InService(dep[d]), dep'[d].deployment_status = "Failed",
             obj[CL!Parent(d)].lifecycle_state = "Operating",
             CL!Parent(d) \in clinks[r], risk[r].lifecycle_state # "Closed"
      PROVE  RL!Reported(risk'[r]) = risk[r].inherent
  <2> DEFINE o == CL!Parent(d)
  <2>1. dep'[d].deployment_status # dep[d].deployment_status
    BY <1>1 DEF CL!InService
  <2>2. CL!DeploymentStep(d) /\ risk' = [q \in Risk |-> Responses(q)]
    <3>1. ~(RiskStep \/ Tick \/ UNCHANGED vars)
      BY <2>1 DEF RiskStep, controlVars, Tick, CL!Tick, vars
    <3>2. ~Jobs
      <4> SUFFICES ASSUME Jobs PROVE FALSE
        OBVIOUS
      <4>1. dep[d] \in CL!DeploymentRecord
        BY <1>1, LibraryTypes DEF GInv
      <4>2. dep'[d] \in {dep[d], [dep[d] EXCEPT !.ce_rating = "CE-Unvalidated"]}
        BY DEF Jobs, CL!Jobs
      <4> QED
        BY <2>1, <4>1, <4>2 DEF CL!DeploymentRecord
    <3>3. ControlStep
      BY <1>1, <3>1, <3>2 DEF Next
    <3>4. ASSUME NEW p \in Objective, CL!ObjectiveStep(p)
          PROVE  FALSE
      BY <2>1, <3>4 DEF CL!ObjectiveStep, CL!Implement, CL!Operate, CL!Fail, CL!Recover,
                        CL!Redesign, CL!Rebuild, CL!Deprecate, CL!UpdateObjective,
                        CL!MoveObjective
    <3>5. ASSUME NEW a \in Activity, CL!ActivityStep(a)
          PROVE  FALSE
      BY <2>1, <3>5 DEF CL!ActivityStep, CL!CreateActivity, CL!ActivateActivity,
                        CL!SuspendActivity, CL!RetireActivity, CL!MoveActivity
    <3>6. ASSUME NEW e \in Deployment, CL!DeploymentStep(e), e # d
          PROVE  FALSE
      <4>1. PICK x : dep' = [dep EXCEPT ![e] = x]
        BY <1>1, <3>6, DeploymentStepsHaveEffect DEF Effect
      <4>2. dep'[d] = dep[d]
        BY <1>1, <3>6, <4>1, LibraryTypes DEF GInv
      <4> QED
        BY <2>1, <4>2
    <3> QED
      BY <3>3, <3>4, <3>5, <3>6 DEF ControlStep
  <2>3. o \in Objective
    BY ParentsAreObjectives
  <2>4. fired' = [CL!Silent EXCEPT ![o] = "control.failed"]
    BY <1>1, <2>2, FailuresPropagate DEF CL!FailurePropagates, CL!Emit
  <2>5. RL!Reached(r, {o})
    BY <1>1 DEF RL!Reached
  <2>6. risk'[r] = RL!Frozen(risk[r])
    BY <1>1, <2>2, <2>3, <2>4, <2>5, EventsReachLinkedRisks DEF Respond
  <2>7. risk[r] \in RLP!RiskRecord
    BY <1>1 DEF GInv, RLP!IInv, RLP!TypeOK
  <2>8. /\ RL!Frozen(risk[r]).residual_score_locked
        /\ RL!Frozen(risk[r]).inherent = risk[r].inherent
    BY <2>7 DEF RL!Frozen, RL!LockResidual, RLP!RiskRecord
  <2> QED
    BY <2>6, <2>8 DEF RL!Reported
<1>2. GInv /\ [Next]_vars => [\A d \in Deployment, r \in Risk :
       /\ CL!InService(dep[d]) /\ dep'[d].deployment_status = "Failed"
       /\ obj[CL!Parent(d)].lifecycle_state = "Operating"
       /\ CL!Parent(d) \in clinks[r] /\ risk[r].lifecycle_state # "Closed"
       => RL!Reported(risk'[r]) = risk[r].inherent]_vars
  BY <1>1
<1> QED
  BY <1>2, GovernedInvariant, PTL DEF Spec, DeploymentFailureDiscardsResidual

=============================================================================
