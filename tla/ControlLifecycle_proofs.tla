----------------------- MODULE ControlLifecycle_proofs -----------------------
(***************************************************************************)
(* Proofs about the control library, for any number of objectives,         *)
(* activities and deployments, any evidence windows and any ceilings of    *)
(* the automation levels.                                                  *)
(***************************************************************************)
EXTENDS ControlLifecycle, TLAPS

(* The inductive invariant, by record.  A date of failure is never ahead   *)
(* of the calendar, and outlives the failure it dates.                     *)
Dated(x, day) ==
  /\ x.failure_declared_at \in 0..day \cup {NoDate}
  /\ x.lifecycle_state = "Failure" => x.failure_declared_at # NoDate

(* A deployment that has not gone live is unrated: only this keeps one     *)
(* that failed a test before going live from going live on a rating.  And  *)
(* no rating outlives its evidence (CINV-1).                               *)
Honest(x) ==
  /\ Rated(x) => x.evidence
  /\ x.deployment_status \in {"Absent", "Planned"} => ~Rated(x)
  /\ InService(x) /\ Rated(x) => ~x.contradicted

IInv ==
  /\ TypeOK
  /\ \A o \in Objective : Dated(obj[o], today)
  /\ \A d \in Deployment : Honest(dep[d])

LEMMA Parents ==
  ASSUME NEW d \in Deployment
  PROVE  Parent(d) \in Objective
  BY ControlAssumption DEF Parent

-----------------------------------------------------------------------------
(* Writes of one record                                                    *)

LEMMA ObjectiveWrite ==
  ASSUME IInv, NEW o \in Objective, NEW x \in ObjectiveRecord, Dated(x, today),
         obj' = [obj EXCEPT ![o] = x]
  PROVE  /\ obj' \in [Objective -> ObjectiveRecord]
         /\ \A q \in Objective : Dated(obj'[q], today)
  BY DEF IInv, TypeOK

LEMMA DeploymentWrite ==
  ASSUME IInv, NEW d \in Deployment, NEW x \in DeploymentRecord, Honest(x),
         dep' = [dep EXCEPT ![d] = x]
  PROVE  /\ dep' \in [Deployment -> DeploymentRecord]
         /\ \A q \in Deployment : Honest(dep'[q])
  BY DEF IInv, TypeOK

LEMMA DeclaringIsDated ==
  ASSUME IInv, NEW o \in Objective
  PROVE  Declared(obj[o]) \in ObjectiveRecord /\ Dated(Declared(obj[o]), today)
<1>1. obj[o] \in ObjectiveRecord /\ Dated(obj[o], today) /\ today \in 0..MaxDay
  BY DEF IInv, TypeOK
<1>2. 0..today \subseteq 0..MaxDay /\ today \in 0..today
  BY <1>1, ControlAssumption
<1>3. Declared(obj[o]) \in ObjectiveRecord
  BY <1>1 DEF Declared, ObjectiveRecord, ObjectiveStates
<1>4. Dated(Declared(obj[o]), today)
  BY <1>1, <1>2 DEF Declared, ObjectiveRecord, Dated, NoDate
<1> QED
  BY <1>3, <1>4

LEMMA EmittingIsTyped ==
  ASSUME NEW o \in Objective, NEW event \in Events, Emit(o, event)
  PROVE  fired' \in [Objective -> Events]
  BY DEF Emit, Silent, Events

LEMMA QuietIsTyped ==
  ASSUME Quiet
  PROVE  fired' \in [Objective -> Events]
  BY DEF Quiet, Silent, Events

LEMMA FailurePropagatesDated ==
  ASSUME IInv, NEW d \in Deployment, FailurePropagates(d)
  PROVE  /\ obj' \in [Objective -> ObjectiveRecord]
         /\ \A o \in Objective : Dated(obj'[o], today)
         /\ fired' \in [Objective -> Events]
<1> DEFINE o == Parent(d)
<1>1. o \in Objective
  BY Parents
<1>2. CASE obj[o].lifecycle_state = "Operating"
  <2>1. obj' = [obj EXCEPT ![o] = Declared(obj[o])] /\ Emit(o, "control.failed")
    BY <1>2 DEF FailurePropagates
  <2>2. Declared(obj[o]) \in ObjectiveRecord /\ Dated(Declared(obj[o]), today)
    BY <1>1, DeclaringIsDated
  <2>3. fired' \in [Objective -> Events]
    BY <1>1, <2>1, EmittingIsTyped DEF Events
  <2> QED
    BY <1>1, <2>1, <2>2, <2>3, ObjectiveWrite
<1>3. CASE obj[o].lifecycle_state # "Operating"
  <2>1. UNCHANGED obj /\ Quiet
    BY <1>3 DEF FailurePropagates
  <2> QED
    BY <2>1, QuietIsTyped DEF IInv, TypeOK
<1> QED
  BY <1>2, <1>3

-----------------------------------------------------------------------------
(* The invariant holds initially and is kept by every action               *)

LEMMA InitIsSound == Init => IInv
<1> SUFFICES ASSUME Init PROVE IInv
  OBVIOUS
<1>1. obj \in [Objective -> ObjectiveRecord]
  BY DEF Init, ObjectiveRecord, ObjectiveStates
<1>2. dep \in [Deployment -> DeploymentRecord]
  BY DEF Init, DeploymentRecord, DeploymentStates, CERatings
<1>3. /\ act \in [Activity -> ActivityStates]
      /\ blocking \subseteq Objective
      /\ fired \in [Objective -> Events]
      /\ today \in 0..MaxDay
  BY ControlAssumption DEF Init, ActivityStates, Silent, Events
<1>4. \A o \in Objective : Dated(obj[o], today)
  BY DEF Init, Dated, NoDate
<1>5. \A d \in Deployment : Honest(dep[d])
  BY DEF Init, Honest, Rated
<1> QED
  BY <1>1, <1>2, <1>3, <1>4, <1>5 DEF IInv, TypeOK

LEMMA ObjectiveStepIsSound ==
  ASSUME IInv, NEW o \in Objective, ObjectiveStep(o)
  PROVE  IInv'
<1> DEFINE x == obj[o]
<1>0. x \in ObjectiveRecord /\ Dated(x, today)
  BY DEF IInv, TypeOK
\* Every action writes one objective, by one of four records.
<1>1. ASSUME NEW y \in ObjectiveRecord, Dated(y, today), obj' = [obj EXCEPT ![o] = y],
             fired' \in [Objective -> Events], UNCHANGED <<act, dep, today>>, RisksFollow
      PROVE  IInv'
  BY <1>1, ObjectiveWrite DEF IInv, TypeOK, RisksFollow
<1>2. ASSUME NEW source, NEW target \in ObjectiveStates \ {"Failure"},
             MoveObjective(o, source, target), fired' \in [Objective -> Events]
      PROVE  IInv'
  <2> DEFINE y == [x EXCEPT !.lifecycle_state = target]
  <2>1. y \in ObjectiveRecord
    BY <1>0 DEF ObjectiveRecord
  <2>2. Dated(y, today)
    BY <1>0 DEF ObjectiveRecord, Dated
  <2>3. obj' = [obj EXCEPT ![o] = y] /\ UNCHANGED <<act, dep, today>> /\ RisksFollow
    BY <1>2 DEF MoveObjective
  <2> HIDE DEF y
  <2> QED
    BY <1>1, <1>2, <2>1, <2>2, <2>3
<1>3. CASE Implement(o)
  BY <1>2, <1>3, QuietIsTyped DEF Implement, ObjectiveStates
<1>4. CASE Operate(o)
  BY <1>2, <1>4, EmittingIsTyped DEF Operate, ObjectiveStates, Events
<1>5. CASE Fail(o)
  <2>1. obj' = [obj EXCEPT ![o] = Declared(x)] /\ UNCHANGED <<act, dep, today>> /\ RisksFollow
    BY <1>5 DEF Fail
  <2>2. fired' \in [Objective -> Events]
    BY <1>5, EmittingIsTyped DEF Fail, Events
  <2> QED
    BY <1>1, <2>1, <2>2, DeclaringIsDated
<1>6. CASE Recover(o)
  <2> DEFINE y == [x EXCEPT !.lifecycle_state = "Operating", !.remediation_plan = TRUE,
                            !.failure_declared_at = NoDate]
  <2>1. y \in ObjectiveRecord
    BY <1>0 DEF ObjectiveRecord, ObjectiveStates
  <2>2. Dated(y, today)
    BY <1>0 DEF ObjectiveRecord, Dated
  <2>3. obj' = [obj EXCEPT ![o] = y] /\ UNCHANGED <<act, dep, today>> /\ RisksFollow
    BY <1>6 DEF Recover, IInv, TypeOK
  <2>4. fired' \in [Objective -> Events]
    BY <1>6, EmittingIsTyped DEF Recover, Events
  <2> HIDE DEF y
  <2> QED
    BY <1>1, <2>1, <2>2, <2>3, <2>4
<1>7. CASE Redesign(o)
  <2> DEFINE y == [x EXCEPT !.lifecycle_state = "Redesign", !.remediation_plan = TRUE]
  <2>1. y \in ObjectiveRecord
    BY <1>0 DEF ObjectiveRecord, ObjectiveStates
  <2>2. Dated(y, today)
    BY <1>0 DEF ObjectiveRecord, Dated
  <2>3. obj' = [obj EXCEPT ![o] = y] /\ UNCHANGED <<act, dep, today>> /\ RisksFollow
    BY <1>7 DEF Redesign, IInv, TypeOK
  <2>4. fired' \in [Objective -> Events]
    BY <1>7, QuietIsTyped DEF Redesign
  <2> HIDE DEF y
  <2> QED
    BY <1>1, <2>1, <2>2, <2>3, <2>4
<1>8. CASE Rebuild(o)
  BY <1>2, <1>8, QuietIsTyped DEF Rebuild, ObjectiveStates
<1>9. CASE Deprecate(o)
  BY <1>2, <1>9, EmittingIsTyped DEF Deprecate, ObjectiveStates, Events
<1>10. ASSUME NEW l \in AutomationLevels, NEW plan \in BOOLEAN, UpdateObjective(o, l, plan)
       PROVE  IInv'
  <2> DEFINE y == [x EXCEPT !.automation_level = l, !.remediation_plan = plan]
  <2>1. y \in ObjectiveRecord
    BY <1>0 DEF ObjectiveRecord
  <2>2. Dated(y, today)
    BY <1>0 DEF ObjectiveRecord, Dated
  <2>3. obj' = [obj EXCEPT ![o] = y] /\ UNCHANGED <<act, dep, today>> /\ RisksFollow
    BY <1>10 DEF UpdateObjective, IInv, TypeOK
  <2>4. fired' \in [Objective -> Events]
    BY <1>10, QuietIsTyped DEF UpdateObjective
  <2> HIDE DEF y
  <2> QED
    BY <1>1, <2>1, <2>2, <2>3, <2>4
<1> QED
  BY <1>3, <1>4, <1>5, <1>6, <1>7, <1>8, <1>9, <1>10 DEF ObjectiveStep

LEMMA ActivityStepIsSound ==
  ASSUME IInv, NEW a \in Activity, ActivityStep(a)
  PROVE  IInv'
<1>1. ASSUME NEW sources, NEW target \in ActivityStates, MoveActivity(a, sources, target)
      PROVE  IInv'
  <2>1. act' \in [Activity -> ActivityStates] /\ UNCHANGED <<obj, dep, today>> /\ RisksFollow
    BY <1>1 DEF MoveActivity, IInv, TypeOK
  <2>2. fired' \in [Objective -> Events]
    BY <1>1, QuietIsTyped DEF MoveActivity
  <2> QED
    BY <2>1, <2>2 DEF IInv, TypeOK, RisksFollow
<1> QED
  BY <1>1 DEF ActivityStep, CreateActivity, ActivateActivity, SuspendActivity,
              RetireActivity, ActivityStates

-----------------------------------------------------------------------------
(* Deployments                                                             *)

LEMMA DeploymentStepIsSound ==
  ASSUME IInv, NEW d \in Deployment, DeploymentStep(d)
  PROVE  IInv'
<1> DEFINE x == dep[d]
           o == Parent(d)
<1>0. x \in DeploymentRecord /\ Honest(x) /\ o \in Objective
  BY Parents DEF IInv, TypeOK
<1>1. ASSUME NEW y \in DeploymentRecord, Honest(y), dep' = [dep EXCEPT ![d] = y],
             obj' \in [Objective -> ObjectiveRecord],
             \A q \in Objective : Dated(obj'[q], today),
             fired' \in [Objective -> Events], UNCHANGED <<act, today>>, RisksFollow
      PROVE  IInv'
  <2>1. dep' \in [Deployment -> DeploymentRecord] /\ \A q \in Deployment : Honest(dep'[q])
    BY <1>1, DeploymentWrite
  <2> QED
    BY <1>1, <2>1 DEF IInv, TypeOK, RisksFollow
\* The deployment alone is written ...
<1>2. ASSUME NEW y \in DeploymentRecord, Honest(y), StoreDeployment(d, y),
             UNCHANGED obj, fired' \in [Objective -> Events]
      PROVE  IInv'
  BY <1>1, <1>2 DEF StoreDeployment, IInv, TypeOK
\* ... or it fails, and may take its objective with it.
<1>3. ASSUME NEW y \in DeploymentRecord, Honest(y), StoreDeployment(d, y),
             FailurePropagates(d)
      PROVE  IInv'
  BY <1>1, <1>3, FailurePropagatesDated DEF StoreDeployment
<1>4. ASSUME NEW target \in DeploymentStates
      PROVE  [x EXCEPT !.deployment_status = target] \in DeploymentRecord
  BY <1>0 DEF DeploymentRecord
<1>5. ASSUME NEW event \in Events, Emit(o, event)
      PROVE  fired' \in [Objective -> Events]
  BY <1>0, <1>5, EmittingIsTyped
<1>6. CASE CreateDeployment(d)
  <2> DEFINE y == [x EXCEPT !.deployment_status = "Planned"]
  <2>1. y \in DeploymentRecord
    BY <1>4 DEF DeploymentStates
  <2>2. Honest(y)
    BY <1>0, <1>6 DEF CreateDeployment, DeploymentRecord, Honest, Rated, InService
  <2>3. StoreDeployment(d, y) /\ UNCHANGED obj /\ fired' \in [Objective -> Events]
    BY <1>6, QuietIsTyped DEF CreateDeployment
  <2> HIDE DEF y
  <2> QED
    BY <1>2, <2>1, <2>2, <2>3
<1>7. CASE Activate(d)
  <2> DEFINE y == [x EXCEPT !.deployment_status = "Active"]
  <2>1. y \in DeploymentRecord
    BY <1>4 DEF DeploymentStates
  <2>2. Honest(y)
    BY <1>0, <1>7 DEF Activate, MoveDeployment, DeploymentRecord, Honest, Rated, InService
  <2>3. StoreDeployment(d, y) /\ UNCHANGED obj /\ fired' \in [Objective -> Events]
    BY <1>7, QuietIsTyped DEF Activate, MoveDeployment
  <2> HIDE DEF y
  <2> QED
    BY <1>2, <2>1, <2>2, <2>3
<1>8. CASE Degrade(d)
  <2> DEFINE y == [x EXCEPT !.deployment_status = "Degraded"]
  <2>1. y \in DeploymentRecord
    BY <1>4 DEF DeploymentStates
  <2>2. Honest(y)
    BY <1>0, <1>8 DEF Degrade, MoveDeployment, DeploymentRecord, Honest, Rated, InService
  <2>3. StoreDeployment(d, y) /\ UNCHANGED obj /\ fired' \in [Objective -> Events]
    BY <1>5, <1>8 DEF Degrade, MoveDeployment, Events
  <2> HIDE DEF y
  <2> QED
    BY <1>2, <2>1, <2>2, <2>3
<1>9. CASE FailDeployment(d)
  <2> DEFINE y == [x EXCEPT !.deployment_status = "Failed"]
  <2>1. y \in DeploymentRecord
    BY <1>4 DEF DeploymentStates
  <2>2. Honest(y)
    BY <1>0 DEF DeploymentRecord, Honest, Rated, InService
  <2>3. StoreDeployment(d, y) /\ FailurePropagates(d)
    BY <1>9 DEF FailDeployment, MoveDeployment
  <2> HIDE DEF y
  <2> QED
    BY <1>3, <2>1, <2>2, <2>3
<1>10. CASE Restore(d)
  <2> DEFINE y == [x EXCEPT !.deployment_status = "Active"]
  <2>1. y \in DeploymentRecord
    BY <1>4 DEF DeploymentStates
  <2>2. Honest(y)
    BY <1>0, <1>10 DEF Restore, MoveDeployment, DeploymentRecord, Honest, Rated, InService
  <2>3. StoreDeployment(d, y) /\ UNCHANGED obj /\ fired' \in [Objective -> Events]
    BY <1>5, <1>10 DEF Restore, MoveDeployment, Events
  <2> HIDE DEF y
  <2> QED
    BY <1>2, <2>1, <2>2, <2>3
<1>11. CASE Remediate(d)
  <2> DEFINE y == [x EXCEPT !.deployment_status = "Active"]
  <2>1. y \in DeploymentRecord
    BY <1>4 DEF DeploymentStates
  <2>2. Honest(y)
    BY <1>0, <1>11 DEF Remediate, MoveDeployment, DeploymentRecord, Honest, Rated, InService
  <2>3. StoreDeployment(d, y) /\ UNCHANGED obj /\ fired' \in [Objective -> Events]
    BY <1>5, <1>11 DEF Remediate, MoveDeployment, Events
  <2> HIDE DEF y
  <2> QED
    BY <1>2, <2>1, <2>2, <2>3
<1>12. CASE Decommission(d)
  <2> DEFINE y == [x EXCEPT !.deployment_status = "Decommissioned"]
  <2>1. y \in DeploymentRecord
    BY <1>4 DEF DeploymentStates
  <2>2. Honest(y)
    BY <1>0 DEF DeploymentRecord, Honest, Rated, InService
  <2>3. StoreDeployment(d, y) /\ UNCHANGED obj /\ fired' \in [Objective -> Events]
    BY <1>5, <1>12 DEF Decommission, MoveDeployment, Events
  <2> HIDE DEF y
  <2> QED
    BY <1>2, <2>1, <2>2, <2>3
<1>13. ASSUME NEW rating \in AssessedRatings, NEW evidence \in BOOLEAN,
              AssessCE(d, rating, evidence)
       PROVE  IInv'
  <2> DEFINE y == [x EXCEPT !.ce_rating = rating, !.evidence = evidence,
                            !.ce_assessed_at = today, !.contradicted = FALSE]
  <2>1. rating \in CERatings /\ today \in 0..MaxDay
    BY ControlAssumption DEF IInv, TypeOK
  <2>2. y \in DeploymentRecord
    BY <1>0, <2>1 DEF DeploymentRecord
  <2>3. StoreDeployment(d, y) /\ UNCHANGED obj
    BY <1>13 DEF AssessCE
  <2>4. Honest(y)
    <3>1. Rated(y) => y.evidence
      BY <2>3 DEF StoreDeployment, Enforced, CINV1
    <3> QED
      BY <1>0, <1>13, <3>1
      DEF AssessCE, Assessable, DeploymentRecord, Honest, Rated, InService
  <2>5. fired' \in [Objective -> Events]
    <3>1. AnnounceAssessed(d, rating)
      BY <1>13 DEF AssessCE
    <3>2. \/ Quiet
          \/ Emit(o, "deployment.degraded")
          \/ Emit(o, "deployment.restored")
      BY <3>1 DEF AnnounceAssessed
    <3> QED
      BY <1>5, <3>2, QuietIsTyped DEF Events
  <2> HIDE DEF y
  <2> QED
    BY <1>2, <2>2, <2>3, <2>4, <2>5
<1>14. CASE FailingTest(d)
  <2> DEFINE y == [x EXCEPT !.contradicted = TRUE, !.deployment_status = "Failed"]
  <2>1. y \in DeploymentRecord
    BY <1>0 DEF DeploymentRecord, DeploymentStates
  <2>2. Honest(y)
    BY <1>0 DEF DeploymentRecord, Honest, Rated, InService
  <2>3. StoreDeployment(d, y) /\ FailurePropagates(d)
    BY <1>14 DEF FailingTest
  <2> HIDE DEF y
  <2> QED
    BY <1>3, <2>1, <2>2, <2>3
<1>15. CASE FailingTestElsewhere(d)
  <2> DEFINE y == [x EXCEPT !.contradicted = TRUE]
  <2>1. y \in DeploymentRecord
    BY <1>0 DEF DeploymentRecord
  <2>2. Honest(y)
    BY <1>0, <1>15 DEF FailingTestElsewhere, DeploymentRecord, Honest, Rated, InService
  <2>3. dep' = [dep EXCEPT ![d] = y] /\ UNCHANGED <<obj, act, today>> /\ RisksFollow
    BY <1>15 DEF FailingTestElsewhere, IInv, TypeOK
  <2>4. fired' \in [Objective -> Events]
    BY <1>15, QuietIsTyped DEF FailingTestElsewhere
  <2> HIDE DEF y
  <2> QED
    BY <1>1, <2>1, <2>2, <2>3, <2>4 DEF IInv, TypeOK
<1>16. ASSUME NEW w \in Windows, UpdateDeployment(d, w)
       PROVE  IInv'
  <2> DEFINE y == [x EXCEPT !.window = w]
  <2>1. y \in DeploymentRecord
    BY <1>0 DEF DeploymentRecord
  <2>2. Honest(y)
    BY <1>0 DEF DeploymentRecord, Honest, Rated, InService
  <2>3. StoreDeployment(d, y) /\ UNCHANGED obj /\ fired' \in [Objective -> Events]
    BY <1>16, QuietIsTyped DEF UpdateDeployment
  <2> HIDE DEF y
  <2> QED
    BY <1>2, <2>1, <2>2, <2>3
<1> QED
  BY <1>6, <1>7, <1>8, <1>9, <1>10, <1>11, <1>12, <1>13, <1>14, <1>15, <1>16
  DEF DeploymentStep

-----------------------------------------------------------------------------
(* Time, jobs and risks                                                    *)

LEMMA TickIsSound ==
  ASSUME IInv, Tick
  PROVE  IInv'
<1>1. today \in 0..MaxDay /\ today < MaxDay /\ today' = today + 1
  BY DEF Tick, IInv, TypeOK
<1>2. today' \in 0..MaxDay /\ 0..today \subseteq 0..today'
  BY <1>1, ControlAssumption
<1>3. /\ UNCHANGED <<obj, act, dep>> /\ blocking' \subseteq Objective
      /\ fired' \in [Objective -> Events]
  BY QuietIsTyped DEF Tick, RisksFollow
<1>4. \A o \in Objective : Dated(obj'[o], today')
  BY <1>2, <1>3 DEF IInv, Dated
<1> QED
  BY <1>2, <1>3, <1>4 DEF IInv, TypeOK, Honest, Rated, InService

LEMMA JobsAreSound ==
  ASSUME IInv, Jobs
  PROVE  IInv'
<1>1. ASSUME NEW d \in Deployment
      PROVE  dep'[d] \in DeploymentRecord /\ Honest(dep'[d])
  <2> DEFINE y == [dep[d] EXCEPT !.ce_rating = "CE-Unvalidated"]
  <2>1. dep[d] \in DeploymentRecord /\ Honest(dep[d])
    BY DEF IInv, TypeOK
  <2>2. y \in DeploymentRecord /\ Honest(y)
    BY <2>1 DEF DeploymentRecord, CERatings, Honest, Rated, InService
  <2>3. dep'[d] = y \/ dep'[d] = dep[d]
    BY DEF Jobs
  <2> HIDE DEF y
  <2> QED
    BY <2>1, <2>2, <2>3
<1>2. dep' \in [Deployment -> DeploymentRecord]
  BY <1>1 DEF Jobs
<1>3. fired' \in [Objective -> Events] /\ UNCHANGED <<obj, act, today>>
      /\ blocking' \subseteq Objective
  BY DEF Jobs, Events, RisksFollow
<1> QED
  BY <1>1, <1>2, <1>3 DEF IInv, TypeOK

LEMMA Induction == IInv /\ [Next]_vars => IInv'
<1> SUFFICES ASSUME IInv, [Next]_vars PROVE IInv'
  OBVIOUS
<1>1. CASE \E o \in Objective : ObjectiveStep(o)
  BY <1>1, ObjectiveStepIsSound
<1>2. CASE \E a \in Activity : ActivityStep(a)
  BY <1>2, ActivityStepIsSound
<1>3. CASE \E d \in Deployment : DeploymentStep(d)
  BY <1>3, DeploymentStepIsSound
<1>4. CASE Tick
  BY <1>4, TickIsSound
<1>5. CASE Jobs
  BY <1>5, JobsAreSound
<1>6. CASE RisksMove
  BY <1>6, QuietIsTyped DEF RisksMove, RisksFollow, IInv, TypeOK
<1>7. CASE UNCHANGED vars
  BY <1>7 DEF vars, IInv, TypeOK, Honest, Rated, InService
<1> QED
  BY <1>1, <1>2, <1>3, <1>4, <1>5, <1>6, <1>7 DEF Next

-----------------------------------------------------------------------------
(* Theorems about the states                                               *)

\* IInv is an inductive invariant of the specification: types, the dates of
\* failures (CINV-5) and the honesty of ratings (DL-4).
THEOREM Inductive == Spec => []IInv
<1> QED
  BY InitIsSound, Induction, PTL DEF Spec

\* The library keeps its types under every request and job.
THEOREM Typing == Spec => []TypeOK
<1>1. IInv => TypeOK
  BY DEF IInv
<1> QED
  BY <1>1, Inductive, PTL

\* DL-4.  No deployment in service carries a rating that a later failing test
\* contradicts.
THEOREM ServiceRatingsAreHonest == Spec => []RatingsPostdateFailures
<1>1. IInv => RatingsPostdateFailures
  BY DEF IInv, Honest, RatingsPostdateFailures
<1> QED
  BY <1>1, Inductive, PTL

\* CINV-5.  Every objective in Failure is dated, and not ahead of the day.
THEOREM FailuresAreDated == Spec => []FailureIsDated
<1>1. IInv => FailureIsDated
  BY DEF IInv, Dated, FailureIsDated
<1> QED
  BY <1>1, Inductive, PTL

\* A failure is dated on the objective and outdates the ratings of the
\* deployments in service, in every reachable library.
THEOREM FailuresLeaveTheirMark == Spec => []FailureLeavesItsMark
<1>1. FailureIsDated /\ RatingsPostdateFailures => FailureLeavesItsMark
  BY DEF FailureLeavesItsMark
<1> QED
  BY <1>1, ServiceRatingsAreHonest, FailuresAreDated, PTL

-----------------------------------------------------------------------------
(* The three machines                                                      *)

LEMMA ObjectiveFollows ==
  ASSUME IInv, [Next]_vars, NEW q \in Objective
  PROVE  ObjectiveEngine!Moves(obj[q].lifecycle_state, obj'[q].lifecycle_state)
<1> USE DEF ObjectiveEngine!Moves, ObjectiveEngine!Lookup, ObjectiveStates
<1>0. obj \in [Objective -> ObjectiveRecord] /\ obj[q] \in ObjectiveRecord
  BY DEF IInv, TypeOK
<1>1. ASSUME NEW o \in Objective, ObjectiveStep(o)
      PROVE  ObjectiveEngine!Moves(obj[q].lifecycle_state, obj'[q].lifecycle_state)
  <2>1. CASE o # q
    <3>1. obj'[q] = obj[q]
      BY <1>0, <1>1, <2>1
      DEF ObjectiveStep, Implement, Operate, Fail, Recover, Redesign, Rebuild, Deprecate,
          UpdateObjective, MoveObjective
    <3> QED
      BY <3>1
  <2>2. CASE o = q
    <3>1. ASSUME NEW source, NEW target, MoveObjective(q, source, target)
          PROVE  obj[q].lifecycle_state = source /\ obj'[q].lifecycle_state = target
      BY <1>0, <3>1 DEF MoveObjective, ObjectiveRecord
    <3>2. CASE Implement(q) \/ Operate(q) \/ Rebuild(q)
      BY <3>1, <3>2 DEF Implement, Operate, Rebuild
    <3>3. CASE Fail(q)
      BY <1>0, <3>3 DEF Fail, Declared, ObjectiveRecord
    <3>4. CASE Recover(q)
      BY <1>0, <3>4 DEF Recover, ObjectiveRecord
    <3>5. CASE Redesign(q)
      BY <1>0, <3>5 DEF Redesign, ObjectiveRecord
    <3>6. CASE Deprecate(q)
      BY <1>0, <3>1, <3>6 DEF Deprecate, ObjectiveRecord
    <3>7. CASE \E l \in AutomationLevels, plan \in BOOLEAN : UpdateObjective(q, l, plan)
      BY <1>0, <3>7 DEF UpdateObjective, ObjectiveRecord
    <3> QED
      BY <1>1, <2>2, <3>2, <3>3, <3>4, <3>5, <3>6, <3>7 DEF ObjectiveStep
  <2> QED
    BY <2>1, <2>2
\* DL-1 writes the column of an operating objective.
<1>2. ASSUME NEW d \in Deployment, FailurePropagates(d)
      PROVE  ObjectiveEngine!Moves(obj[q].lifecycle_state, obj'[q].lifecycle_state)
  BY <1>0, <1>2, Parents DEF FailurePropagates, Declared, ObjectiveRecord
<1>3. ASSUME NEW d \in Deployment, DeploymentStep(d)
      PROVE  obj' = obj \/ FailurePropagates(d)
  BY <1>3
  DEF DeploymentStep, CreateDeployment, Activate, Degrade, FailDeployment, Restore,
      Remediate, Decommission, AssessCE, FailingTest, FailingTestElsewhere, UpdateDeployment
<1>4. CASE \E a \in Activity : ActivityStep(a)
  BY <1>4 DEF ActivityStep, CreateActivity, ActivateActivity, SuspendActivity,
              RetireActivity, MoveActivity
<1>5. CASE Tick \/ Jobs \/ RisksMove \/ UNCHANGED vars
  BY <1>5 DEF Tick, Jobs, RisksMove, vars
<1> QED
  BY <1>1, <1>2, <1>3, <1>4, <1>5 DEF Next

LEMMA ActivityFollows ==
  ASSUME IInv, [Next]_vars, NEW b \in Activity
  PROVE  ActivityEngine!Moves(act[b], act'[b])
<1> USE DEF ActivityEngine!Moves, ActivityEngine!Lookup, ActivityStates
<1>0. act \in [Activity -> ActivityStates]
  BY DEF IInv, TypeOK
<1>1. ASSUME NEW a \in Activity, ActivityStep(a)
      PROVE  ActivityEngine!Moves(act[b], act'[b])
  BY <1>0, <1>1 DEF ActivityStep, CreateActivity, ActivateActivity, SuspendActivity,
                    RetireActivity, MoveActivity
<1>2. ASSUME NEW o \in Objective, ObjectiveStep(o)
      PROVE  UNCHANGED act
  BY <1>2 DEF ObjectiveStep, Implement, Operate, Fail, Recover, Redesign, Rebuild,
              Deprecate, UpdateObjective, MoveObjective
<1>3. ASSUME NEW d \in Deployment, DeploymentStep(d)
      PROVE  UNCHANGED act
  BY <1>3
  DEF DeploymentStep, CreateDeployment, Activate, Degrade, FailDeployment, Restore,
      Remediate, Decommission, AssessCE, FailingTest, FailingTestElsewhere,
      UpdateDeployment, MoveDeployment, StoreDeployment
<1>4. CASE Tick \/ Jobs \/ RisksMove \/ UNCHANGED vars
  BY <1>4 DEF Tick, Jobs, RisksMove, vars
<1> QED
  BY <1>1, <1>2, <1>3, <1>4 DEF Next

\* A step writes the record of one deployment, or the job's downgrades.
LEMMA OthersUntouched ==
  ASSUME IInv, NEW d \in Deployment, DeploymentStep(d), NEW c \in Deployment \ {d}
  PROVE  dep'[c] = dep[c]
  BY DEF IInv, TypeOK, DeploymentStep, CreateDeployment, Activate, Degrade, FailDeployment,
         Restore, Remediate, Decommission, AssessCE, FailingTest, FailingTestElsewhere,
         UpdateDeployment, MoveDeployment, StoreDeployment

LEMMA DeploymentFollows ==
  ASSUME IInv, [Next]_vars, NEW c \in Deployment
  PROVE  DeploymentEngine!Moves(dep[c].deployment_status, dep'[c].deployment_status)
<1> USE DEF DeploymentEngine!Moves, DeploymentEngine!Lookup, DeploymentStates
<1>0. dep \in [Deployment -> DeploymentRecord] /\ dep[c] \in DeploymentRecord
  BY DEF IInv, TypeOK
<1>1. ASSUME DeploymentStep(c)
      PROVE  DeploymentEngine!Moves(dep[c].deployment_status, dep'[c].deployment_status)
  <2>1. ASSUME NEW sources, NEW target, MoveDeployment(c, sources, target)
        PROVE  dep[c].deployment_status \in sources /\ dep'[c].deployment_status = target
    BY <1>0, <2>1 DEF MoveDeployment, StoreDeployment, DeploymentRecord
  <2>2. CASE CreateDeployment(c)
    BY <1>0, <2>2 DEF CreateDeployment, StoreDeployment, DeploymentRecord
  <2>3. CASE Activate(c) \/ Degrade(c) \/ FailDeployment(c) \/ Restore(c) \/ Remediate(c)
    BY <2>1, <2>3 DEF Activate, Degrade, FailDeployment, Restore, Remediate
  <2>4. CASE Decommission(c)
    BY <1>0, <2>1, <2>4 DEF Decommission, DeploymentRecord
  <2>5. CASE FailingTest(c)
    BY <1>0, <2>5 DEF FailingTest, InService, StoreDeployment, DeploymentRecord
  <2>6. ASSUME \/ \E rating \in AssessedRatings, evidence \in BOOLEAN :
                    AssessCE(c, rating, evidence)
               \/ FailingTestElsewhere(c)
               \/ \E w \in Windows : UpdateDeployment(c, w)
        PROVE  dep'[c].deployment_status = dep[c].deployment_status
    BY <1>0, <2>6 DEF AssessCE, FailingTestElsewhere, UpdateDeployment, StoreDeployment,
                      DeploymentRecord
  <2> QED
    BY <1>1, <2>2, <2>3, <2>4, <2>5, <2>6 DEF DeploymentStep
<1>2. CASE \E d \in Deployment : DeploymentStep(d)
  <2>1. PICK d \in Deployment : DeploymentStep(d)
    BY <1>2
  <2>2. CASE d = c
    BY <1>1, <2>1, <2>2
  <2>3. CASE d # c
    <3>1. dep'[c] = dep[c]
      BY <2>1, <2>3, OthersUntouched
    <3> QED
      BY <3>1
  <2> QED
    BY <2>2, <2>3
<1>3. CASE \E o \in Objective : ObjectiveStep(o)
  <2>1. UNCHANGED dep
    BY <1>3 DEF ObjectiveStep, Implement, Operate, Fail, Recover, Redesign, Rebuild,
                Deprecate, UpdateObjective, MoveObjective
  <2> QED
    BY <2>1
<1>4. CASE \E a \in Activity : ActivityStep(a)
  BY <1>4 DEF ActivityStep, CreateActivity, ActivateActivity, SuspendActivity,
              RetireActivity, MoveActivity
<1>5. CASE Jobs
  BY <1>0, <1>5 DEF Jobs, DeploymentRecord
<1>6. CASE Tick \/ RisksMove \/ UNCHANGED vars
  BY <1>6 DEF Tick, RisksMove, vars
<1> QED
  BY <1>2, <1>3, <1>4, <1>5, <1>6 DEF Next

\* Requests, tests, propagated failures and jobs move every objective,
\* activity and deployment along one declared edge of its machine, or leave it.
THEOREM LibraryMachinesFollowed == Spec => FollowsLibraryMachines
<1> DEFINE objectives  == [o \in Objective |-> obj[o].lifecycle_state]
           deployments == [d \in Deployment |-> dep[d].deployment_status]
<1>1. Init => ObjectiveEngine!Init /\ ActivityEngine!Init /\ DeploymentEngine!Init
  BY DEF Init, ObjectiveEngine!Init, ActivityEngine!Init, DeploymentEngine!Init
<1>2. IInv /\ [Next]_vars => /\ [ObjectiveEngine!Fire]_objectives
                             /\ [ActivityEngine!Fire]_act
                             /\ [DeploymentEngine!Fire]_deployments
  <2> SUFFICES ASSUME IInv, [Next]_vars
               PROVE  /\ ObjectiveEngine!Fire
                      /\ ActivityEngine!Fire
                      /\ DeploymentEngine!Fire
    OBVIOUS
  <2>1. TypeOK'
    BY Induction DEF IInv
  <2>2. ObjectiveEngine!Fire
    BY <2>1, ObjectiveFollows DEF TypeOK, ObjectiveRecord, ObjectiveEngine!Fire
  <2>3. ActivityEngine!Fire
    BY <2>1, ActivityFollows DEF TypeOK, ActivityEngine!Fire
  <2>4. DeploymentEngine!Fire
    BY <2>1, DeploymentFollows DEF TypeOK, DeploymentRecord, DeploymentEngine!Fire
  <2> QED
    BY <2>2, <2>3, <2>4
<1> QED
  BY <1>1, <1>2, Inductive, PTL DEF Spec, FollowsLibraryMachines, ObjectiveEngine!Spec,
                                   ActivityEngine!Spec, DeploymentEngine!Spec

\* DL-3, AL-1 and OL-3.  No record comes back from an end state: the machines
\* have no edge out of one.
THEOREM RetirementIsFinal == Spec => EndStatesFinal
<1>1. IInv /\ [Next]_vars =>
        [/\ \A o \in Objective : obj[o].lifecycle_state = "Deprecated" =>
              obj'[o].lifecycle_state = "Deprecated"
         /\ \A a \in Activity : act[a] = "Retired" => act'[a] = "Retired"
         /\ \A d \in Deployment : dep[d].deployment_status = "Decommissioned" =>
              dep'[d].deployment_status = "Decommissioned"]_vars
  BY ObjectiveFollows, ActivityFollows, DeploymentFollows
  DEF ObjectiveEngine!Moves, ActivityEngine!Moves, DeploymentEngine!Moves
<1> QED
  BY <1>1, Inductive, PTL DEF Spec, EndStatesFinal

-----------------------------------------------------------------------------
(* Weakening                                                               *)

LEMMA Strengths ==
  ASSUME NEW x
  PROVE  /\ Strength(x) \in 0..2
         /\ ~Rated(x) => Strength(x) = 0
         /\ Contribution(x) \in 0..Strength(x)
  BY DEF Strength, CEMaxLikelihoodReduction, Rated, Contribution

\* A record in service that passes its invariants counts for all it is worth.
LEMMA StoredCountsInFull ==
  ASSUME NEW x, NEW o, Enforced(x, o), InService(x)
  PROVE  Contribution(x) = Strength(x)
  BY Strengths DEF Enforced, CINV1, CINV10, Contribution, Counted

\* Emitting for the parent is what the theorem calls announcing.
LEMMA Announced ==
  ASSUME NEW o \in Objective, NEW event \in Locking, Emit(o, event)
  PROVE  fired'[o] \in Locking
  BY DEF Emit, Silent

LEMMA DeploymentWeakeningAnnounced ==
  ASSUME IInv, NEW d \in Deployment, DeploymentStep(d),
         obj[Parent(d)].lifecycle_state = "Operating",
         Contribution(dep'[d]) < Contribution(dep[d])
  PROVE  fired'[Parent(d)] \in Locking
<1> DEFINE x == dep[d]
           o == Parent(d)
<1>0. x \in DeploymentRecord /\ o \in Objective /\ dep \in [Deployment -> DeploymentRecord]
  BY Parents DEF IInv, TypeOK
<1>1. /\ Contribution(x) > 0 /\ Contribution(x) <= Strength(x) /\ Contribution(x) \in Int
      /\ Strength(x) \in Int
  BY Strengths
\* Only a deployment in service counts, so only one can come to count less.
<1>2. InService(x)
  BY <1>1 DEF Contribution, Counted
<1>3. ASSUME FailurePropagates(d)
      PROVE  fired'[o] \in Locking
  <2>1. Emit(o, "control.failed")
    BY <1>3 DEF FailurePropagates
  <2> QED
    BY <1>0, <2>1, Announced DEF Locking
\* A write that keeps it in service must lower its rating.
<1>4. ASSUME NEW y, dep' = [dep EXCEPT ![d] = y], Enforced(y, o), InService(y)
      PROVE  Strength(y) < Strength(x)
  <2>1. dep'[d] = y
    BY <1>0, <1>4
  <2>2. Contribution(y) = Strength(y)
    BY <1>4, StoredCountsInFull
  <2>3. Strength(y) \in Int
    BY Strengths
  <2>4. Strength(y) < Contribution(x)
    BY <2>1, <2>2
  <2> QED
    BY <1>1, <2>3, <2>4
<1>5. /\ ~CreateDeployment(d) /\ ~Activate(d) /\ ~Remediate(d) /\ ~FailingTestElsewhere(d)
  BY <1>2 DEF CreateDeployment, Activate, Remediate, FailingTestElsewhere, MoveDeployment,
              InService
<1>6. CASE Degrade(d)
  <2>1. Emit(o, "deployment.degraded")
    BY <1>6 DEF Degrade
  <2> QED
    BY <1>0, <2>1, Announced DEF Locking
<1>7. CASE FailDeployment(d) \/ FailingTest(d)
  BY <1>3, <1>7 DEF FailDeployment, FailingTest
<1>8. ~Restore(d)
  <2> SUFFICES ASSUME Restore(d) PROVE FALSE
    OBVIOUS
  <2> DEFINE y == [x EXCEPT !.deployment_status = "Active"]
  <2>1. dep' = [dep EXCEPT ![d] = y] /\ Enforced(y, o)
    BY DEF Restore, MoveDeployment, StoreDeployment
  <2>2. InService(y) /\ Strength(y) = Strength(x)
    BY <1>0 DEF DeploymentRecord, InService, Strength
  <2> HIDE DEF y
  <2>3. Strength(y) < Strength(x)
    BY <1>4, <2>1, <2>2
  <2> QED
    BY <1>1, <2>2, <2>3
<1>9. CASE Decommission(d)
  <2>1. Emit(o, "deployment.decommissioned")
    BY <1>9 DEF Decommission
  <2> QED
    BY <1>0, <2>1, Announced DEF Locking
<1>10. ASSUME NEW rating \in AssessedRatings, NEW evidence \in BOOLEAN,
              AssessCE(d, rating, evidence)
       PROVE  fired'[o] \in Locking
  <2> DEFINE y == [x EXCEPT !.ce_rating = rating, !.evidence = evidence,
                            !.ce_assessed_at = today, !.contradicted = FALSE]
  <2>1. dep' = [dep EXCEPT ![d] = y] /\ Enforced(y, o)
    BY <1>10 DEF AssessCE, StoreDeployment
  <2>2. InService(y) /\ Strength(y) = CEMaxLikelihoodReduction(rating)
    BY <1>0, <1>2 DEF DeploymentRecord, InService, Strength
  <2> HIDE DEF y
  <2>3. CEMaxLikelihoodReduction(rating) < Strength(x)
    BY <1>4, <2>1, <2>2
  <2>4. Emit(o, "deployment.degraded")
    <3>1. AnnounceAssessed(d, rating)
      BY <1>10 DEF AssessCE
    <3>2. CEMaxLikelihoodReduction(rating) \in Int
      BY DEF CEMaxLikelihoodReduction
    <3>3. ~(CEMaxLikelihoodReduction(rating) > Strength(x))
      BY <1>1, <2>3, <3>2
    <3> QED
      BY <2>3, <3>1, <3>3 DEF AnnounceAssessed
  <2> QED
    BY <1>0, <2>4, Announced DEF Locking
<1>11. ~\E w \in Windows : UpdateDeployment(d, w)
  <2> SUFFICES ASSUME NEW w \in Windows, UpdateDeployment(d, w) PROVE FALSE
    OBVIOUS
  <2> DEFINE y == [x EXCEPT !.window = w]
  <2>1. dep' = [dep EXCEPT ![d] = y] /\ Enforced(y, o)
    BY DEF UpdateDeployment, StoreDeployment
  <2>2. InService(y) /\ Strength(y) = Strength(x)
    BY <1>0, <1>2 DEF DeploymentRecord, InService, Strength
  <2> HIDE DEF y
  <2>3. Strength(y) < Strength(x)
    BY <1>4, <2>1, <2>2
  <2> QED
    BY <1>1, <2>2, <2>3
<1> QED
  BY <1>5, <1>6, <1>7, <1>8, <1>9, <1>10, <1>11 DEF DeploymentStep

LEMMA WeakeningStep ==
  ASSUME IInv, [Next]_vars, NEW c \in Deployment,
         obj[Parent(c)].lifecycle_state = "Operating", today' = today,
         Contribution(dep'[c]) < Contribution(dep[c])
  PROVE  fired'[Parent(c)] \in Locking
<1>0. /\ dep \in [Deployment -> DeploymentRecord] /\ today \in Int /\ Parent(c) \in Objective
      /\ Contribution(dep[c]) \in Int
  BY Parents, ControlAssumption, Strengths DEF IInv, TypeOK
<1>1. dep'[c] # dep[c]
  BY <1>0
<1>2. ASSUME NEW d \in Deployment, DeploymentStep(d)
      PROVE  c = d
  BY <1>1, <1>2, OthersUntouched
<1>3. CASE \E d \in Deployment : DeploymentStep(d)
  BY <1>2, <1>3, DeploymentWeakeningAnnounced
<1>4. CASE Jobs
  <2>1. c \in Due
    BY <1>1, <1>4 DEF Jobs
  <2> QED
    BY <1>0, <1>4, <2>1 DEF Jobs, Locking
<1>5. ASSUME NEW o \in Objective, ObjectiveStep(o)
      PROVE  FALSE
  BY <1>1, <1>5 DEF ObjectiveStep, Implement, Operate, Fail, Recover, Redesign, Rebuild,
                    Deprecate, UpdateObjective, MoveObjective
<1>6. ASSUME NEW a \in Activity, ActivityStep(a)
      PROVE  FALSE
  BY <1>1, <1>6 DEF ActivityStep, CreateActivity, ActivateActivity, SuspendActivity,
                    RetireActivity, MoveActivity
<1>7. ~Tick /\ ~RisksMove /\ ~UNCHANGED vars
  BY <1>1 DEF Tick, RisksMove, vars
<1> QED
  BY <1>3, <1>4, <1>5, <1>6, <1>7 DEF Next

\* RCR-2.  While an objective operates, none of its deployments comes to
\* count for less, other than by the calendar, without a cascade that locks
\* the residual scores of the linked risks.
THEOREM NoSilentWeakening == Spec => WeakeningAnnounced
<1>1. IInv /\ [Next]_vars =>
        [\A d \in Deployment :
           /\ obj[Parent(d)].lifecycle_state = "Operating"
           /\ today' = today
           /\ Contribution(dep'[d]) < Contribution(dep[d])
           => fired'[Parent(d)] \in Locking]_vars
  BY WeakeningStep
<1> QED
  BY <1>1, Inductive, PTL DEF Spec, WeakeningAnnounced

=============================================================================
