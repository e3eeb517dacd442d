-------------------------- MODULE ControlEstate_proofs --------------------------
(***************************************************************************)
(* Proofs about what rests on the control library: first the reviews, for  *)
(* any library, any number of reviews and any deadline; then the estate,   *)
(* which implements the reviews, the compliance positions and the threat   *)
(* models, so that what is proved of each of them holds of the whole.      *)
(***************************************************************************)
EXTENDS ControlEstate, ControlLifecycle_proofs, FiniteSetTheorems

(* What is left to strengthen is that the reviews of one deployment never  *)
(* compete: open_for opens one only where it finds none.  IInv is that of  *)
(* the library, whose honest ratings a completion rests on.                *)
Unrivalled(d) ==
  \A v, w \in Review : v \in OpenReviews(d) /\ w \in OpenReviews(d) => v = w

ReviewsInv == ReviewTypeOK /\ \A d \in Deployment : Unrivalled(d)

RInv == IInv /\ ReviewsInv

LEMMA ReviewInitIsSound == ReviewInit => RInv
<1> SUFFICES ASSUME ReviewInit PROVE RInv
  OBVIOUS
<1>1. IInv
  BY InitIsSound DEF ReviewInit
<1>2. NewReview \in ReviewRecord /\ NewReview.lifecycle_state = "Absent"
  BY DEF NewReview, ReviewRecord, ReviewStates
<1>3. ReviewTypeOK
  BY <1>1, <1>2 DEF ReviewInit, ReviewTypeOK, IInv
<1>4. \A d \in Deployment : Unrivalled(d)
  BY <1>2 DEF ReviewInit, Unrivalled, OpenReviews
<1> QED
  BY <1>1, <1>3, <1>4 DEF RInv, ReviewsInv

-----------------------------------------------------------------------------
(* The library under the reviews                                           *)

\* Opening, testing, closing and escalating are steps of the library, or
\* steps in which it sees its risks move and nothing else.
LEMMA LibraryStepsOnly == [ReviewNext]_rvars => [Next]_vars
<1> SUFFICES ASSUME [ReviewNext]_rvars PROVE [Next]_vars
  OBVIOUS
<1>1. CASE Elsewhere
  BY <1>1 DEF Elsewhere, Next, DeploymentStep
<1>2. ASSUME NEW d \in Deployment, Repair(d)
      PROVE  Next
  BY <1>2 DEF Repair, Next, DeploymentStep
<1>3. CASE RisksMove
  BY <1>3 DEF Next
<1>4. CASE UNCHANGED rvars
  BY <1>4 DEF rvars, vars
<1> QED
  BY <1>1, <1>2, <1>3, <1>4 DEF ReviewNext, PassTest, Complete, Cancel, CloseReview, Escalate

\* A deployment that comes back into service.
Repaired(d) ==
  /\ dep[d].deployment_status \in {"Degraded", "Failed"}
  /\ dep'[d].deployment_status = "Active"

\* Only the two repair gates lead back into service.
LEMMA NothingElseRepairs ==
  ASSUME IInv, Elsewhere \/ RisksMove \/ UNCHANGED rvars, NEW d \in Deployment
  PROVE  ~Repaired(d)
<1>0. dep \in [Deployment -> DeploymentRecord] /\ dep[d] \in DeploymentRecord
  BY DEF IInv, TypeOK
<1>1. CASE UNCHANGED dep
  BY <1>1 DEF Repaired
<1>2. CASE \E o \in Objective : ObjectiveStep(o)
  BY <1>1, <1>2 DEF ObjectiveStep, Implement, Operate, Fail, Recover, Redesign, Rebuild,
                    Deprecate, UpdateObjective, MoveObjective
<1>3. CASE \E a \in Activity : ActivityStep(a)
  BY <1>1, <1>3 DEF ActivityStep, CreateActivity, ActivateActivity, SuspendActivity,
                    RetireActivity, MoveActivity
<1>4. CASE Jobs
  BY <1>0, <1>4 DEF Jobs, DeploymentRecord, Repaired
<1>5. ASSUME NEW c \in Deployment,
             \/ CreateDeployment(c) \/ Activate(c) \/ Degrade(c)
             \/ FailDeployment(c) \/ Decommission(c)
             \/ \E rating \in AssessedRatings, evidence \in BOOLEAN :
                  AssessCE(c, rating, evidence)
             \/ FailingTest(c) \/ FailingTestElsewhere(c)
             \/ \E w \in Windows : UpdateDeployment(c, w)
      PROVE  ~Repaired(d)
  <2>1. CASE c # d
    <3>1. DeploymentStep(c)
      BY <1>5 DEF DeploymentStep
    <3> QED
      BY <2>1, <3>1, OthersUntouched DEF Repaired
  <2>2. CASE c = d
    <3>1. ASSUME NEW sources, NEW target, MoveDeployment(d, sources, target)
          PROVE  dep[d].deployment_status \in sources /\ dep'[d].deployment_status = target
      BY <1>0, <3>1 DEF MoveDeployment, StoreDeployment, DeploymentRecord
    <3>2. CASE Activate(d) \/ Degrade(d) \/ FailDeployment(d) \/ Decommission(d)
      BY <3>1, <3>2 DEF Activate, Degrade, FailDeployment, Decommission, Repaired
    <3>3. CASE CreateDeployment(d)
      BY <1>0, <3>3 DEF CreateDeployment, StoreDeployment, DeploymentRecord, Repaired
    <3>4. CASE FailingTest(d)
      BY <1>0, <3>4 DEF FailingTest, StoreDeployment, DeploymentRecord, Repaired
    <3>5. ASSUME \/ \E rating \in AssessedRatings, evidence \in BOOLEAN :
                      AssessCE(d, rating, evidence)
                 \/ FailingTestElsewhere(d)
                 \/ \E w \in Windows : UpdateDeployment(d, w)
          PROVE  dep'[d].deployment_status = dep[d].deployment_status
      BY <1>0, <3>5 DEF AssessCE, FailingTestElsewhere, UpdateDeployment, StoreDeployment,
                        DeploymentRecord
    <3> QED
      BY <1>5, <2>2, <3>2, <3>3, <3>4, <3>5 DEF Repaired
  <2> QED
    BY <2>1, <2>2
<1> QED
  BY <1>1, <1>2, <1>3, <1>4, <1>5 DEF Elsewhere, Tick, RisksMove, rvars

-----------------------------------------------------------------------------
(* Writes of reviews                                                       *)

LEMMA ReviewsRead ==
  ASSUME RInv, NEW v \in Review
  PROVE  review[v] \in ReviewRecord /\ review \in [Review -> ReviewRecord]
  BY DEF RInv, ReviewsInv, ReviewTypeOK

\* The columns of a review may change; none is opened or moved.
LEMMA ReviewsKept ==
  ASSUME RInv, TypeOK', review' \in [Review -> ReviewRecord],
         \A v \in Review :
           /\ review'[v].deployment = review[v].deployment
           /\ review'[v].due_date = review[v].due_date
           /\ \/ review'[v].lifecycle_state = review[v].lifecycle_state
              \/ review'[v].lifecycle_state = "Cancelled" /\ review[v].lifecycle_state = "Open"
              \/ /\ review'[v].lifecycle_state = "Completed" /\ review'[v].passed # "None"
                 /\ review[v].lifecycle_state = "Open"
           /\ review[v].passed # "None" => review'[v].passed # "None"
  PROVE  ReviewsInv'
<1>1. ReviewTypeOK'
  BY DEF RInv, ReviewsInv, ReviewTypeOK
<1>2. \A d \in Deployment : OpenReviews(d)' \subseteq OpenReviews(d)
  BY DEF OpenReviews
<1> QED
  BY <1>1, <1>2 DEF RInv, ReviewsInv, Unrivalled

LEMMA OutlivedKeeps ==
  ASSUME NEW x \in ReviewRecord
  PROVE  /\ Outlived(x) \in ReviewRecord
         /\ Outlived(x).lifecycle_state = x.lifecycle_state
         /\ Outlived(x).deployment = x.deployment
         /\ Outlived(x).due_date = x.due_date
         /\ x.passed # "None" => Outlived(x).passed # "None"
  BY DEF Outlived, ReviewRecord

\* A repair leaves exactly one open review of its deployment.
LEMMA RepairOpensOne ==
  ASSUME RInv, TypeOK', NEW d \in Deployment, OpenFor(d)
  PROVE  ReviewsInv' /\ Cardinality(OpenReviews(d)') = 1
<1>1. CASE OpenReviews(d) # {}
  <2>1. review' = [v \in Review |->
                     IF v \in OpenReviews(d) THEN Outlived(review[v]) ELSE review[v]]
    BY <1>1 DEF OpenFor
  <2>2. /\ review' \in [Review -> ReviewRecord]
        /\ \A v \in Review :
             /\ review'[v].deployment = review[v].deployment
             /\ review'[v].due_date = review[v].due_date
             /\ review'[v].lifecycle_state = review[v].lifecycle_state
             /\ review[v].passed # "None" => review'[v].passed # "None"
    BY <2>1, ReviewsRead, OutlivedKeeps
  <2>3. ReviewsInv'
    BY <2>2, ReviewsKept
  <2>4. PICK v \in Review : OpenReviews(d) = {v}
    BY <1>1 DEF RInv, ReviewsInv, Unrivalled, OpenReviews
  <2>5. OpenReviews(d)' = {v}
    BY <2>2, <2>4 DEF OpenReviews
  <2> QED
    BY <2>3, <2>5, FS_Singleton
<1>2. CASE OpenReviews(d) = {}
  <2> DEFINE x == Opened(d)
  <2>1. PICK v \in Review : /\ review[v].lifecycle_state = "Absent"
                            /\ review' = [review EXCEPT ![v] = x]
    BY <1>2 DEF OpenFor
  <2>2. today + ReviewDays \in 0..(MaxDay + ReviewDays)
    BY ControlAssumption, ReviewAssumption DEF RInv, IInv, TypeOK
  <2>3. /\ x \in ReviewRecord /\ x.lifecycle_state = "Open" /\ x.deployment = d
        /\ x.due_date = today + ReviewDays
    BY <2>2 DEF Opened, NewReview, ReviewRecord, ReviewStates
  <2>4. x.due_date # NoDate
    BY <2>2, <2>3 DEF NoDate
  <2> HIDE DEF x
  <2>5. ReviewTypeOK'
    BY <2>1, <2>3, <2>4 DEF RInv, ReviewsInv, ReviewTypeOK
  <2>6. /\ review'[v] = x
        /\ \A w \in Review \ {v} : review'[w] = review[w]
    BY <2>1 DEF RInv, ReviewsInv, ReviewTypeOK
  <2>7. OpenReviews(d)' = {v}
    BY <1>2, <2>3, <2>6 DEF OpenReviews
  <2>8. \A e \in Deployment \ {d} : OpenReviews(e)' = OpenReviews(e)
    BY <2>1, <2>3, <2>6 DEF OpenReviews
  <2>9. \A e \in Deployment : Unrivalled(e)'
    BY <2>7, <2>8 DEF RInv, ReviewsInv, Unrivalled
  <2> QED
    BY <2>5, <2>7, <2>9, FS_Singleton DEF ReviewsInv
<1> QED
  BY <1>1, <1>2

-----------------------------------------------------------------------------
(* Steps                                                                   *)

OneEach == \A d \in Deployment : Repaired(d) => Cardinality(OpenReviews(d)') = 1

\* A completion finds a deployment in service, rated since its last failure.
Fresh ==
  \A v \in Review : Completes(v) =>
    LET x == dep[review[v].deployment]
    IN InService(x) /\ Rated(x) /\ ~x.contradicted

LEMMA UnwrittenReviews ==
  ASSUME RInv, TypeOK', UNCHANGED review
  PROVE  ReviewsInv' /\ Fresh
<1>1. ReviewsInv'
  BY ReviewsKept, ReviewsRead DEF RInv, ReviewsInv, ReviewTypeOK
<1> QED
  BY <1>1 DEF Fresh, Completes

LEMMA RepairsKeep ==
  ASSUME RInv, TypeOK', NEW d \in Deployment, Repair(d)
  PROVE  ReviewsInv' /\ OneEach /\ Fresh
<1>1. ReviewsInv' /\ Cardinality(OpenReviews(d)') = 1
  BY RepairOpensOne DEF Repair
<1>2. \A e \in Deployment \ {d} : dep'[e] = dep[e]
  BY OthersUntouched DEF Repair, DeploymentStep, RInv
<1>3. OneEach
  BY <1>1, <1>2 DEF OneEach, Repaired
<1>4. \A v \in Review : ~Completes(v)
  <2> SUFFICES ASSUME NEW v \in Review PROVE ~Completes(v)
    OBVIOUS
  <2>1. OpenFor(d)
    BY DEF Repair
  <2>2. CASE OpenReviews(d) # {}
    <3>1. review'[v] \in {Outlived(review[v]), review[v]}
      BY <2>1, <2>2 DEF OpenFor
    <3> QED
      BY <3>1, ReviewsRead, OutlivedKeeps DEF Completes
  <2>3. CASE OpenReviews(d) = {}
    <3>1. Opened(d).lifecycle_state = "Open"
      BY DEF Opened, NewReview
    <3>2. review'[v] \in {Opened(d), review[v]}
      BY <2>1, <2>3, ReviewsRead DEF OpenFor
    <3> QED
      BY <3>1, <3>2 DEF Completes
  <2> QED
    BY <2>2, <2>3
<1> QED
  BY <1>1, <1>3, <1>4 DEF Fresh

LEMMA PassesAndEscalationsKeep ==
  ASSUME RInv, TypeOK', Escalate \/ \E d \in Deployment : PassTest(d)
  PROVE  ReviewsInv' /\ Fresh
<1>1. \A v \in Review :
        /\ [review[v] EXCEPT !.passed = "SinceRepair"] \in ReviewRecord
        /\ [review[v] EXCEPT !.escalated = TRUE] \in ReviewRecord
  BY ReviewsRead DEF ReviewRecord
<1>2. /\ review' \in [Review -> ReviewRecord]
      /\ \A v \in Review :
           review'[v] \in {review[v], [review[v] EXCEPT !.passed = "SinceRepair"],
                           [review[v] EXCEPT !.escalated = TRUE]}
  BY <1>1, ReviewsRead DEF PassTest, Escalate
<1>3. \A v \in Review :
        /\ review'[v].deployment = review[v].deployment
        /\ review'[v].due_date = review[v].due_date
        /\ review'[v].lifecycle_state = review[v].lifecycle_state
        /\ review[v].passed # "None" => review'[v].passed # "None"
  BY <1>2, ReviewsRead DEF ReviewRecord
<1>4. ReviewsInv'
  BY <1>2, <1>3, ReviewsKept
<1> QED
  BY <1>3, <1>4 DEF Fresh, Completes

LEMMA ClosingsKeep ==
  ASSUME RInv, TypeOK', NEW v \in Review, Complete(v) \/ Cancel(v)
  PROVE  ReviewsInv' /\ Fresh
<1> DEFINE closed(state) == [review[v] EXCEPT !.lifecycle_state = state]
<1>1. PICK state \in {"Completed", "Cancelled"} :
        /\ review' = [review EXCEPT ![v] = closed(state)]
        /\ review[v].lifecycle_state = "Open"
        /\ state = "Completed" =>
             /\ review[v].passed # "None"
             /\ InService(dep[review[v].deployment]) /\ Rated(dep[review[v].deployment])
  BY DEF Complete, Cancel, CloseReview
<1>2. /\ closed(state) \in ReviewRecord
      /\ closed(state).deployment = review[v].deployment
      /\ closed(state).due_date = review[v].due_date
      /\ closed(state).passed = review[v].passed
      /\ closed(state).lifecycle_state = state
  BY <1>1, ReviewsRead DEF ReviewRecord, ReviewStates
<1> HIDE DEF closed
<1>3. /\ review' \in [Review -> ReviewRecord]
      /\ review'[v] = closed(state)
      /\ \A w \in Review \ {v} : review'[w] = review[w]
  BY <1>1, <1>2, ReviewsRead
<1>4. ReviewsInv'
  BY <1>1, <1>2, <1>3, ReviewsKept
<1>5. review[v].deployment \in Deployment
  BY <1>1 DEF RInv, ReviewsInv, ReviewTypeOK
<1>6. Honest(dep[review[v].deployment])
  BY <1>5 DEF RInv, IInv
<1>7. Fresh
  BY <1>1, <1>2, <1>3, <1>6 DEF Fresh, Completes, Honest
<1> QED
  BY <1>4, <1>7

LEMMA ReviewStepsKeep ==
  ASSUME RInv, [ReviewNext]_rvars
  PROVE  RInv' /\ OneEach /\ Fresh
<1>1. IInv'
  BY LibraryStepsOnly, Induction DEF RInv
<1>2. TypeOK'
  BY <1>1 DEF IInv
<1>3. CASE (Elsewhere /\ UNCHANGED review) \/ UNCHANGED rvars
  <2>1. UNCHANGED review
    BY <1>3 DEF rvars
  <2>2. OneEach
    BY <1>3, NothingElseRepairs DEF OneEach, RInv
  <2> QED
    BY <1>1, <1>2, <2>1, <2>2, UnwrittenReviews DEF RInv
<1>4. ASSUME NEW d \in Deployment, Repair(d)
      PROVE  RInv' /\ OneEach /\ Fresh
  BY <1>1, <1>2, <1>4, RepairsKeep DEF RInv
<1>5. CASE Escalate \/ (\E d \in Deployment : PassTest(d))
           \/ \E v \in Review : Complete(v) \/ Cancel(v)
  <2>1. RisksMove
    BY <1>5 DEF Escalate, PassTest, Complete, Cancel, CloseReview
  <2>2. OneEach
    BY <2>1, NothingElseRepairs DEF OneEach, RInv
  <2>3. ReviewsInv' /\ Fresh
    BY <1>2, <1>5, PassesAndEscalationsKeep, ClosingsKeep
  <2> QED
    BY <1>1, <2>2, <2>3 DEF RInv
<1> QED
  BY <1>3, <1>4, <1>5 DEF ReviewNext

-----------------------------------------------------------------------------
(* Theorems about reviews                                                  *)

\* The library under reviews is the library: no step of a review is one it
\* does not take.
THEOREM LibraryUnderReviews == ReviewSpec => Spec
  BY LibraryStepsOnly, PTL DEF ReviewSpec, ReviewInit, Spec

\* Types, at most one open review of a deployment, and the library's own
\* invariant are inductive together.
THEOREM ReviewsInductive == ReviewSpec => []RInv
  BY ReviewInitIsSound, ReviewStepsKeep, PTL DEF ReviewSpec

\* Types, with the constraint of the table: what is completed has a pass.
THEOREM ReviewTyping == ReviewSpec => []ReviewTypeOK
<1>1. RInv => ReviewTypeOK
  BY DEF RInv, ReviewsInv
<1> QED
  BY <1>1, ReviewsInductive, PTL

\* REV-1: a deployment that returns to service, whatever became of earlier
\* repairs and their reviews, has exactly one open review.
THEOREM RepairsOpenOneReview == ReviewSpec => OneReviewPerRepair
<1>1. RInv /\ [ReviewNext]_rvars =>
        [\A d \in Deployment :
           /\ dep[d].deployment_status \in {"Degraded", "Failed"}
           /\ dep'[d].deployment_status = "Active"
           => Cardinality(OpenReviews(d)') = 1]_rvars
  BY ReviewStepsKeep DEF OneEach, Repaired
<1> QED
  BY <1>1, ReviewsInductive, PTL DEF ReviewSpec, OneReviewPerRepair

\* REV-3 with DL-4: the gate of a completion reads no dates, and no review
\* completes on a rating that a later failing test contradicts.
THEOREM CompletionsAreFresh == ReviewSpec => CompletionRestsOnFreshRating
<1>1. RInv /\ [ReviewNext]_rvars =>
        [\A v \in Review : Completes(v) =>
           LET x == dep[review[v].deployment]
           IN InService(x) /\ Rated(x) /\ ~x.contradicted]_rvars
  BY ReviewStepsKeep DEF Fresh
<1> QED
  BY <1>1, ReviewsInductive, PTL DEF ReviewSpec, CompletionRestsOnFreshRating

LEMMA ReviewMoves ==
  ASSUME RInv, [ReviewNext]_rvars, NEW v \in Review
  PROVE  ReviewEngine!Moves(review[v].lifecycle_state, review'[v].lifecycle_state)
<1> USE DEF ReviewEngine!Moves, ReviewEngine!Lookup, ReviewStates
<1>0. review \in [Review -> ReviewRecord] /\ review[v] \in ReviewRecord
  BY ReviewsRead
<1>1. ASSUME NEW d \in Deployment, OpenFor(d)
      PROVE  ReviewEngine!Moves(review[v].lifecycle_state, review'[v].lifecycle_state)
  <2>1. CASE OpenReviews(d) # {}
    BY <1>0, <1>1, <2>1, OutlivedKeeps DEF OpenFor
  <2>2. CASE OpenReviews(d) = {}
    <3>1. Opened(d).lifecycle_state = "Open"
      BY DEF Opened, NewReview
    <3> QED
      BY <1>0, <1>1, <2>2, <3>1 DEF OpenFor
  <2> QED
    BY <2>1, <2>2
<1>2. ASSUME NEW w \in Review, NEW state \in {"Completed", "Cancelled"}, CloseReview(w, state)
      PROVE  ReviewEngine!Moves(review[v].lifecycle_state, review'[v].lifecycle_state)
  BY <1>0, <1>2 DEF CloseReview, ReviewRecord
<1>3. CASE Escalate \/ \E d \in Deployment : PassTest(d)
  BY <1>0, <1>3 DEF Escalate, PassTest, ReviewRecord
<1>4. CASE UNCHANGED review
  BY <1>4
<1> QED
  BY <1>1, <1>2, <1>3, <1>4 DEF ReviewNext, Repair, Complete, Cancel, rvars

\* Repairs, closures, tests and escalations move every review along one
\* declared edge of its machine, or leave it.
THEOREM ReviewMachineFollowed == ReviewSpec => FollowsReviewMachine
<1> DEFINE state == [v \in Review |-> review[v].lifecycle_state]
<1>1. ReviewInit => ReviewEngine!Init
  BY DEF ReviewInit, NewReview, ReviewEngine!Init
<1>2. RInv /\ [ReviewNext]_rvars => [ReviewEngine!Fire]_state
  <2> SUFFICES ASSUME RInv, [ReviewNext]_rvars PROVE ReviewEngine!Fire
    OBVIOUS
  <2>1. \A v \in Review : review'[v] \in ReviewRecord
    BY ReviewStepsKeep DEF RInv, ReviewsInv, ReviewTypeOK
  <2> QED
    BY <2>1, ReviewMoves DEF ReviewRecord, ReviewEngine!Fire
<1> QED
  BY <1>1, <1>2, ReviewsInductive, PTL DEF ReviewSpec, FollowsReviewMachine, ReviewEngine!Spec

-----------------------------------------------------------------------------
(* The estate: the library and its reviews are as before                   *)

LEMMA IdleIsElsewhere ==
  ASSUME RInv, Idle
  PROVE  RisksMove /\ UNCHANGED review
  BY DEF RInv, IInv, TypeOK, Idle, RisksMove, RisksFollow

\* What reaches the dependants is a step of the library, and what they do
\* among themselves is one in which the library rests.
LEMMA EstateStepsAreReviewSteps ==
  ASSUME RInv, [EstateNext]_evars
  PROVE  [ReviewNext]_rvars
<1>1. CASE Heard
  <2>1. UNCHANGED review
    BY <1>1 DEF Heard
  <2>2. \/ \E o \in Objective : ObjectiveStep(o)
        \/ \E d \in Deployment : FailDeployment(d) \/ FailingTest(d) \/ Decommission(d)
    BY <1>1 DEF Heard, ObjectiveFails, ObjectiveRetires, DeploymentFails, DeploymentRetires,
                ObjectiveStep
  <2> QED
    BY <2>1, <2>2 DEF ReviewNext, Elsewhere
<1>2. CASE Unheard
  <2>1. UnheardLibrary => Elsewhere
    BY DEF UnheardLibrary, Elsewhere, ObjectiveStep
  <2> QED
    BY <1>2, <2>1 DEF Unheard, ReviewNext
<1>3. CASE ComplianceStep \/ ThreatStep
  <2>1. Idle
    BY <1>3 DEF ComplianceStep, ThreatStep
  <2> QED
    BY <2>1, IdleIsElsewhere DEF ReviewNext, Elsewhere
<1>4. CASE UNCHANGED evars
  BY <1>4 DEF evars, rvars
<1> QED
  BY <1>1, <1>2, <1>3, <1>4 DEF EstateNext

LEMMA EstateKeepsReviews ==
  ASSUME RInv, [EstateNext]_evars
  PROVE  RInv' /\ [ReviewNext]_rvars
  BY EstateStepsAreReviewSteps, ReviewStepsKeep

\* The library's and the reviews' invariant is the estate's.
THEOREM EstateInductive == EstateSpec => []RInv
  BY ReviewInitIsSound, EstateKeepsReviews, PTL DEF EstateSpec, EstateInit

\* The estate implements the library under reviews: every theorem above, and
\* every one about the library, holds of it.
THEOREM ReviewsInTheEstate == EstateSpec => ReviewSpec
  BY EstateInductive, EstateKeepsReviews, PTL DEF EstateSpec, EstateInit, ReviewSpec

-----------------------------------------------------------------------------
(* What the dependants see of a step of the library                        *)

LEMMA RecordsRead ==
  ASSUME RInv
  PROVE  /\ obj \in [Objective -> ObjectiveRecord] /\ dep \in [Deployment -> DeploymentRecord]
         /\ \A d \in Deployment : Parent(d) \in Objective
  BY Parents DEF RInv, IInv, TypeOK

LEMMA ServicesUntouched ==
  ASSUME \A d \in Deployment : dep'[d].deployment_status = dep[d].deployment_status
  PROVE  DeploymentSeen' = DeploymentSeen /\ Live' = Live
  BY DEF DeploymentSeen, Live, InService

LEMMA StatesUntouched ==
  ASSUME \A o \in Objective : obj'[o].lifecycle_state = obj[o].lifecycle_state
  PROVE  ObjectiveSeen' = ObjectiveSeen
  BY DEF ObjectiveSeen

LEMMA OneServiceMoves ==
  ASSUME NEW d \in Deployment, NEW status, dep'[d].deployment_status = status,
         \A c \in Deployment \ {d} : dep'[c] = dep[c]
  PROVE  /\ DeploymentSeen' = [DeploymentSeen EXCEPT ![d] = ServiceSeen(status)]
         /\ Live' = IF status \in {"Active", "Degraded"} THEN Live \cup {d} ELSE Live \ {d}
<1> DEFINE s == ServiceSeen(status)
<1>1. DeploymentSeen' = [c \in Deployment |-> ServiceSeen(dep'[c].deployment_status)]
  BY DEF DeploymentSeen, ServiceSeen
<1>2. \A c \in Deployment : DeploymentSeen'[c] = IF c = d THEN s ELSE DeploymentSeen[c]
  BY <1>1 DEF DeploymentSeen
<1> HIDE DEF s
<1>3. DeploymentSeen' = [DeploymentSeen EXCEPT ![d] = s]
  <2>1. /\ DeploymentSeen' = [c \in Deployment |-> DeploymentSeen'[c]]
        /\ DeploymentSeen = [c \in Deployment |-> DeploymentSeen[c]]
    BY DEF DeploymentSeen
  <2> QED
    BY <1>2, <2>1
<1>4. Live' = IF status \in {"Active", "Degraded"} THEN Live \cup {d} ELSE Live \ {d}
  BY DEF Live, InService
<1> QED
  BY <1>3, <1>4 DEF s

LEMMA OneObjectiveMoves ==
  ASSUME NEW o \in Objective, NEW state, obj'[o].lifecycle_state = state,
         \A p \in Objective \ {o} : obj'[p] = obj[p]
  PROVE  ObjectiveSeen' = [ObjectiveSeen EXCEPT ![o] = StateSeen(state)]
<1> DEFINE s == StateSeen(state)
<1>1. ObjectiveSeen' = [p \in Objective |-> StateSeen(obj'[p].lifecycle_state)]
  BY DEF ObjectiveSeen, StateSeen
<1>2. \A p \in Objective : ObjectiveSeen'[p] = IF p = o THEN s ELSE ObjectiveSeen[p]
  BY <1>1 DEF ObjectiveSeen
<1> HIDE DEF s
<1>3. ObjectiveSeen' = [ObjectiveSeen EXCEPT ![o] = s]
  <2>1. /\ ObjectiveSeen' = [p \in Objective |-> ObjectiveSeen'[p]]
        /\ ObjectiveSeen = [p \in Objective |-> ObjectiveSeen[p]]
    BY DEF ObjectiveSeen
  <2> QED
    BY <1>2, <2>1
<1> QED
  BY <1>3 DEF s

\* Going down, leaving for good, coming up.
LossSeen(d, service) ==
  /\ DeploymentSeen' = [DeploymentSeen EXCEPT ![d] = service]
  /\ Live' = Live \ {d}

ReturnSeen(d) ==
  /\ DeploymentSeen[d] = "Out_Of_Service" /\ d \notin Live
  /\ DeploymentSeen' = [DeploymentSeen EXCEPT ![d] = "In_Service"]
  /\ Live' = Live \cup {d}

LEMMA StatusMoves ==
  ASSUME RInv, NEW d \in Deployment, NEW sources, NEW target, MoveDeployment(d, sources, target)
  PROVE  dep[d].deployment_status \in sources /\ dep'[d].deployment_status = target
  BY RecordsRead DEF MoveDeployment, StoreDeployment, DeploymentRecord

LEMMA OthersKept ==
  ASSUME RInv, NEW d \in Deployment, DeploymentStep(d), NEW c \in Deployment \ {d}
  PROVE  dep'[c] = dep[c]
  BY OthersUntouched DEF RInv

LEMMA FailuresSeen ==
  ASSUME RInv, NEW d \in Deployment, FailDeployment(d) \/ FailingTest(d)
  PROVE  d \in Live /\ DeploymentSeen[d] = "In_Service" /\ LossSeen(d, "Out_Of_Service")
<1>1. InService(dep[d]) /\ dep'[d].deployment_status = "Failed"
  <2>1. CASE FailDeployment(d)
    BY <2>1, StatusMoves DEF FailDeployment, InService
  <2>2. CASE FailingTest(d)
    BY <2>2, RecordsRead DEF FailingTest, StoreDeployment, DeploymentRecord
  <2> QED
    BY <2>1, <2>2
<1>2. \A c \in Deployment \ {d} : dep'[c] = dep[c]
  BY OthersKept DEF DeploymentStep
<1>3. ServiceSeen("Failed") = "Out_Of_Service"
  BY DEF ServiceSeen
<1> QED
  BY <1>1, <1>2, <1>3, OneServiceMoves DEF LossSeen, Live, DeploymentSeen, ServiceSeen, InService

LEMMA RetirementsSeen ==
  ASSUME RInv, NEW d \in Deployment, Decommission(d)
  PROVE  LossSeen(d, "Decommissioned")
<1>1. dep'[d].deployment_status = "Decommissioned"
  BY StatusMoves DEF Decommission
<1>2. \A c \in Deployment \ {d} : dep'[c] = dep[c]
  BY OthersKept DEF DeploymentStep
<1>3. ServiceSeen("Decommissioned") = "Decommissioned"
  BY DEF ServiceSeen
<1> QED
  BY <1>1, <1>2, <1>3, OneServiceMoves DEF LossSeen

LEMMA ReturnsSeen ==
  ASSUME RInv, NEW d \in Deployment, Activate(d) \/ Remediate(d)
  PROVE  ReturnSeen(d)
<1>1. dep[d].deployment_status \in {"Planned", "Failed"} /\ dep'[d].deployment_status = "Active"
  BY StatusMoves DEF Activate, Remediate
<1>2. \A c \in Deployment \ {d} : dep'[c] = dep[c]
  BY OthersKept DEF DeploymentStep
<1>3. ServiceSeen("Active") = "In_Service"
  BY DEF ServiceSeen
<1> QED
  BY <1>1, <1>2, <1>3, OneServiceMoves
  DEF ReturnSeen, Live, DeploymentSeen, ServiceSeen, InService

\* The other writes of a deployment, the assessments and the restorations
\* among them, move no service.
LEMMA NothingSeenOfAWrite ==
  ASSUME RInv, NEW d \in Deployment,
         \/ CreateDeployment(d) \/ Degrade(d) \/ Restore(d) \/ FailingTestElsewhere(d)
         \/ \E rating \in AssessedRatings, evidence \in BOOLEAN : AssessCE(d, rating, evidence)
         \/ \E w \in Windows : UpdateDeployment(d, w)
  PROVE  DeploymentSeen' = DeploymentSeen /\ Live' = Live
<1>1. /\ ServiceSeen(dep'[d].deployment_status) = ServiceSeen(dep[d].deployment_status)
      /\ InService(dep'[d]) <=> InService(dep[d])
  <2>1. CASE CreateDeployment(d)
    BY <2>1, RecordsRead DEF CreateDeployment, StoreDeployment, DeploymentRecord, ServiceSeen,
                             InService
  <2>2. CASE Degrade(d) \/ Restore(d)
    <3>1. /\ dep[d].deployment_status \in {"Active", "Degraded"}
          /\ dep'[d].deployment_status \in {"Active", "Degraded"}
      BY <2>2, StatusMoves DEF Degrade, Restore
    <3> QED
      BY <3>1 DEF ServiceSeen, InService
  <2>3. CASE ~(CreateDeployment(d) \/ Degrade(d) \/ Restore(d))
    <3>1. dep'[d].deployment_status = dep[d].deployment_status
      BY <2>3, RecordsRead DEF FailingTestElsewhere, AssessCE, UpdateDeployment,
                               StoreDeployment, DeploymentRecord
    <3> QED
      BY <3>1 DEF ServiceSeen, InService
  <2> QED
    BY <2>1, <2>2, <2>3
<1>2. \A c \in Deployment \ {d} : dep'[c] = dep[c]
  BY OthersKept DEF DeploymentStep
<1>3. \A c \in Deployment :
        /\ ServiceSeen(dep'[c].deployment_status) = ServiceSeen(dep[c].deployment_status)
        /\ InService(dep'[c]) <=> InService(dep[c])
  BY <1>1, <1>2 DEF ServiceSeen, InService
<1>4. DeploymentSeen' = [c \in Deployment |-> ServiceSeen(dep'[c].deployment_status)]
  BY DEF DeploymentSeen, ServiceSeen
<1>5. Live' = {c \in Deployment : InService(dep'[c])}
  BY DEF Live, InService
<1> QED
  BY <1>3, <1>4, <1>5 DEF DeploymentSeen, Live

\* The same of objectives.
StateMoves(o, state) == ObjectiveSeen' = [ObjectiveSeen EXCEPT ![o] = state]

Unserved == DeploymentSeen' = DeploymentSeen /\ Live' = Live

LEMMA UnservedByObjectives ==
  ASSUME UNCHANGED dep
  PROVE  Unserved
  BY DEF Unserved, DeploymentSeen, Live

LEMMA ObjectiveStepsRead ==
  ASSUME RInv, NEW o \in Objective, NEW x, obj' = [obj EXCEPT ![o] = x]
  PROVE  /\ obj'[o] = x
         /\ \A p \in Objective \ {o} : obj'[p] = obj[p]
  BY RecordsRead

LEMMA DeclarationSeen ==
  ASSUME RInv, NEW o \in Objective, obj[o].lifecycle_state = "Operating",
         obj' = [obj EXCEPT ![o] = Declared(obj[o])]
  PROVE  ObjectiveSeen[o] = "Operating" /\ StateMoves(o, "Failure")
<1>1. obj'[o].lifecycle_state = "Failure" /\ \A p \in Objective \ {o} : obj'[p] = obj[p]
  BY RecordsRead DEF Declared, ObjectiveRecord
<1>2. StateSeen("Failure") = "Failure" /\ StateSeen("Operating") = "Operating"
  BY DEF StateSeen
<1> QED
  BY <1>1, <1>2, OneObjectiveMoves DEF StateMoves, ObjectiveSeen, StateSeen

\* The gates that move an objective and write nothing else of it.
LEMMA MovesSeen ==
  ASSUME RInv, NEW o \in Objective, NEW source, NEW target, MoveObjective(o, source, target)
  PROVE  /\ obj[o].lifecycle_state = source
         /\ StateMoves(o, StateSeen(target))
         /\ Unserved
<1>1. /\ obj[o].lifecycle_state = source
      /\ obj'[o].lifecycle_state = target /\ \A p \in Objective \ {o} : obj'[p] = obj[p]
  BY RecordsRead DEF MoveObjective, ObjectiveRecord
<1> QED
  BY <1>1, OneObjectiveMoves, UnservedByObjectives DEF MoveObjective, StateMoves

LEMMA OperationSeen ==
  ASSUME RInv, NEW o \in Objective, Operate(o) \/ Recover(o)
  PROVE  /\ ObjectiveSeen[o] \in {"Building", "Failure"}
         /\ \E d \in Live : ParentOf[d] = o
         /\ StateMoves(o, "Operating")
         /\ Unserved
<1>1. /\ obj[o].lifecycle_state \in {"Implementation", "Failure"}
      /\ StateMoves(o, StateSeen("Operating"))
      /\ Unserved
  <2>1. CASE Operate(o)
    BY <2>1, MovesSeen DEF Operate
  <2>2. CASE Recover(o)
    <3>1. obj'[o].lifecycle_state = "Operating" /\ \A p \in Objective \ {o} : obj'[p] = obj[p]
      BY <2>2, RecordsRead DEF Recover, ObjectiveRecord
    <3> QED
      BY <2>2, <3>1, OneObjectiveMoves, UnservedByObjectives DEF Recover, StateMoves
  <2> QED
    BY <2>1, <2>2
<1>2. \E d \in Live : ParentOf[d] = o
  BY DEF Operate, Recover, Operational, DeploymentsOf, Live, InService, ParentOf
<1>3. StateSeen("Operating") = "Operating"
  BY DEF StateSeen
<1> QED
  BY <1>1, <1>2, <1>3 DEF ObjectiveSeen, StateSeen

LEMMA RedesignSeen ==
  ASSUME RInv, NEW o \in Objective, Redesign(o)
  PROVE  ObjectiveSeen[o] = "Failure" /\ StateMoves(o, "Building") /\ Unserved
<1>1. obj'[o].lifecycle_state = "Redesign" /\ \A p \in Objective \ {o} : obj'[p] = obj[p]
  BY RecordsRead DEF Redesign, ObjectiveRecord
<1>2. StateSeen("Redesign") = "Building"
  BY DEF StateSeen
<1> QED
  BY <1>1, <1>2, OneObjectiveMoves, UnservedByObjectives
  DEF Redesign, StateMoves, ObjectiveSeen, StateSeen

LEMMA NothingSeenOfAnEdit ==
  ASSUME RInv, NEW o \in Objective,
         \/ Implement(o) \/ Rebuild(o)
         \/ \E l \in AutomationLevels, plan \in BOOLEAN : UpdateObjective(o, l, plan)
  PROVE  ObjectiveSeen' = ObjectiveSeen /\ Unserved
<1>1. CASE Implement(o) \/ Rebuild(o)
  <2>1. ObjectiveSeen[o] = "Building" /\ StateMoves(o, "Building") /\ Unserved
    <3>1. PICK source \in {"Design", "Redesign"} : MoveObjective(o, source, "Implementation")
      BY <1>1 DEF Implement, Rebuild
    <3>2. StateSeen("Implementation") = "Building"
      BY DEF StateSeen
    <3> QED
      BY <3>1, <3>2, MovesSeen DEF ObjectiveSeen, StateSeen
  <2> QED
    BY <2>1 DEF StateMoves, ObjectiveSeen
<1>2. CASE \E l \in AutomationLevels, plan \in BOOLEAN : UpdateObjective(o, l, plan)
  <2>1. \A p \in Objective : obj'[p].lifecycle_state = obj[p].lifecycle_state
    <3>1. PICK l, plan : UpdateObjective(o, l, plan)
      BY <1>2
    <3>2. obj' = [obj EXCEPT ![o].automation_level = l, ![o].remediation_plan = plan]
      BY <3>1 DEF UpdateObjective
    <3>3. /\ obj'[o].lifecycle_state = obj[o].lifecycle_state
          /\ \A p \in Objective \ {o} : obj'[p] = obj[p]
      BY <3>2, RecordsRead DEF ObjectiveRecord
    <3> QED
      BY <3>3
  <2>2. UNCHANGED dep
    BY <1>2 DEF UpdateObjective
  <2> QED
    BY <2>1, <2>2, StatesUntouched, UnservedByObjectives
<1> QED
  BY <1>1, <1>2

\* A job downgrades ratings; no service and no objective moves.
LEMMA NothingSeenOfTheCalendar ==
  ASSUME RInv, \/ Tick \/ Jobs \/ RisksMove \/ Idle \/ UNCHANGED evars
               \/ \E a \in Activity : ActivityStep(a)
  PROVE  ObjectiveSeen' = ObjectiveSeen /\ Unserved
<1>1. UNCHANGED obj
  BY DEF Tick, Jobs, RisksMove, Idle, evars, ActivityStep, CreateActivity, ActivateActivity,
         SuspendActivity, RetireActivity, MoveActivity
<1>2. \A d \in Deployment : dep'[d].deployment_status = dep[d].deployment_status
  <2>1. CASE Jobs
    BY <2>1, RecordsRead DEF Jobs, DeploymentRecord
  <2>2. CASE ~Jobs
    BY <2>2 DEF Tick, RisksMove, Idle, evars, ActivityStep, CreateActivity, ActivateActivity,
                SuspendActivity, RetireActivity, MoveActivity
  <2> QED
    BY <2>1, <2>2
<1> QED
  BY <1>1, <1>2, ServicesUntouched DEF ObjectiveSeen, Unserved

-----------------------------------------------------------------------------
(* Every step of the estate is one the dependants' modules allow           *)

\* A deployment takes its operating objective with it.
LEMMA PropagationSeen ==
  ASSUME RInv, NEW d \in Deployment, FailurePropagates(d)
  PROVE  IF obj[Parent(d)].lifecycle_state = "Operating"
         THEN ObjectiveSeen[Parent(d)] = "Operating" /\ StateMoves(Parent(d), "Failure")
         ELSE ObjectiveSeen' = ObjectiveSeen
<1>1. CASE obj[Parent(d)].lifecycle_state = "Operating"
  BY <1>1, RecordsRead, DeclarationSeen DEF FailurePropagates
<1>2. CASE obj[Parent(d)].lifecycle_state # "Operating"
  BY <1>2 DEF FailurePropagates, ObjectiveSeen
<1> QED
  BY <1>1, <1>2

LEMMA SiblingsAreUnder ==
  ASSUME NEW o \in Objective
  PROVE  Under(o) = {d \in Deployment : ParentOf[d] = o}
  BY DEF Under, ParentOf

LEMMA HeardByModels ==
  ASSUME RInv, Heard
  PROVE  [TM!Next]_(TM!vars)
<1>0. UNCHANGED <<component, register>>
  BY DEF Heard
<1>1. ASSUME NEW o \in Objective, ObjectiveFails(o)
      PROVE  TM!Next
  <2>1. UNCHANGED dep
    BY <1>1 DEF ObjectiveFails, Fail
  <2>2. TM!ReopenScenarios({d \in Deployment : ParentOf[d] = o})
    BY <1>1, SiblingsAreUnder DEF ObjectiveFails, LossReaches
  <2>3. TM!ObjectiveFails(o)
    BY <1>0, <2>1, <2>2, UnservedByObjectives DEF TM!ObjectiveFails, Unserved
  <2> QED
    BY <2>3 DEF TM!Next
<1>2. ASSUME NEW o \in Objective, ObjectiveRetires(o)
      PROVE  UNCHANGED TM!vars
  <2>1. UNCHANGED <<dep, model, scenario>>
    BY <1>2 DEF ObjectiveRetires, Deprecate, MoveObjective
  <2> QED
    BY <1>0, <2>1, UnservedByObjectives DEF TM!vars, Unserved
<1>3. ASSUME NEW d \in Deployment, DeploymentFails(d)
      PROVE  TM!Next
  <2>1. DeploymentSeen[d] = "In_Service" /\ LossSeen(d, "Out_Of_Service")
    BY <1>3, FailuresSeen DEF DeploymentFails
  <2>2. TM!Siblings(d) = Under(Parent(d))
    BY DEF TM!Siblings, Under, ParentOf
  <2>3. TM!ReopenScenarios({d}) \/ TM!ReopenScenarios(TM!Siblings(d))
    BY <1>3, <2>2 DEF DeploymentFails, LossReaches
  <2>4. TM!DeploymentFails(d)
    BY <1>0, <2>1, <2>3 DEF TM!DeploymentFails, LossSeen
  <2> QED
    BY <2>4 DEF TM!Next, TM!DeploymentStep
<1>4. ASSUME NEW d \in Deployment, DeploymentRetires(d)
      PROVE  TM!Next
  <2>1. TM!DeploymentDecommissioned(d)
    BY <1>0, <1>4, RetirementsSeen DEF DeploymentRetires, LossSeen, TM!DeploymentDecommissioned
  <2> QED
    BY <2>1 DEF TM!Next, TM!DeploymentStep
<1> QED
  BY <1>1, <1>2, <1>3, <1>4 DEF Heard

\* Of the steps that reach nobody a threat model sees the deployments that
\* come into service.
LEMMA UnheardByModels ==
  ASSUME RInv, Unheard
  PROVE  [TM!Next]_(TM!vars)
<1>0. UNCHANGED <<model, component, scenario, register>>
  BY DEF Unheard, threatVars
<1>1. ASSUME NEW d \in Deployment, Activate(d) \/ Remediate(d)
      PROVE  TM!Next
  <2>1. TM!DeploymentRestored(d)
    BY <1>0, <1>1, ReturnsSeen DEF ReturnSeen, TM!DeploymentRestored
  <2> QED
    BY <2>1 DEF TM!Next, TM!DeploymentStep
<1>2. CASE Unserved
  BY <1>0, <1>2 DEF Unserved, TM!vars
<1>3. CASE UnheardLibrary
  BY <1>1, <1>2, <1>3, OperationSeen, RedesignSeen, NothingSeenOfAnEdit,
     NothingSeenOfAWrite, NothingSeenOfTheCalendar
  DEF UnheardLibrary, Unserved
<1>4. ASSUME NEW d \in Deployment, Repair(d)
      PROVE  [TM!Next]_(TM!vars)
  BY <1>1, <1>2, <1>4, NothingSeenOfAWrite DEF Repair, Unserved
<1>5. CASE RisksMove
  BY <1>2, <1>5, NothingSeenOfTheCalendar
<1> QED
  BY <1>3, <1>4, <1>5 DEF Unheard, PassTest, Complete, Cancel, CloseReview, Escalate

LEMMA ModelsFollow ==
  ASSUME RInv, [EstateNext]_evars
  PROVE  [TM!Next]_(TM!vars)
<1>1. CASE ThreatStep
  BY <1>1 DEF ThreatStep, TM!Next
<1>2. CASE ComplianceStep \/ UNCHANGED evars
  <2>1. UNCHANGED <<model, component, scenario, register>> /\ Unserved
    BY <1>2, NothingSeenOfTheCalendar DEF ComplianceStep, threatVars, evars
  <2> QED
    BY <2>1 DEF TM!vars, Unserved
<1> QED
  BY <1>1, <1>2, HeardByModels, UnheardByModels DEF EstateNext

LEMMA HeardByPositions ==
  ASSUME RInv, Heard
  PROVE  [CC!Next]_(CC!vars)
<1>0. UNCHANGED <<adopted, link, scope>>
  BY DEF Heard
<1>1. ASSUME NEW o \in Objective, ObjectiveFails(o)
      PROVE  CC!Next
  <2>1. UNCHANGED dep /\ ObjectiveSeen[o] = "Operating" /\ StateMoves(o, "Failure")
    BY <1>1, DeclarationSeen DEF ObjectiveFails, Fail
  <2>2. CC!ObjectiveFails(o)
    BY <1>0, <1>1, <2>1, UnservedByObjectives
    DEF ObjectiveFails, LossReaches, CC!ObjectiveFails, StateMoves, Unserved
  <2> QED
    BY <2>2 DEF CC!Next, CC!Estate
<1>2. ASSUME NEW o \in Objective, ObjectiveRetires(o)
      PROVE  CC!Next
  <2>1. StateMoves(o, StateSeen("Deprecated")) /\ Unserved
    BY <1>2, MovesSeen DEF ObjectiveRetires, Deprecate
  <2>2. CC!ObjectiveDeprecated(o)
    BY <1>0, <1>2, <2>1
    DEF ObjectiveRetires, CC!ObjectiveDeprecated, StateMoves, StateSeen, Unserved
  <2> QED
    BY <2>2 DEF CC!Next, CC!Estate
<1>3. ASSUME NEW d \in Deployment, DeploymentFails(d)
      PROVE  CC!Next
  <2>1. d \in Live /\ Live' = Live \ {d}
    BY <1>3, FailuresSeen DEF DeploymentFails, LossSeen
  <2>2. IF obj[Parent(d)].lifecycle_state = "Operating"
        THEN /\ ObjectiveSeen[Parent(d)] = "Operating" /\ StateMoves(Parent(d), "Failure")
             /\ CC!Revoke(Parent(d))
        ELSE ObjectiveSeen' = ObjectiveSeen /\ UNCHANGED assessment
    BY <1>3, PropagationSeen DEF DeploymentFails, FailDeployment, FailingTest, LossReaches
  <2>3. ObjectiveSeen[Parent(d)] = "Operating" <=> obj[Parent(d)].lifecycle_state = "Operating"
    BY RecordsRead DEF ObjectiveSeen, StateSeen
  <2>4. ParentOf[d] = Parent(d)
    BY DEF ParentOf
  <2>5. CC!DeploymentFails(d)
    BY <1>0, <2>1, <2>2, <2>3, <2>4 DEF CC!DeploymentFails, StateMoves
  <2> QED
    BY <2>5 DEF CC!Next, CC!Estate
<1>4. ASSUME NEW d \in Deployment, DeploymentRetires(d)
      PROVE  [CC!Next]_(CC!vars)
  <2>1. /\ UNCHANGED <<obj, assessment>>
        /\ Live' = Live \ {d}
    BY <1>4, RetirementsSeen DEF DeploymentRetires, Decommission, LossSeen
  <2>2. ObjectiveSeen' = ObjectiveSeen
    BY <2>1 DEF ObjectiveSeen
  <2>3. CASE d \in Live
    BY <1>0, <2>1, <2>2, <2>3 DEF CC!Next, CC!Estate, CC!DeploymentDecommissioned
  <2>4. CASE d \notin Live
    BY <1>0, <2>1, <2>2, <2>4 DEF CC!vars
  <2> QED
    BY <2>3, <2>4
<1> QED
  BY <1>1, <1>2, <1>3, <1>4 DEF Heard

LEMMA UnheardByPositions ==
  ASSUME RInv, Unheard
  PROVE  [CC!Next]_(CC!vars)
<1>0. UNCHANGED <<adopted, assessment, link, scope>>
  BY DEF Unheard, complianceVars
<1>1. ASSUME NEW d \in Deployment, Activate(d) \/ Remediate(d)
      PROVE  CC!Next
  <2>1. ObjectiveSeen' = ObjectiveSeen
    BY <1>1 DEF Activate, Remediate, ObjectiveSeen
  <2>2. CC!DeploymentGoesLive(d)
    BY <1>0, <1>1, <2>1, ReturnsSeen DEF ReturnSeen, CC!DeploymentGoesLive
  <2> QED
    BY <2>2 DEF CC!Next, CC!Estate
<1>2. ASSUME NEW d \in Deployment,
             \/ CreateDeployment(d) \/ Degrade(d) \/ Restore(d) \/ FailingTestElsewhere(d)
             \/ \E rating \in AssessedRatings, evidence \in BOOLEAN : AssessCE(d, rating, evidence)
             \/ \E w \in Windows : UpdateDeployment(d, w)
      PROVE  UNCHANGED CC!vars
  <2>1. Live' = Live
    BY <1>2, NothingSeenOfAWrite
  <2>2. UNCHANGED obj
    BY <1>2 DEF CreateDeployment, Degrade, Restore, FailingTestElsewhere, AssessCE,
                UpdateDeployment
  <2>3. ObjectiveSeen' = ObjectiveSeen
    BY <2>2 DEF ObjectiveSeen
  <2> QED
    BY <1>0, <2>1, <2>3 DEF CC!vars
<1>3. ASSUME NEW o \in Objective, Operate(o) \/ Recover(o)
      PROVE  CC!Next
  <2>1. CC!ObjectiveOperates(o)
    BY <1>0, <1>3, OperationSeen DEF CC!ObjectiveOperates, StateMoves, Unserved
  <2> QED
    BY <2>1 DEF CC!Next, CC!Estate
<1>4. ASSUME NEW o \in Objective, Redesign(o)
      PROVE  CC!Next
  <2>1. CC!ObjectiveRedesigned(o)
    BY <1>0, <1>4, RedesignSeen DEF CC!ObjectiveRedesigned, StateMoves, Unserved
  <2> QED
    BY <2>1 DEF CC!Next, CC!Estate
<1>5. CASE ObjectiveSeen' = ObjectiveSeen /\ Unserved
  BY <1>0, <1>5 DEF Unserved, CC!vars
<1>6. CASE UnheardLibrary
  BY <1>1, <1>2, <1>3, <1>4, <1>5, <1>6, NothingSeenOfAnEdit, NothingSeenOfTheCalendar
  DEF UnheardLibrary
<1>7. ASSUME NEW d \in Deployment, Repair(d)
      PROVE  [CC!Next]_(CC!vars)
  BY <1>1, <1>2, <1>7 DEF Repair
<1>8. CASE RisksMove
  BY <1>5, <1>8, NothingSeenOfTheCalendar
<1> QED
  BY <1>6, <1>7, <1>8 DEF Unheard, PassTest, Complete, Cancel, CloseReview, Escalate

LEMMA PositionsFollow ==
  ASSUME RInv, [EstateNext]_evars
  PROVE  [CC!Next]_(CC!vars)
<1>1. CASE ComplianceStep
  BY <1>1 DEF ComplianceStep, CC!Next, CC!Estate
<1>2. CASE ThreatStep \/ UNCHANGED evars
  <2>1. /\ UNCHANGED <<adopted, assessment, link, scope>>
        /\ ObjectiveSeen' = ObjectiveSeen /\ Unserved
    BY <1>2, NothingSeenOfTheCalendar DEF ThreatStep, complianceVars, evars
  <2> QED
    BY <2>1 DEF CC!vars, Unserved
<1> QED
  BY <1>1, <1>2, HeardByPositions, UnheardByPositions DEF EstateNext

\* With the real library under them the positions and the threat models take
\* only steps of their modules, each with the whole of its cascade.
THEOREM EstateRefines == EstateSpec => ImplementsDependants
<1>1. RInv /\ [EstateNext]_evars => [CC!Next]_(CC!vars) /\ [TM!Next]_(TM!vars)
  BY PositionsFollow, ModelsFollow
<1> QED
  BY <1>1, EstateInductive, PTL
  DEF EstateSpec, EstateInit, ImplementsDependants, CC!Spec, TM!Spec

-----------------------------------------------------------------------------
(* What is proved of the dependants, carried over.  The proof modules      *)
(* speak of their own instances of the same definitions.                   *)

CCP == INSTANCE ComplianceCoverage_proofs WITH
         ObjectiveOf <- ParentOf, objective <- ObjectiveSeen, live <- Live

TMP == INSTANCE ThreatModelling_proofs WITH
         ObjectiveOf <- ParentOf, deployment <- DeploymentSeen

LEMMA DependantsAssumed == CCP!ComplianceAssumption /\ TMP!ThreatAssumption
  BY EstateAssumption DEF CC!ComplianceAssumption, CCP!ComplianceAssumption,
                          TM!ThreatAssumption, TMP!ThreatAssumption

LEMMA SameModelSteps ==
  ASSUME NEW m \in Model, TM!ModelStep(m)
  PROVE  TMP!ModelStep(m)
  BY DEF TM!ModelStep, TMP!ModelStep, TM!CreateModel, TMP!CreateModel, TM!Absent,
         TMP!Absent, TM!StoreModel, TMP!StoreModel, TM!ModelRules, TMP!ModelRules,
         TM!Analysed, TMP!Analysed, TM!ComponentsOf, TMP!ComponentsOf, TM!Sensitive,
         TMP!Sensitive, TM!ScenariosOf, TMP!ScenariosOf, TM!Exists, TMP!Exists,
         TM!NewModel, TMP!NewModel, TM!UpdateModel, TMP!UpdateModel, TM!SignOffAppSec,
         TMP!SignOffAppSec, TM!SignOffOwner, TMP!SignOffOwner, TM!Decompose,
         TMP!Decompose, TM!ModelGate, TMP!ModelGate, TM!Analyse, TMP!Analyse,
         TM!DesignMitigations, TMP!DesignMitigations, TM!SubmitForReview,
         TMP!SubmitForReview, TM!Rework, TMP!Rework, TM!Activate, TMP!Activate,
         TM!Resolved, TMP!Resolved, TM!CarriedByRegister, TMP!CarriedByRegister,
         TM!BackedByLive, TMP!BackedByLive, TM!LinkedTo, TMP!LinkedTo, TM!Reopen,
         TMP!Reopen, TM!Stripped, TMP!Stripped, TM!Deprecate, TMP!Deprecate, TM!Abandon,
         TMP!Abandon

LEMMA SameComponentSteps ==
  ASSUME NEW c \in Component, TM!ComponentStep(c)
  PROVE  TMP!ComponentStep(c)
  BY DEF TM!ComponentStep, TMP!ComponentStep, TM!Declarations, TMP!Declarations,
         TM!AddComponent, TMP!AddComponent, TM!Absent, TMP!Absent, TM!StoreComponent,
         TMP!StoreComponent, TM!UpdateComponent, TMP!UpdateComponent, TM!DeleteComponent,
         TMP!DeleteComponent, TM!ScenariosOf, TMP!ScenariosOf, TM!Exists, TMP!Exists

LEMMA SameScenarioSteps ==
  ASSUME NEW s \in Scenario, TM!ScenarioStep(s)
  PROVE  TMP!ScenarioStep(s)
  BY DEF TM!ScenarioStep, TMP!ScenarioStep, TM!AddScenario, TMP!AddScenario, TM!Exists,
         TMP!Exists, TM!Absent, TMP!Absent, TM!StoreScenario, TMP!StoreScenario,
         TM!ScenarioRules, TMP!ScenarioRules, TM!Resolved, TMP!Resolved,
         TM!CarriedByRegister, TMP!CarriedByRegister, TM!Promotable, TMP!Promotable,
         TM!FullyMitigated, TMP!FullyMitigated, TM!LinkedTo, TMP!LinkedTo,
         TM!BackedByLive, TMP!BackedByLive, TM!NewScenario, TMP!NewScenario,
         TM!UpdateScenario, TMP!UpdateScenario, TM!Mitigate, TMP!Mitigate, TM!Settle,
         TMP!Settle, TM!UnlinkMitigation, TMP!UnlinkMitigation, TM!AcceptLocally,
         TMP!AcceptLocally, TM!ReopenScenario, TMP!ReopenScenario, TM!WindowPasses,
         TMP!WindowPasses, TM!AcceptanceLapses, TMP!AcceptanceLapses

LEMMA SameRegisterLinks ==
  ASSUME NEW s \in Scenario, NEW r \in Risk, TM!RegisterLink(s, r)
  PROVE  TMP!RegisterLink(s, r)
  BY DEF TM!RegisterLink, TMP!RegisterLink, TM!LinkRisk, TMP!LinkRisk, TM!Exists,
         TMP!Exists, TM!Absent, TMP!Absent, TM!Listed, TMP!Listed, TM!StoreScenario,
         TMP!StoreScenario, TM!ScenarioRules, TMP!ScenarioRules, TM!Resolved,
         TMP!Resolved, TM!CarriedByRegister, TMP!CarriedByRegister, TM!Promotable,
         TMP!Promotable, TM!FullyMitigated, TMP!FullyMitigated, TM!LinkedTo, TMP!LinkedTo,
         TM!BackedByLive, TMP!BackedByLive, TM!UnlinkRisk, TMP!UnlinkRisk,
         TM!PromoteToRisk, TMP!PromoteToRisk, TM!PromotionLost, TMP!PromotionLost

LEMMA SameServiceSteps ==
  /\ \A o \in Objective : TM!ObjectiveFails(o) => TMP!ObjectiveFails(o)
  /\ \A d \in Deployment : TM!DeploymentStep(d) => TMP!DeploymentStep(d)
  BY DEF TM!ObjectiveFails, TMP!ObjectiveFails, TM!ReopenScenarios, TMP!ReopenScenarios,
         TM!HitBy, TMP!HitBy, TM!LinkedTo, TMP!LinkedTo, TM!ScenariosOf, TMP!ScenariosOf,
         TM!Exists, TMP!Exists, TM!Absent, TMP!Absent, TM!Stripped, TMP!Stripped,
         TM!DeploymentStep, TMP!DeploymentStep, TM!DeploymentFails, TMP!DeploymentFails,
         TM!Siblings, TMP!Siblings, TM!DeploymentDecommissioned,
         TMP!DeploymentDecommissioned, TM!DeploymentRestored, TMP!DeploymentRestored

LEMMA SameJob ==
  /\ TM!PromotionJob => TMP!PromotionJob
  /\ \A r \in Risk : TM!CreateRisk(r) => TMP!CreateRisk(r)
  BY DEF TM!PromotionJob, TMP!PromotionJob, TM!DueForPromotion, TMP!DueForPromotion,
         TM!Stale, TMP!Stale, TM!Promotable, TMP!Promotable, TM!CarriedByRegister,
         TMP!CarriedByRegister, TM!Acceptable, TMP!Acceptable, TM!Unlisted, TMP!Unlisted,
         TM!Listed, TMP!Listed, TM!Absent, TMP!Absent, TM!CreateRisk, TMP!CreateRisk

LEMMA SameThreats == TM!Spec => TMP!Spec
<1>1. TM!Init => TMP!Init
  BY DEF TM!Init, TMP!Init, TM!NewModel, TMP!NewModel, TM!Absent, TMP!Absent,
         TM!NewScenario, TMP!NewScenario
<1>2. [TM!Next]_(TM!vars) => [TMP!Next]_(TMP!vars)
  BY SameModelSteps, SameComponentSteps, SameScenarioSteps, SameRegisterLinks,
     SameServiceSteps, SameJob
  DEF TM!Next, TMP!Next, TM!vars, TMP!vars
<1> QED
  BY <1>1, <1>2, PTL DEF TM!Spec, TMP!Spec

LEMMA SamePositions ==
  ASSUME NEW q \in Requirement, CC!Position(q)
  PROVE  CCP!Position(q)
  BY DEF CC!Position, CCP!Position, CC!AssessmentStates, CCP!AssessmentStates, CC!Assess,
         CCP!Assess, CC!Carried, CCP!Carried, CC!Edges, CCP!Edges, CC!Gate, CCP!Gate,
         CC!CoverageIsLive, CCP!CoverageIsLive, CC!Satisfying, CCP!Satisfying,
         CC!SatisfyingLevels, CCP!SatisfyingLevels, CC!InScope, CCP!InScope,
         CC!TimeBoundLevels, CCP!TimeBoundLevels, CC!Rules, CCP!Rules, CC!LinkControl,
         CCP!LinkControl, CC!SetLink, CCP!SetLink, CC!Levels, CCP!Levels, CC!Revalidate,
         CCP!Revalidate, CC!ToGap, CCP!ToGap, CC!SetCoverageLevel, CCP!SetCoverageLevel,
         CC!UnlinkControl, CCP!UnlinkControl, CC!ExpiryPasses, CCP!ExpiryPasses

LEMMA SameEstate == CC!Estate => CCP!Estate
  BY DEF CC!Estate, CCP!Estate, CC!ObjectiveOperates, CCP!ObjectiveOperates,
         CC!ObjectiveFails, CCP!ObjectiveFails, CC!Revoke, CCP!Revoke, CC!Satisfying,
         CCP!Satisfying, CC!SatisfyingLevels, CCP!SatisfyingLevels, CC!ToGap, CCP!ToGap,
         CC!ObjectiveRedesigned, CCP!ObjectiveRedesigned, CC!ObjectiveDeprecated,
         CCP!ObjectiveDeprecated, CC!DeploymentFails, CCP!DeploymentFails,
         CC!DeploymentDecommissioned, CCP!DeploymentDecommissioned, CC!DeploymentGoesLive,
         CCP!DeploymentGoesLive, CC!SetAssetScopes, CCP!SetAssetScopes

LEMMA SameCoverage == CC!Spec => CCP!Spec
<1>1. CC!Init => CCP!Init
  BY DEF CC!Init, CCP!Init
<1>2. [CC!Next]_(CC!vars) => [CCP!Next]_(CCP!vars)
  BY SamePositions, SameEstate
  DEF CC!Next, CCP!Next, CC!vars, CCP!vars, CC!SetAdoption, CCP!SetAdoption, CC!Restart,
      CCP!Restart
<1> QED
  BY <1>1, <1>2, PTL DEF CC!Spec, CCP!Spec

\* The invariants of the two modules hold of the estate.
LEMMA DependantsSound == EstateSpec => [](CCP!IInv /\ TMP!IInv)
  BY EstateRefines, SameThreats, SameCoverage, DependantsAssumed, CCP!Inductive,
     TMP!Inductive, PTL
  DEF ImplementsDependants

\* TINV-4 against the library itself.
THEOREM MitigationsRest == EstateSpec => []MitigationsRestOnService
<1>1. TMP!IInv => MitigationsRestOnService
  <2> SUFFICES ASSUME TMP!IInv, NEW s \in Scenario
               PROVE  /\ scenario[s].status = "Mitigated" =>
                           \E d \in TM!LinkedTo(scenario[s]) : InService(dep[d])
                      /\ scenario[s].status # "Absent"
                         /\ model[ModelOf[scenario[s].component_id]].lifecycle_state = "Active"
                           => TM!Resolved(scenario[s])
    BY DEF MitigationsRestOnService
  <2>1. TMP!EndStatesAreEarned /\ TMP!ActiveIsSettled /\ TMP!ThreatTypeOK
    BY DependantsAssumed, TMP!InvariantSays DEF TMP!IInv
  <2>2. ASSUME scenario[s].status = "Mitigated"
        PROVE  \E d \in TM!LinkedTo(scenario[s]) : InService(dep[d])
    <3>1. PICK d \in TM!LinkedTo(scenario[s]) : DeploymentSeen[d] = "In_Service"
      BY <2>1, <2>2 DEF TMP!EndStatesAreEarned, TMP!BackedByLive, TMP!LinkedTo, TM!LinkedTo
    <3>2. d \in Deployment
      BY DEF TM!LinkedTo
    <3> QED
      BY <3>1, <3>2 DEF DeploymentSeen, ServiceSeen, InService
  <2>3. ASSUME scenario[s].status # "Absent",
               model[ModelOf[scenario[s].component_id]].lifecycle_state = "Active"
        PROVE  TM!Resolved(scenario[s])
    <3>1. scenario[s].component_id \in Component
      BY <2>3 DEF TMP!IInv, TMP!Earned, TMP!Absent
    <3>2. ModelOf[scenario[s].component_id] \in Model
      BY <3>1, DependantsAssumed DEF TMP!ThreatAssumption
    <3>3. s \in TMP!ScenariosOf(ModelOf[scenario[s].component_id])
      BY <2>3 DEF TMP!ScenariosOf, TMP!Exists, TMP!Absent
    <3>4. TMP!Resolved(scenario[s])
      BY <2>1, <2>3, <3>2, <3>3 DEF TMP!ActiveIsSettled
    <3> QED
      BY <3>4 DEF TMP!Resolved, TM!Resolved, TMP!CarriedByRegister, TM!CarriedByRegister
  <2> QED
    BY <2>2, <2>3
<1> QED
  BY <1>1, DependantsSound, PTL

LEMMA OnlyHeardLossesFail ==
  ASSUME RInv, Unheard \/ ComplianceStep \/ ThreatStep \/ UNCHANGED evars,
         NEW o \in Objective, ObjectiveSeen[o] = "Operating"
  PROVE  ObjectiveSeen'[o] = "Operating"
<1>0. \A p, q \in Objective : \A state :
        StateMoves(p, state) => ObjectiveSeen'[q] = IF q = p THEN state ELSE ObjectiveSeen[q]
  BY DEF StateMoves, ObjectiveSeen
<1>1. CASE ObjectiveSeen' = ObjectiveSeen
  BY <1>1
<1>2. ASSUME UNCHANGED obj PROVE ObjectiveSeen' = ObjectiveSeen
  BY <1>2 DEF ObjectiveSeen
<1>3. ASSUME NEW p \in Objective, Operate(p) \/ Recover(p) \/ Redesign(p)
      PROVE  ObjectiveSeen'[o] = "Operating"
  BY <1>0, <1>3, OperationSeen, RedesignSeen
<1>4. ASSUME NEW d \in Deployment,
             \/ CreateDeployment(d) \/ Activate(d) \/ Degrade(d) \/ Restore(d) \/ Remediate(d)
             \/ \E rating \in AssessedRatings, evidence \in BOOLEAN : AssessCE(d, rating, evidence)
             \/ FailingTestElsewhere(d)
             \/ \E w \in Windows : UpdateDeployment(d, w)
      PROVE  UNCHANGED obj
  BY <1>4 DEF CreateDeployment, Activate, Degrade, Restore, Remediate, AssessCE,
              FailingTestElsewhere, UpdateDeployment
<1>5. CASE UnheardLibrary
  BY <1>1, <1>2, <1>3, <1>4, <1>5, NothingSeenOfAnEdit, NothingSeenOfTheCalendar
  DEF UnheardLibrary
<1>6. CASE \E d \in Deployment : Repair(d)
  BY <1>1, <1>2, <1>4, <1>6 DEF Repair
<1>7. CASE RisksMove \/ ComplianceStep \/ ThreatStep \/ UNCHANGED evars
  BY <1>1, <1>7, NothingSeenOfTheCalendar DEF ComplianceStep, ThreatStep
<1> QED
  BY <1>5, <1>6, <1>7 DEF Unheard, PassTest, Complete, Cancel, CloseReview, Escalate

\* An operating objective fails in no step but one that reaches both modules.
LEMMA LossesReach ==
  ASSUME RInv, [EstateNext]_evars, NEW o \in Objective,
         obj[o].lifecycle_state = "Operating", obj'[o].lifecycle_state = "Failure"
  PROVE  /\ LossReaches(o)
         /\ UNCHANGED link
         /\ fired'[o] = "control.failed"
         /\ \A p \in Objective \ {o} : obj'[p] = obj[p]
<1>1. Heard
  <2>1. ObjectiveSeen[o] = "Operating" /\ ObjectiveSeen'[o] = "Failure"
    BY DEF ObjectiveSeen, StateSeen
  <2> QED
    BY <2>1, OnlyHeardLossesFail DEF EstateNext
<1>2. ASSUME NEW p \in Objective, obj' = [obj EXCEPT ![p] = Declared(obj[p])],
             Emit(p, "control.failed")
      PROVE  /\ p = o /\ fired'[o] = "control.failed"
             /\ \A q \in Objective \ {o} : obj'[q] = obj[q]
  BY <1>2, RecordsRead DEF Emit, Silent
<1>3. ASSUME NEW p \in Objective, ObjectiveFails(p)
      PROVE  /\ LossReaches(o) /\ fired'[o] = "control.failed"
             /\ \A q \in Objective \ {o} : obj'[q] = obj[q]
  BY <1>2, <1>3 DEF ObjectiveFails, Fail
<1>4. ASSUME NEW p \in Objective
      PROVE  ~ObjectiveRetires(p)
  BY RecordsRead DEF ObjectiveRetires, Deprecate, MoveObjective, ObjectiveRecord
<1>5. ASSUME NEW d \in Deployment, DeploymentFails(d)
      PROVE  /\ LossReaches(o) /\ fired'[o] = "control.failed"
             /\ \A q \in Objective \ {o} : obj'[q] = obj[q]
  <2>1. FailurePropagates(d) /\ Parent(d) \in Objective
    BY <1>5, RecordsRead DEF DeploymentFails, FailDeployment, FailingTest
  <2>2. obj[Parent(d)].lifecycle_state = "Operating"
    BY <2>1 DEF FailurePropagates
  <2>3. Parent(d) = o /\ fired'[o] = "control.failed" /\ \A q \in Objective \ {o} : obj'[q] = obj[q]
    BY <1>2, <2>1, <2>2 DEF FailurePropagates
  <2> QED
    BY <1>5, <2>2, <2>3 DEF DeploymentFails
<1>6. ASSUME NEW d \in Deployment
      PROVE  ~DeploymentRetires(d)
  BY DEF DeploymentRetires, Decommission
<1> QED
  BY <1>1, <1>3, <1>4, <1>5, <1>6 DEF Heard

LEMMA RevocationUncovers ==
  ASSUME CCP!IInv, NEW o \in Objective, NEW q \in Requirement, CC!Revoke(o),
         \A p \in Objective \ {o} : obj'[p] = obj[p],
         o \in CC!Satisfying(q), assessment'[q].lifecycle_state = "Covered"
  PROVE  \E p \in CC!Satisfying(q) : obj'[p].lifecycle_state = "Operating"
<1>1. assessment[q] \in CCP!Assessment
  BY DEF CCP!IInv, CCP!ComplianceTypeOK
<1>2. CC!ToGap(assessment[q]).lifecycle_state = "Gap"
  BY <1>1 DEF CC!ToGap, CCP!Assessment
<1>3. PICK p \in CC!Satisfying(q) \ {o} : ObjectiveSeen[p] = "Operating"
  BY <1>2 DEF CC!Revoke
<1>4. p \in Objective
  BY DEF CC!Satisfying
<1> QED
  BY <1>3, <1>4 DEF ObjectiveSeen, StateSeen

LEMMA ReopeningUnsettles ==
  ASSUME TMP!IInv, NEW D, NEW s \in Scenario, TM!ReopenScenarios(D),
         TM!LinkedTo(scenario[s]) \cap D # {}
  PROVE  /\ scenario'[s].status # "Mitigated"
         /\ scenario[s].status = "Mitigated" =>
              model'[ModelOf[scenario[s].component_id]].lifecycle_state # "Active"
<1> DEFINE m == ModelOf[scenario[s].component_id]
<1>1. /\ scenario[s] \in TMP!ScenarioRecord
      /\ scenario[s].status = "Mitigated" => m \in Model /\ model[m] \in TMP!ModelRecord
  BY DependantsAssumed
  DEF TMP!IInv, TMP!ThreatTypeOK, TMP!Earned, TMP!Absent, TMP!ThreatAssumption
<1>2. CASE scenario[s].status = "Mitigated"
  <2>1. s \in TM!HitBy(D) /\ s \in TM!ScenariosOf(m)
    BY <1>2 DEF TM!HitBy, TM!ScenariosOf, TM!Exists, TM!Absent
  <2>2. scenario'[s].status = "Identified"
    BY <1>1, <2>1 DEF TM!ReopenScenarios, TMP!ScenarioRecord
  <2>3. model'[m].lifecycle_state # "Active"
    BY <1>1, <1>2, <2>1 DEF TM!ReopenScenarios, TM!Stripped, TMP!ModelRecord
  <2> QED
    BY <2>2, <2>3
<1>3. CASE scenario[s].status # "Mitigated"
  BY <1>3 DEF TM!ReopenScenarios, TM!HitBy
<1> QED
  BY <1>2, <1>3

\* However an operating objective fails, the step that fails it uncovers what
\* rested on it alone, opens what it mitigated and unsigns the models.
THEOREM LossesReachDependants == EstateSpec => LossReachesDependants
<1> DEFINE reached ==
      \A o \in Objective :
       obj[o].lifecycle_state = "Operating" /\ obj'[o].lifecycle_state = "Failure" =>
         /\ fired'[o] = "control.failed"
         /\ \A q \in Requirement :
              o \in CC!Satisfying(q) /\ assessment'[q].lifecycle_state = "Covered" =>
                \E p \in CC!Satisfying(q) : obj'[p].lifecycle_state = "Operating"
         /\ \A s \in Scenario : TM!LinkedTo(scenario[s]) \cap Under(o) # {} =>
              /\ scenario'[s].status # "Mitigated"
              /\ scenario[s].status = "Mitigated" =>
                   model'[ModelOf[scenario[s].component_id]].lifecycle_state # "Active"
<1>1. RInv /\ CCP!IInv /\ TMP!IInv /\ [EstateNext]_evars => [reached]_evars
  BY LossesReach, RevocationUncovers, ReopeningUnsettles DEF LossReaches
<1> QED
  BY <1>1, EstateInductive, DependantsSound, PTL DEF EstateSpec, LossReachesDependants

=============================================================================
