------------------------ MODULE EffectivenessReviews ------------------------
(***************************************************************************)
(* Control effectiveness reviews, on the control library itself: a         *)
(* deployment back in service is not yet a control that works.  Its repair *)
(* opens a review, a passing test lets someone complete it, and only the   *)
(* completion tells the risks, scenarios and requirements that rest on the *)
(* control to look again.                                                  *)
(*                                                                         *)
(* Every step of ControlLifecycle is a step here; a repair and the review  *)
(* it opens are one transaction.                                           *)
(***************************************************************************)
EXTENDS ControlLifecycle

CONSTANTS
  Review,        \* review records
  NoDeployment,  \* the deployment of a review that was never opened
  ReviewDays     \* escalation.control_recovery_review_days

ASSUME ReviewAssumption == NoDeployment \notin Deployment /\ ReviewDays \in Nat

VARIABLE review   \* the reviews

rvars == <<obj, act, dep, blocking, fired, today, review>>

ReviewStates == {"Open", "Completed", "Cancelled"}

\* "passed" is the latest pass recorded after the review opened: none, one
\* from before the latest repair of the deployment, or one since.
ReviewRecord ==
  [lifecycle_state : ReviewStates \cup {"Absent"},
   deployment      : Deployment \cup {NoDeployment},
   passed          : {"None", "BeforeRepair", "SinceRepair"},
   due_date        : 0..(MaxDay + ReviewDays) \cup {NoDate},
   escalated       : BOOLEAN]     \* escalated_at is set

\* With the CHECK on the table: a completed review names its passing test.
ReviewTypeOK ==
  /\ TypeOK
  /\ review \in [Review -> ReviewRecord]
  /\ \A v \in Review :
       /\ review[v].lifecycle_state = "Completed" => review[v].passed # "None"
       /\ review[v].lifecycle_state # "Absent" =>
            review[v].deployment \in Deployment /\ review[v].due_date # NoDate

NewReview ==
  [lifecycle_state |-> "Absent", deployment |-> NoDeployment, passed |-> "None",
   due_date |-> NoDate, escalated |-> FALSE]

ReviewInit == Init /\ review = [v \in Review |-> NewReview]

OpenReviews(d) ==
  {v \in Review : review[v].lifecycle_state = "Open" /\ review[v].deployment = d}

-----------------------------------------------------------------------------
(* Repairs                                                                 *)

Opened(d) ==
  [NewReview EXCEPT !.lifecycle_state = "Open", !.deployment = d,
                    !.due_date = today + ReviewDays]

\* Slip: a review per repair, whatever is open.
OpenForEveryRepair(d) ==
  \E v \in Review :
    /\ review[v].lifecycle_state = "Absent"
    /\ review' = [review EXCEPT ![v] = Opened(d)]

\* A pass recorded before another repair.
Outlived(x) == [x EXCEPT !.passed = IF @ = "SinceRepair" THEN "BeforeRepair" ELSE @]

\* open_for: a repair finds the review of an earlier one, which stays as it
\* is and keeps its passes, or opens its own.
OpenFor(d) ==
  IF OpenReviews(d) # {}
  THEN review' = [v \in Review |->
         IF v \in OpenReviews(d) THEN Outlived(review[v]) ELSE review[v]]
  ELSE \E v \in Review :
         /\ review[v].lifecycle_state = "Absent"
         /\ review' = [review EXCEPT ![v] = Opened(d)]

\* deployment.repaired
Repair(d) == (Restore(d) \/ Remediate(d)) /\ OpenFor(d)

\* A passing test, in the service of DeploymentService: it changes nothing
\* of the deployment that is kept here.
PassTest(d) ==
  /\ dep[d].deployment_status \notin {"Absent", "Decommissioned"}
  /\ review' = [v \in Review |->
       IF v \in OpenReviews(d) THEN [review[v] EXCEPT !.passed = "SinceRepair"]
       ELSE review[v]]
  /\ RisksMove

-----------------------------------------------------------------------------
(* Reviews                                                                 *)

CloseReview(v, state) ==
  /\ review[v].lifecycle_state = "Open"
  /\ review' = [review EXCEPT ![v].lifecycle_state = state]
  /\ RisksMove

\* Slip: the state of the deployment is taken for a test.
CompleteUntested(v) ==
  /\ review[v].lifecycle_state = "Open"
  /\ InService(dep[review[v].deployment]) /\ Rated(dep[review[v].deployment])
  /\ dep[review[v].deployment].evidence
  /\ CloseReview(v, "Completed")

\* GATE_REVIEW_COMPLETED: REV-2, REV-2.1 and REV-2.2.  Any pass after the
\* opening will do.  The prompts it sends are ElsewhereFlagged of
\* RiskLifecycle on the risks, and notices elsewhere.
Complete(v) ==
  /\ review[v].passed # "None"
  /\ InService(dep[review[v].deployment]) /\ Rated(dep[review[v].deployment])
  /\ dep[review[v].deployment].evidence
  /\ CloseReview(v, "Completed")

\* GATE_REVIEW_CANCELLED
Cancel(v) == CloseReview(v, "Cancelled")

LateReview(v) ==
  review[v].lifecycle_state = "Open" /\ review[v].due_date < today

\* Slip: reviews of deployments that are down again are passed over.
DueForEscalationInService ==
  {v \in Review : /\ LateReview(v) /\ ~review[v].escalated
                  /\ InService(dep[review[v].deployment])}

DueForEscalation == {v \in Review : LateReview(v) /\ ~review[v].escalated}

\* escalate_overdue_reviews; it runs after the promotion job, so no rollback
\* takes its work.
Escalate ==
  /\ review' = [v \in Review |->
       IF v \in DueForEscalation THEN [review[v] EXCEPT !.escalated = TRUE]
       ELSE review[v]]
  /\ RisksMove

-----------------------------------------------------------------------------
(* The specification                                                       *)

\* The steps of the library that open no review.
Elsewhere ==
  \/ \E o \in Objective : ObjectiveStep(o)
  \/ \E a \in Activity : ActivityStep(a)
  \/ \E d \in Deployment :
       \/ CreateDeployment(d) \/ Activate(d) \/ Degrade(d)
       \/ FailDeployment(d) \/ Decommission(d)
       \/ \E rating \in AssessedRatings, evidence \in BOOLEAN :
            AssessCE(d, rating, evidence)
       \/ FailingTest(d) \/ FailingTestElsewhere(d)
       \/ \E w \in Windows : UpdateDeployment(d, w)
  \/ Tick
  \/ Jobs
  \/ RisksMove

ReviewNext ==
  \/ Elsewhere /\ UNCHANGED review
  \/ \E d \in Deployment : Repair(d) \/ PassTest(d)
  \/ \E v \in Review : Complete(v) \/ Cancel(v)
  \/ Escalate

ReviewSpec == ReviewInit /\ [][ReviewNext]_rvars

\* The scheduler runs the escalation every day.
FairReviewSpec == ReviewSpec /\ WF_rvars(Escalate)

-----------------------------------------------------------------------------
(* Properties that hold                                                    *)

\* REV-1: "a deployment back in service gets exactly one open review", also
\* when it breaks and is repaired again before anyone looked, and whatever
\* was completed or cancelled in between.
OneReviewPerRepair ==
  [][\A d \in Deployment :
       /\ dep[d].deployment_status \in {"Degraded", "Failed"}
       /\ dep'[d].deployment_status = "Active"
       => Cardinality(OpenReviews(d)') = 1]_rvars

Completes(v) ==
  review[v].lifecycle_state # "Completed" /\ review'[v].lifecycle_state = "Completed"

\* REV-3 with DL-4.  A completion sends every dependant to look again, and
\* its gate reads the rating without the dates; still no review completes on
\* a rating that a later failing test contradicts.
CompletionRestsOnFreshRating ==
  [][\A v \in Review : Completes(v) =>
       LET x == dep[review[v].deployment]
       IN InService(x) /\ Rated(x) /\ ~x.contradicted]_rvars

\* REV-4: a review past its date goes to the CISO unless it is closed first.
LateReviewsEscalate ==
  \A v \in Review :
    LateReview(v) ~> (review[v].escalated \/ review[v].lifecycle_state # "Open")

\* The engine's contract.
ReviewEngine ==
  INSTANCE LifecycleEngine WITH
    Entity    <- Review,
    Absent    <- "Absent",
    Initial   <- "Open",
    States    <- ReviewStates,
    Terminal  <- {"Completed", "Cancelled"},
    Edges     <- {<<"Open", "Completed">>, <<"Open", "Cancelled">>},
    Wildcards <- {},
    state     <- [v \in Review |-> review[v].lifecycle_state]

FollowsReviewMachine == ReviewEngine!Spec

-----------------------------------------------------------------------------
(* What the gate says and the code does not do                             *)

\* REV-2, "Retested since the repair, and passed": "A test from before the
\* repair does not count".  A deployment that breaks and is repaired again
\* keeps its open review, and the gate dates passes against its opening.
CompletionFollowsRetest ==
  [][\A v \in Review : Completes(v) => review[v].passed = "SinceRepair"]_rvars

=============================================================================
