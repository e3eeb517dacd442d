----------------------------- MODULE MCReviews -----------------------------
(***************************************************************************)
(* Instances of EffectivenessReviews for TLC: one objective with one       *)
(* activity, and two reviews for one deployment.                           *)
(***************************************************************************)
EXTENDS EffectivenessReviews

CONSTANTS o1, a1, onCloud, onPrem, v1, v2

MCObjectiveOf == [a \in Activity |-> CHOOSE o \in Objective : TRUE]

MCActivityOf == [d \in Deployment |-> CHOOSE a \in Activity : TRUE]

\* BOUND: the objective is not built further than its first activity, and no
\* risk rests on it; no step of a review reads either.
MCDeploymentsOnly ==
  /\ \A o \in Objective : obj[o].lifecycle_state = "Design" /\ ~obj[o].remediation_plan
  /\ \A a \in Activity : act[a] \in {"Absent", "Draft"}
  /\ blocking = {}

MCCEAllowed == [level \in AutomationLevels |-> "CE-High"]

=============================================================================
