----------------------------- MODULE MCControl -----------------------------
(***************************************************************************)
(* The instance of ControlNights for TLC: one objective with one activity  *)
(* and one deployment, and evidence windows of a day or two.               *)
(***************************************************************************)
EXTENDS ControlNights

MCObjectiveOf == [a \in Activity |-> CHOOSE o \in Objective : TRUE]

MCActivityOf == [d \in Deployment |-> CHOOSE a \in Activity : TRUE]

\* The ceilings of governance.yml.
MCCEAllowed ==
  [level \in AutomationLevels |-> IF level = "Manual" THEN "CE-Medium" ELSE "CE-High"]

=============================================================================
