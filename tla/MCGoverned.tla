----------------------------- MODULE MCGoverned -----------------------------
(***************************************************************************)
(* An instance of GovernedRisk for TLC: one risk that rests on one control *)
(* with one deployment.                                                    *)
(***************************************************************************)
EXTENDS GovernedRisk

MCObjectiveOf == [a \in Activity |-> CHOOSE o \in Objective : TRUE]

MCActivityOf == [d \in Deployment |-> CHOOSE a \in Activity : TRUE]

MCCEAllowed == [level \in AutomationLevels |-> "CE-High"]

MCFamily == [o \in Objective |-> "family"]

\* Who is named plays no part here: a named owner and stakeholder in order.
MCStaffing == {[assigned |-> TRUE, offending |-> FALSE]}

MCAcceptDays == [rating \in Ratings |-> 1]

MCMaxRenewals == [rating \in Ratings |-> 1]

\* Past its creation an activity is read by its own steps only, and the event
\* of the last step by nobody: two states that differ in these alone have the
\* same future for risks, objectives and deployments.
MCView ==
  <<risk, clinks, tlinks, trt, obj, dep, blocking, today,
    {a \in Activity : act[a] # "Absent"}>>

\* The inherent score is taken at the highest likelihood of the instance: the
\* lower ones are for the residual score, which a reduction then really lowers.
HighestInherent ==
  \A r \in Risk :
    risk'[r].inherent \in
      {NoScore} \cup [impact : Impacts, likelihood : {l \in Likelihoods : \A m \in Likelihoods : m <= l}]

MCNext == Next /\ HighestInherent

MCSpec == Init /\ [][MCNext]_vars

=============================================================================
