------------------------------ MODULE MCEstate ------------------------------
(***************************************************************************)
(* An instance of ControlEstate for TLC: one control with one deployment,  *)
(* the one requirement it covers and the one scenario it mitigates.        *)
(***************************************************************************)
EXTENDS ControlEstate

CONSTANTS o1, a1, d1, csf, ref, cloud, tm, cmp, s1, owner, appsec

MCObjectiveOf == [a \in Activity |-> o1]

MCActivityOf == [d \in Deployment |-> a1]

MCCEAllowed == [level \in AutomationLevels |-> "CE-High"]

MCFrameworkOf == [q \in Requirement |-> csf]

MCAssetOf == [d \in Deployment |-> cloud]

MCModelOf == [c \in Component |-> tm]

\* BOUND: what the dependants do without the library, which the runs of their
\* own modules explore, is kept to what leads to a covered requirement and to
\* a mitigated scenario of an active model.
MCDependantsOnly ==
  /\ \A a \in Activity : act[a] \in {"Absent", "Draft"}
  /\ blocking = {}
  /\ adopted = Framework
  /\ \A q \in Requirement :
       ~assessment[q].rationale /\ assessment[q].compensating_expiry = "None"
  /\ \A m \in Model :
       /\ model[m].lifecycle_state \notin {"Deprecated", "Abandoned"}
       /\ model[m].appsec_partner_id = Nobody
       /\ model[m].appsec_signoff_by # Nobody \/ model[m].owner_signoff_by # Nobody =>
            model[m].lifecycle_state \in {"Review", "Active"}
  /\ \A c \in Component : component[c] \in {"Absent", "Plain"}
  /\ \A s \in Scenario :
       ~scenario[s].overdue /\ \A d \in Deployment : scenario[s].mitigations[d] # "Partial"

\* Nothing reads the event of the last step.
MCView ==
  <<obj, act, dep, blocking, today, review, adopted, assessment, link, scope,
    model, component, scenario, register>>

=============================================================================
