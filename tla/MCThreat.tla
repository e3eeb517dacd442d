------------------------------ MODULE MCThreat ------------------------------
(* Instances of ThreatModelling for TLC. *)
EXTENDS ThreatModelling

CONSTANTS tm, cmp, dbase, waf, ctrl, s1, r1, owner, admin

MCModelOf == [c \in Component |-> tm]
MCObjectiveOf == [d \in Deployment |-> ctrl]

(***************************************************************************)
(* The state's identity for TLC leaves out what is never read again: the   *)
(* signatures of a model that left service, the expiry and the clock of a  *)
(* scenario that is not accepted and not open.                             *)
(***************************************************************************)
ReadOfModel(x) ==
  IF x.lifecycle_state \in {"Deprecated", "Abandoned"} THEN Stripped(x) ELSE x

ReadOfScenario(x) ==
  [x EXCEPT
     !.acceptance = IF x.status = "Accepted" THEN @ ELSE "None",
     !.overdue = x.status = "Identified" /\ @]

MCView ==
  <<[m \in Model |-> ReadOfModel(model[m])], component,
    [s \in Scenario |-> ReadOfScenario(scenario[s])], deployment, register>>

=============================================================================
