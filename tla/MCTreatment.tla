---------------------------- MODULE MCTreatment ----------------------------
(***************************************************************************)
(* An instance of MitigatedRisk for TLC.  The calendar stands still and a  *)
(* control comes into service and stays there: a treatment reads neither,  *)
(* and their other steps are the subject of MCRisk and MCGoverned.         *)
(***************************************************************************)
EXTENDS MitigatedRisk

\* Who is named plays no part here: a named owner and stakeholder in order.
MCStaffing == {[assigned |-> TRUE, offending |-> FALSE]}

MCAcceptDays == [rating \in Ratings |-> 1]

MCMaxRenewals == [rating \in Ratings |-> 1]

(***************************************************************************)
(* The state's identity for TLC leaves out what has been read for the last *)
(* time: the flags on a risk no gate of this instance reads (nothing       *)
(* lapses), the target date behind the approval gate, the evidence of a    *)
(* closed treatment, the form of a decided request, all of a rejected one. *)
(***************************************************************************)
ReadOfTreatment(x) ==
  [x EXCEPT
     !.dated     = x.lifecycle_state \in {Absent, "Proposed", "Validated"} /\ @,
     !.evidenced = x.lifecycle_state \notin {"Complete", "Cancelled"} /\ @]

ReadOfApproval(x) ==
  CASE x.decision = "Rejected" -> "Rejected"
    [] x.decision = "Approved" -> <<x.treatment, x.requested_by, x.decision_by>>
    [] OTHER -> x

ReadOfRisk(x) ==
  [x EXCEPT !.escalation_flag = FALSE, !.control_change_flag = "None"]

MCView ==
  <<[t \in Treatment |-> ReadOfTreatment(treatment[t])],
    [a \in Approval |-> ReadOfApproval(approval[a])],
    [r \in Risk |-> ReadOfRisk(risk[r])], clinks, tlinks, ctl>>

InService == [lifecycle_state |-> "Operating", ceiling |-> NoCE, assessed |-> TRUE]

MCNext == Next /\ (ctl' = ctl \/ ctl' = [o \in Objective |-> InService])

MCSpec == Init /\ [][MCNext]_mvars

=============================================================================
