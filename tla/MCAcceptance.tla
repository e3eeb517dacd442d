---------------------------- MODULE MCAcceptance ----------------------------
(***************************************************************************)
(* An instance of RiskNights for TLC: acceptances, on a calendar of three  *)
(* days.  Windows and caps keep the order of governance.yml.               *)
(***************************************************************************)
EXTENDS RiskNights

\* Who is named plays no part here: a named owner and stakeholder in order.
MCStaffing == {[assigned |-> TRUE, offending |-> FALSE]}

\* Critical cannot be accepted; its window is 0 as in the configuration.
MCAcceptDays ==
  [rating \in Ratings |->
     CASE rating = "Critical" -> 0
       [] rating \in {"High", "Moderate"} -> 1
       [] OTHER -> 2]

MCMaxRenewals ==
  [rating \in Ratings |-> IF rating \in {"Critical", "High"} THEN 0 ELSE 1]

=============================================================================
