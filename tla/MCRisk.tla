------------------------------- MODULE MCRisk -------------------------------
(***************************************************************************)
(* An instance of RiskLifecycle for TLC: the residual score and its gate.  *)
(***************************************************************************)
EXTENDS RiskLifecycle

\* Anybody may be named or missing, in order or not.
MCStaffing == People

MCAcceptDays == [rating \in Ratings |-> 1]

MCMaxRenewals == [rating \in Ratings |-> 1]

\* Nothing is accepted here, so no rule reads the escalation flag or the day,
\* and what evidence loses overnight it can also lose by a step of the library:
\* two states that differ in these alone have the same future otherwise.
MCView ==
  <<[r \in Risk |-> [risk[r] EXCEPT !.escalation_flag = FALSE]],
    clinks, tlinks, ctl, trt>>

=============================================================================
