---------------------------- MODULE RiskNights -----------------------------
(***************************************************************************)
(* The risk register under its scheduler.  The nightly jobs share one      *)
(* session, committed at its end, and the promotion of stale threat        *)
(* scenarios rolls that session back when the register refuses a risk: the *)
(* escalations of such a night are lost (the module NightlyRun).  A lost   *)
(* night leaves the register as it is, so all there is to add is whether a *)
(* refused scenario is waiting, and fairness that holds only without one.  *)
(***************************************************************************)
EXTENDS RiskLifecycle

VARIABLE refused   \* a stale scenario whose risk the register refuses waits

nightVars == <<vars, refused>>

NightInit == Init /\ refused = FALSE

\* Scenarios go stale or are dealt with, roles come and go.
ScenariosMove == refused' = ~refused /\ UNCHANGED vars

NightNext ==
  \/ Next /\ UNCHANGED refused
  \/ ScenariosMove

\* Nothing is promised of a night that may be rolled back.  One that lands
\* does at least what a run with no control due does; what a run may add to
\* that is not assumed.
NightLands == RunJobs({}, {}, {}) /\ ~refused /\ UNCHANGED refused

FairSpec == NightInit /\ [][NightNext]_nightVars /\ WF_nightVars(NightLands)

-----------------------------------------------------------------------------

\* RINV-11, as far as the nights land.  A lapsed acceptance on an open risk
\* is eventually escalated or decided anew, or the risk closed, unless some
\* night finds a scenario the register refuses.
LapsedAcceptanceEscalated ==
  \A r \in Risk :
    Lapsed(risk[r]) /\ risk[r].lifecycle_state # "Closed" ~>
      \/ risk[r].escalation_flag
      \/ ~Lapsed(risk[r])
      \/ risk[r].lifecycle_state = "Closed"
      \/ refused

-----------------------------------------------------------------------------
(* What the documents say and the code does not do: it is refuted          *)

\* Section 5.5: an expired acceptance stays at its inherent score.  Read as:
\* a lapsed acceptance eventually falls back to it, as far as nights land.
LapsedFallsBackToInherent ==
  \A r \in Risk :
    Lapsed(risk[r]) /\ risk[r].lifecycle_state = "Monitoring" ~>
      \/ Reported(risk[r]) = risk[r].inherent
      \/ ~Lapsed(risk[r])
      \/ risk[r].lifecycle_state # "Monitoring"
      \/ refused

=============================================================================
