--------------------------- MODULE ControlNights ---------------------------
(***************************************************************************)
(* The control library under its scheduler.  The nightly jobs share one    *)
(* session, committed at its end, and the promotion of stale threat        *)
(* scenarios rolls that session back when the register refuses a risk: the *)
(* downgrades of such a night are lost (the module NightlyRun).  A lost    *)
(* night leaves the library as it is, so all there is to add is whether a  *)
(* refused scenario is waiting, and fairness that holds only without one.  *)
(***************************************************************************)
EXTENDS ControlLifecycle

VARIABLE refused   \* a stale scenario whose risk the register refuses waits

nightVars == <<vars, refused>>

NightInit == Init /\ refused = FALSE

\* Scenarios go stale or are dealt with, roles come and go.
ScenariosMove == refused' = ~refused /\ UNCHANGED vars

NightNext ==
  \/ Next /\ UNCHANGED refused
  \/ ScenariosMove

\* Nothing is promised of a night that may be rolled back.
NightLands == Jobs /\ ~refused /\ UNCHANGED refused

FairSpec == NightInit /\ [][NightNext]_nightVars /\ WF_nightVars(NightLands)

-----------------------------------------------------------------------------

Outdated(x) == InService(x) /\ Rated(x) /\ Expired(x)

\* CINV-10, as far as the nights land.  An expired rating on a deployment in
\* service is eventually downgraded or assessed anew, or the deployment
\* leaves service, unless some night finds a scenario the register refuses.
ExpiredEventuallyDowngraded ==
  \A d \in Deployment : Outdated(dep[d]) ~> (~Outdated(dep[d]) \/ refused)

=============================================================================
