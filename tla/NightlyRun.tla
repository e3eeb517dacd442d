----------------------------- MODULE NightlyRun -----------------------------
(***************************************************************************)
(* run_all: the nightly jobs in one session that commits at the end.       *)
(*                                                                         *)
(* The promotion of stale threat scenarios comes after the expiry jobs and *)
(* talks to the risk register, whose service commits the session when it   *)
(* creates the risk; when it refuses one, the job rolls the session back.  *)
(* So the first stale scenario the query returns decides whether the work  *)
(* of the jobs before it lands.  The exceptions stand for all that work:   *)
(* rating expiry, lapsed acceptances and escalations share its fate.       *)
(***************************************************************************)
EXTENDS PolicyExceptions

CONSTANTS
  Scenario,    \* threat scenarios
  Refused      \* those whose risk the register refuses, like an owner's role

ASSUME NightlyAssumption == Refused \subseteq Scenario

VARIABLE stale   \* scenarios past the promotion window and still Identified

nvars == <<exception, exception_count, stale>>

NightlyTypeOK == ExceptionTypeOK /\ stale \in SUBSET Scenario

NightlyInit == ExceptionInit /\ stale = {}

\* No stale scenario, or a promotable one first: everything before it lands.
NightLands ==
  /\ stale # {} => stale \ Refused # {}
  /\ ExpireDue
  /\ stale' = stale \cap Refused

\* A refused scenario first: what the earlier jobs did is rolled back.
NightRolledBack ==
  /\ stale \cap Refused # {}
  /\ stale' = stale \cap Refused
  /\ UNCHANGED evars

\* The rows come in no order, so either may happen when both kinds are stale.
RunAll == NightLands \/ NightRolledBack

\* A scenario goes stale, or somebody deals with it.
ScenarioMoves(s) ==
  /\ stale' \in {stale \cup {s}, stale \ {s}}
  /\ UNCHANGED evars

Register == \E e \in Exception : Request(e) \/ DayPasses(e)

NightlyNext ==
  \/ Register /\ UNCHANGED stale
  \/ RunAll
  \/ \E s \in Scenario : ScenarioMoves(s)

NightlySpec == NightlyInit /\ [][NightlyNext]_nvars

\* The job is run every night by a scheduler outside the application.
FairNightlySpec == NightlySpec /\ WF_nvars(RunAll)

-----------------------------------------------------------------------------

\* PE-5 as the code keeps it.  A lapsed exception is expired, renewed or
\* cancelled out, unless some night finds a scenario the register refuses.
LapseSettlesUnlessRefused ==
  \A e \in Exception : Lapsed(e) ~> (~Lapsed(e) \/ stale \cap Refused # {})

\* PE-5 as it is written: "Scheduled job expires overdue exceptions and
\* notifies the CISO".  One scenario that is refused every night undoes it.
LapseSettles == \A e \in Exception : Lapsed(e) ~> ~Lapsed(e)

=============================================================================
