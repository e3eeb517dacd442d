------------------------------ MODULE Scoring ------------------------------
(***************************************************************************)
(* The deterministic scoring engine (engine/scoring.py) with the rating    *)
(* bands and effectiveness ceilings of config/governance.yml: pure         *)
(* functions over a 5x5 grid of impact and likelihood.                     *)
(*                                                                         *)
(* A score is the pair the engine multiplies.  NoScore stands for a pair   *)
(* with an absent half: the engine returns None for it and no rating.      *)
(***************************************************************************)
EXTENDS Integers, FiniteSets

Axis == 1..5

Scores == [impact : Axis, likelihood : Axis]

NoScore == [impact |-> 0, likelihood |-> 0]

Ratings == {"Critical", "High", "Moderate", "Moderate-Low", "Low"}

\* The governance bands, by their lower bounds.
RatingFor(score) ==
  CASE score >= 20 -> "Critical"
    [] score \in 15..19 -> "High"
    [] score \in 10..14 -> "Moderate"
    [] score \in 5..9 -> "Moderate-Low"
    [] OTHER -> "Low"

\* CALC-1: impact times likelihood
Magnitude(sc) == sc.impact * sc.likelihood

RatingOf(sc) == IF sc = NoScore THEN "Unrated" ELSE RatingFor(Magnitude(sc))

AboveAppetite(rating) == rating \in {"Critical", "High", "Moderate"}

-----------------------------------------------------------------------------
(* Control effectiveness.  The four ratings buy a likelihood reduction of  *)
(* at most 2, 1, 0 and 0; NoCE stands for a control with no deployment     *)
(* whose effectiveness the engine would count.                             *)

CERatings == {"CE-Unvalidated", "CE-Low", "CE-Medium", "CE-High"}

CEMaxLikelihoodReduction(rating) ==
  CASE rating = "CE-High" -> 2
    [] rating = "CE-Medium" -> 1
    [] OTHER -> 0

CEReductions == 0..2

NoCE == -1

\* CE-4: the weakest contributing control decides; nothing contributing
\* permits no reduction at all.
WorstCase(ceilings) ==
  IF ceilings = {} THEN 0
  ELSE CHOOSE c \in ceilings : \A d \in ceilings : c <= d

\* RES-4: the reduction must be earned; a likelihood that rose is permitted.
ValidResidualLikelihood(inherent, residual, ceiling) ==
  inherent - residual <= ceiling

=============================================================================
