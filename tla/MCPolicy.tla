------------------------------ MODULE MCPolicy ------------------------------
(* An instance of PolicyLifecycle for TLC: one policy, an owner, a senior   *)
(* person who may own it too, and a senior person who may not.             *)
EXTENDS PolicyLifecycle

CONSTANTS p1, mfa, siem, edr, owner, ciso, deputy, first, second

=============================================================================
