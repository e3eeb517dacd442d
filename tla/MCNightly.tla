------------------------------ MODULE MCNightly ------------------------------
(* An instance of NightlyRun for TLC: two exceptions to one of two policies,  *)
(* a scenario the register takes and one it refuses.                        *)
EXTENDS NightlyRun

CONSTANTS access, crypto, legacy, vendor, phish, spoof

MCPolicyOf == [e \in Exception |-> access]

=============================================================================
