---------------------------- MODULE MCCompliance ----------------------------
(* An instance of ComplianceCoverage for TLC: two controls, each with a     *)
(* deployment on an asset of its own.                                      *)
EXTENDS ComplianceCoverage

CONSTANTS csf, ref, mfa, siem, onCloud, onPrem, cloud, prem

MCFrameworkOf == [q \in Requirement |-> csf]

MCObjectiveOf == [d \in Deployment |-> IF d = onCloud THEN mfa ELSE siem]

MCAssetOf == [d \in Deployment |-> IF d = onCloud THEN cloud ELSE prem]

=============================================================================
