SPECIFICATION Spec
CONSTANTS
  csf = csf
  ref = ref
  mfa = mfa
  siem = siem
  onCloud = onCloud
  onPrem = onPrem
  cloud = cloud
  prem = prem
  Framework = {csf}
  Requirement = {ref}
  Objective = {mfa, siem}
  Deployment = {onCloud, onPrem}
  Asset = {cloud, prem}
  FrameworkOf <- MCFrameworkOf
  ObjectiveOf <- MCObjectiveOf
  AssetOf <- MCAssetOf
  Configured = {csf}
  Unassured = {}
  NamedLevels = {"Full", "Partial", "Compensating", "Informative"}
INVARIANTS
  ComplianceTypeOK
  PositionsAreGrounded
PROPERTIES
  LossRevokes
