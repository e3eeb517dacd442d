SPECIFICATION EstateSpec
CONSTANTS
  o1 = o1
  a1 = a1
  d1 = d1
  csf = csf
  ref = ref
  cloud = cloud
  tm = tm
  cmp = cmp
  s1 = s1
  owner = owner
  appsec = appsec
  Objective = {o1}
  Activity = {a1}
  Deployment = {d1}
  ObjectiveOf <- MCObjectiveOf
  ActivityOf <- MCActivityOf
  AssessedRatings = {"CE-Medium"}
  Windows = {0}
  AutomationLevels = {"Automated"}
  CEAllowed <- MCCEAllowed
  MaxDay = 0
  Review = {}
  NoDeployment = NoDeployment
  ReviewDays = 0
  Framework = {csf}
  Requirement = {ref}
  Asset = {cloud}
  FrameworkOf <- MCFrameworkOf
  AssetOf <- MCAssetOf
  Configured = {csf}
  Unassured = {}
  NamedLevels = {"Full"}
  Model = {tm}
  Component = {cmp}
  Scenario = {s1}
  Risk = {}
  ModelOf <- MCModelOf
  Person = {owner, appsec}
  Nobody = Nobody
  SystemOwners = {owner}
  AppSecTeam = {appsec}
  Admins = {}
  RiskOwners = {}
  RiskAnalysts = {}
  Severities = {"High"}
  LinkTypes = {"Represents"}
PROPERTIES
  ImplementsDependants
CONSTRAINT
  MCDependantsOnly
VIEW MCView
