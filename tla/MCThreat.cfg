SPECIFICATION FairSpec
CONSTANTS
  tm = tm
  cmp = cmp
  dbase = dbase
  waf = waf
  ctrl = ctrl
  s1 = s1
  r1 = r1
  owner = owner
  admin = admin
  Model = {tm}
  Component = {cmp}
  Scenario = {s1}
  Risk = {r1}
  Deployment = {dbase, waf}
  Objective = {ctrl}
  ModelOf <- MCModelOf
  ObjectiveOf <- MCObjectiveOf
  Person = {owner, admin}
  Nobody = Nobody
  SystemOwners = {owner, admin}
  AppSecTeam = {admin}
  Admins = {admin}
  RiskOwners = {admin}
  RiskAnalysts = {admin}
  Severities = {"Low", "High"}
  LinkTypes = {"Represents"}
INVARIANTS
  ThreatTypeOK
  EndStatesAreEarned
  ActiveIsSettled
PROPERTIES
  StaleScenariosArePromoted
VIEW MCView
