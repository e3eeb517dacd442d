SPECIFICATION MCSpec
CONSTANTS
  Risk = {r1}
  Objective = {o1}
  Treatment = {}
  Impacts = {4}
  Likelihoods = {3, 4}
  Strategies = {"Avoid"}
  GateFlags = {}
  Staffing <- MCStaffing
  AcceptDays <- MCAcceptDays
  MaxRenewals <- MCMaxRenewals
  Activity = {a1}
  Deployment = {d1}
  ObjectiveOf <- MCObjectiveOf
  ActivityOf <- MCActivityOf
  AssessedRatings = {"CE-Medium"}
  Windows = {0}
  AutomationLevels = {"Automated"}
  CEAllowed <- MCCEAllowed
  Family <- MCFamily
  EscalationDays = 1
  QuarterDays = 1
  SystemicFailureThreshold = 3
  MaxDay = 1
  r1 = r1
  o1 = o1
  a1 = a1
  d1 = d1
PROPERTIES
  ReductionRestsOnFreshEvidence
  DeploymentFailureDiscardsResidual
  ImplementsRiskLifecycle
VIEW MCView
