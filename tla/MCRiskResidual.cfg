SPECIFICATION Spec
CONSTANTS
  Risk = {r1}
  Objective = {o1}
  Treatment = {t1}
  Impacts = {4}
  Likelihoods = {2, 4}
  Strategies = {"Mitigate"}
  GateFlags = {"effectiveness_confirmed"}
  Staffing <- MCStaffing
  Ceilings = {0, 2}
  MaxDay = 1
  AcceptDays <- MCAcceptDays
  MaxRenewals <- MCMaxRenewals
  r1 = r1
  o1 = o1
  t1 = t1
INVARIANTS
  TypeOK
  ResidualIsGated
  MitigationBacked
  NewCycleRefusedOnlyForPeople
PROPERTIES
  ReportedFallsOnlyWhenScored
  FailureFreezes
VIEW MCView
