SPECIFICATION FairSpec
CONSTANTS
  Risk = {r1}
  Objective = {o1}
  Treatment = {}
  Impacts = {4}
  Likelihoods = {2, 3, 5}
  Strategies = {"Accept", "Avoid"}
  GateFlags = {}
  Staffing <- MCStaffing
  Ceilings = {}
  MaxDay = 2
  AcceptDays <- MCAcceptDays
  MaxRenewals <- MCMaxRenewals
  r1 = r1
  o1 = o1
INVARIANTS
  AcceptanceBounded
  LapseCountedOnce
  ReadoutNotSkipped
PROPERTIES
  LapsedAcceptanceEscalated
