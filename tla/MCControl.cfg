SPECIFICATION FairSpec
CONSTANTS
  Objective = {o1}
  Activity = {a1}
  Deployment = {d1}
  ObjectiveOf <- MCObjectiveOf
  ActivityOf <- MCActivityOf
  AssessedRatings = {"CE-Unvalidated", "CE-Low", "CE-Medium", "CE-High"}
  Windows = {0, 1}
  AutomationLevels = {"Manual", "Automated"}
  CEAllowed <- MCCEAllowed
  MaxDay = 2
  o1 = o1
  a1 = a1
  d1 = d1
INVARIANTS
  TypeOK
  FailureLeavesItsMark
PROPERTIES
  WeakeningAnnounced
  ExpiredEventuallyDowngraded
