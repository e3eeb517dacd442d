SPECIFICATION FairReviewSpec
CONSTANTS
  o1 = o1
  a1 = a1
  onCloud = onCloud
  onPrem = onPrem
  v1 = v1
  v2 = v2
  Objective = {o1}
  Activity = {a1}
  Deployment = {onCloud, onPrem}
  ObjectiveOf <- MCObjectiveOf
  ActivityOf <- MCActivityOf
  AssessedRatings = {"CE-Medium"}
  Windows = {0}
  AutomationLevels = {"Automated"}
  CEAllowed <- MCCEAllowed
  MaxDay = 1
  Review = {v1, v2}
  NoDeployment = NoDeployment
  ReviewDays = 0
INVARIANTS
  ReviewTypeOK
PROPERTIES
  OneReviewPerRepair
  CompletionRestsOnFreshRating
  LateReviewsEscalate
CONSTRAINT
  MCDeploymentsOnly
