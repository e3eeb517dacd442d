SPECIFICATION MCSpec
CONSTANTS
  Treatment = {t1}
  Approval = {a1}
  Person = {engineer, deliverer}
  Nobody = Nobody
  Engineers = {engineer}
  Deliverers = {deliverer}
  RiskOwners = {}
  Seniors = {engineer}
  Admins = {}
  Risk = {r1}
  Objective = {o1}
  Impacts = {4}
  Likelihoods = {4}
  Strategies = {"Mitigate", "Transfer"}
  GateFlags = {}
  Staffing <- MCStaffing
  Ceilings = {}
  MaxDay = 0
  AcceptDays <- MCAcceptDays
  MaxRenewals <- MCMaxRenewals
  t1 = t1
  a1 = a1
  engineer = engineer
  deliverer = deliverer
  r1 = r1
  o1 = o1
INVARIANTS
  TreatmentTypeOK
  DeliveryIsAgreed
PROPERTIES
  ImplementsRegister
  ReleaseRestsOnDelivery
VIEW MCView
