SPECIFICATION Spec
CONSTANTS
  p1 = p1
  mfa = mfa
  siem = siem
  edr = edr
  owner = owner
  ciso = ciso
  deputy = deputy
  first = first
  second = second
  Nobody = Nobody
  NoText = NoText
  Policy = {p1}
  Objective = {mfa, siem, edr}
  Person = {owner, ciso, deputy}
  PolicyOwners = {owner, ciso}
  Seniors = {ciso, deputy}
  Text = {first, second}
INVARIANTS
  PolicyTypeOK
  EnforcedPolicyIsBacked
  AlignmentNeverUnderstated
PROPERTIES
  BodyInForceKept
