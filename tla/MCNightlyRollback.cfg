SPECIFICATION FairNightlySpec
CONSTANTS
  access = access
  crypto = crypto
  legacy = legacy
  vendor = vendor
  phish = phish
  spoof = spoof
  PolicyId = {access, crypto}
  Exception = {legacy, vendor}
  PolicyOf <- MCPolicyOf
  Scenario = {phish, spoof}
  Refused = {spoof}
PROPERTIES
  LapseSettles
