CONSTANTS
  Keys = {k1}
  Tiers = {pro, enterprise}
  DefaultTier = pro
  NoTier = NoTier
  Arrivals = {r1, r2}
  TierNames = {pro, enterprise, misspelt}
  NoKey = NoKey
  NoRow = NoRow
SPECIFICATION FairRegistry
INVARIANTS
  RegisteredBeforeServed
PROPERTIES
  RevocationTakesEffect
  ProvisioningTakesEffect
  TierTakesEffect
