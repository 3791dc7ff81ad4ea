SPECIFICATION Spec
CONSTANTS
  k1 = k1
  k2 = k2
  s1 = s1
  s2 = s2
  a1 = a1
  a2 = a2
  PinKeys <- MCPinKeys
  Seeds <- MCSeeds
  Salts <- MCSalts
  Limit = 3
  NoValue = NoValue

INVARIANTS SnapshotTruthful HonestResults OneVerification Recoverable
PROPERTY ImplementsSecureSeed
