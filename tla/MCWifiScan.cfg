SPECIFICATION ScanSpec
CONSTANTS
  Ssid = {a, b, c}
  Rssi <- Strengths
  Capacity = 2
INVARIANTS ListIsStrongest
PROPERTIES ScanEnds
